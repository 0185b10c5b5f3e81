-------------------------------- MODULE MCParity -------------------------------
EXTENDS Parity, MCMiseToml, MCBmadVersions

MCInParity ==
    [envOp |-> "ok", ignore |-> "ok", hook |-> "managed", writer |-> "ok",
     mise |-> "ok", link |-> "ok", block |-> "ok", script |-> "ok", versions |-> "ok",
     retired |-> "none", skills |-> "ok", roots |-> "ok",
     agents |-> "own", claude |-> "link", gemini |-> "link", readme |-> "none",
     json |-> "ok", name |-> "own", roles |-> "ok", optOut |-> "no", waived |-> {},
     plane |-> "none", copier |-> "own",
     bmad |-> "full", bmadName |-> "own", version |-> "now",
     unsupported |-> "none", ignoreAgents |-> "ok", board |-> "match"]

Wrong(part, values) == {part} \X values

MCDeviations ==
    Wrong("envOp", {"none", "example", "hands"}) \union Wrong("ignore", {"none", "noline"})
    \union Wrong("hook", {"none", "legacy"}) \union Wrong("writer", {"none", "old"})
    \union Wrong("mise", {"none", "torn"}) \union Wrong("link", {"drift", "skills", "hand"})
    \union Wrong("block", {"none"}) \union Wrong("script", {"none", "old", "stale"})
    \union Wrong("versions", {"none", "own"}) \union Wrong("retired", {"file", "dir"})
    \union Wrong("skills", {"stale", "foreign"}) \union Wrong("roots", {"none", "real", "blocked", "mixed"})
    \union Wrong("agents", {"none"}) \union Wrong("readme", {"there"})
    \union Wrong("claude", {"none", "file", "else", "broken"})
    \union Wrong("gemini", {"none", "file", "else", "broken"})
    \union Wrong("json", {"none", "torn", "drift", "vestige"}) \union Wrong("name", {"none"})
    \union Wrong("roles", {"missing", "stale", "unprovisioned"}) \union Wrong("optOut", {"yes"})
    \union Wrong("waived", {{"bmad.cli-roots"}}) \union Wrong("plane", {"there", "both"})
    \union Wrong("copier", {"none", "torn", "base"})
    \union Wrong("bmad", {"none", "part", "bad"}) \union Wrong("bmadName", {"base"})
    \union Wrong("version", {"old"}) \union Wrong("unsupported", {"generated", "own"})
    \union Wrong("ignoreAgents", {"none"}) \union Wrong("board", {"unlinked", "differs"})
=============================================================================
