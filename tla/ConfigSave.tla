----------------------------- MODULE ConfigSave -----------------------------
(***************************************************************************)
(* Saving .target.jsonc while the server of the project runs: wizards      *)
(* (dutabo init, src/sermcp/src/init.rs) write it by way of a temporary    *)
(* file and then have the server let go of the devices it no longer lists; *)
(* a server that starts meanwhile reads whichever file is there.           *)
(*                                                                         *)
(* The temporary file has one name for all wizards.  What a file says is   *)
(* the set of serial endpoints it lists; a file opened for writing and not *)
(* yet written is blank, and does not parse.                               *)
(***************************************************************************)
EXTENDS Integers

CONSTANTS
    Wizards,
    Endpoints,
    MaxCommits,   \* bound: saves begun
    MaxServers    \* bound: starts of the server

ASSUME ConfigAssumption == {MaxCommits, MaxServers} \subseteq Nat

VARIABLES
    saved,     \* what .target.jsonc says
    temp,      \* what .target.jsonc.tmp says, or NoTemp
    wizard,    \* where each wizard is
    mcp,       \* the server process, and the pid in .dut-serial/mcp.pid
    engines,   \* the engine of each endpoint in that process
    commits,   \* counter for MaxCommits
    version    \* history: counts what is done to the saved file

configVars == <<saved, temp, wizard, mcp, engines, commits, version>>
fileVars == <<saved, temp, version>>
mcpVars == <<mcp, engines>>

Contents == [there : BOOLEAN, whole : BOOLEAN, lists : SUBSET Endpoints]
Blank == [there |-> TRUE, whole |-> FALSE, lists |-> {}]
NoTemp == [Blank EXCEPT !.there = FALSE]
Lists(endpoints) == [there |-> TRUE, whole |-> TRUE, lists |-> endpoints]

\* fd: the file that a wizard has open for writing, by the name it has now.
Closed == [at |-> "closed", old |-> {}, want |-> {}, fd |-> "none", pid |-> 0,
           seen |-> 0, todo |-> {}]
NoEngines == [e \in Endpoints |-> "none"]

ConfigInit ==
    /\ \E endpoints \in SUBSET Endpoints : saved = Lists(endpoints)
    /\ temp = NoTemp /\ version = 0
    /\ wizard = [w \in Wizards |-> Closed]
    /\ mcp = [at |-> "dead", pid |-> 0, named |-> 0]
    /\ engines = NoEngines
    /\ commits = 0

At(w, place) == wizard[w].at = place
Move(w, place) == wizard' = [wizard EXCEPT ![w].at = place]

\* A save is over; the form stays open, with the file it was opened with.
Over(record, place) == [record EXCEPT !.at = place, !.want = {}, !.pid = 0, !.todo = {}]
End(w, place) == wizard' = [wizard EXCEPT ![w] = Over(@, place)]

-----------------------------------------------------------------------------
(* A save.                                                                 *)

\* The form is opened with the file; one that does not parse is refused.
Prepare(w) ==
    /\ At(w, "closed") /\ saved.whole
    /\ wizard' = [wizard EXCEPT ![w].at = "form", ![w].old = saved.lists]
    /\ UNCHANGED <<fileVars, mcpVars, commits>>

\* Nothing is written when nothing differs from the file the form was opened
\* with.
Submit(w, want) ==
    /\ wizard[w].at \in {"form", "saved", "refused", "unconfirmed"}
    /\ commits < MaxCommits
    /\ commits' = commits + 1
    /\ wizard' = [wizard EXCEPT ![w].at = IF want = wizard[w].old THEN "written" ELSE "write",
                                ![w].want = want]
    /\ UNCHANGED <<fileVars, mcpVars>>

\* fs::write opens the file, or empties the one that is there, and then writes.
TruncateTemp(w) ==
    /\ At(w, "write")
    /\ temp' = Blank
    /\ wizard' = [wizard EXCEPT ![w].at = "fill", ![w].fd = "temp"]
    /\ UNCHANGED <<saved, version, mcpVars, commits>>

FillTemp(w) ==
    /\ At(w, "fill")
    /\ LET fd == wizard[w].fd IN
          /\ temp' = IF fd = "temp" THEN Lists(wizard[w].want) ELSE temp
          /\ saved' = IF fd = "saved" THEN Lists(wizard[w].want) ELSE saved
          /\ version' = IF fd = "saved" THEN version + 1 ELSE version
    /\ wizard' = [wizard EXCEPT ![w].at = "check", ![w].fd = "none"]
    /\ UNCHANGED <<mcpVars, commits>>

CheckTemp(w) ==
    /\ At(w, "check")
    /\ Move(w, IF temp.whole THEN "commit" ELSE "drop")
    /\ UNCHANGED <<fileVars, mcpVars, commits>>

\* Who writes to a file goes on writing to it under its new name, or none.
Renamed(w, place, name) ==
    wizard' = [v \in Wizards |->
        IF v = w THEN (IF place = "refused" THEN Over(wizard[w], place)
                                            ELSE [wizard[w] EXCEPT !.at = place])
        ELSE [wizard[v] EXCEPT !.fd = IF @ = "temp" THEN name ELSE IF @ = "saved" /\ name = "saved"
                                                               THEN "gone" ELSE @]]

DropTemp(w) ==
    /\ At(w, "drop")
    /\ temp' = NoTemp
    /\ Renamed(w, "refused", "gone")
    /\ UNCHANGED <<saved, version, mcpVars, commits>>

CommitTemp(w) ==
    /\ At(w, "commit")
    /\ \/ /\ ~temp.there
          /\ End(w, "refused")
          /\ UNCHANGED fileVars
       \/ /\ temp.there
          /\ saved' = temp /\ temp' = NoTemp /\ version' = version + 1
          /\ Renamed(w, "written", "saved")
    /\ UNCHANGED <<mcpVars, commits>>

-----------------------------------------------------------------------------
(* The release of what was removed.                                        *)

ServerLives == mcp.at # "dead"
LivePid == IF ServerLives /\ mcp.named = mcp.pid THEN mcp.named ELSE 0

\* The pid file is read after the rename.
LookForServer(w) ==
    /\ At(w, "written")
    /\ wizard' = [wizard EXCEPT ![w].at = "look", ![w].pid = LivePid, ![w].seen = version]
    /\ UNCHANGED <<fileVars, mcpVars, commits>>

\* Then the locks of what this save removes.
LookForHolders(w) ==
    /\ At(w, "look")
    /\ IF \/ wizard[w].pid # 0
          \/ \E e \in wizard[w].old \ wizard[w].want : engines[e] = "held"
       THEN Move(w, "ask") ELSE End(w, "saved")
    /\ UNCHANGED <<fileVars, mcpVars, commits>>

Serves(w) == mcp.at = "up" /\ wizard[w].pid \in {0, mcp.pid}

\* Mutant: the wizard's removals are retired, whatever the server holds.
NominatedToRetire(w) == {e \in wizard[w].old \ wizard[w].want : engines[e] # "none"}

\* The server compares its own engines with the saved file.
ToRetire(w) == {e \in Endpoints \ saved.lists : engines[e] # "none"}

Reconcile(w) ==
    /\ At(w, "ask") /\ Serves(w) /\ saved.whole
    /\ wizard' = [wizard EXCEPT ![w].at = "retire", ![w].todo = ToRetire(w)]
    /\ UNCHANGED <<fileVars, mcpVars, commits>>

\* retire_from_project waits for the mutex of an engine that is starting.
RetireEngine(w, e) ==
    /\ At(w, "retire") /\ e \in wizard[w].todo
    /\ engines[e] # "starting"
    /\ engines' = [engines EXCEPT ![e] = "removed"]
    /\ wizard' = [wizard EXCEPT ![w].todo = @ \ {e}]
    /\ UNCHANGED <<fileVars, mcp, commits>>

Acknowledge(w) ==
    /\ At(w, "retire") /\ wizard[w].todo = {}
    /\ End(w, "saved")
    /\ UNCHANGED <<fileVars, mcpVars, commits>>

\* The file does not parse, another process has the pid, nobody listens, or
\* the request times out: "device release is unconfirmed".  The handler of a
\* request that its client left is dropped where it is.
GiveUp(w) ==
    /\ wizard[w].at \in {"ask", "retire"}
    /\ End(w, "unconfirmed")
    /\ UNCHANGED <<fileVars, mcpVars, commits>>

\* The wizard ends, or is killed.
Quit(w) ==
    /\ ~At(w, "closed")
    /\ wizard' = [wizard EXCEPT ![w] = Closed]
    /\ UNCHANGED <<fileVars, mcpVars, commits>>

-----------------------------------------------------------------------------
(* The server: the project lock, the pid file, then the registry of the    *)
(* engines the file lists; their starts run beside the transport.          *)

ServerStarts ==
    /\ mcp.at = "dead" /\ mcp.pid < MaxServers
    /\ mcp' = [mcp EXCEPT !.at = "locked", !.pid = @ + 1]
    /\ UNCHANGED <<fileVars, engines, wizard, commits>>

ServerIsNamed ==
    /\ mcp.at = "locked"
    /\ mcp' = [mcp EXCEPT !.at = "named", !.named = mcp.pid]
    /\ UNCHANGED <<fileVars, engines, wizard, commits>>

\* EngineRegistry::from_config reads the file again.
ServerLoads ==
    /\ mcp.at = "named" /\ saved.whole
    /\ mcp' = [mcp EXCEPT !.at = "up"]
    /\ engines' = [e \in Endpoints |-> IF e \in saved.lists THEN "idle" ELSE "none"]
    /\ UNCHANGED <<fileVars, wizard, commits>>

\* start refuses a removed engine; a start that fails may be repeated.
EngineStarts(e) ==
    /\ engines[e] = "idle"
    /\ engines' = [engines EXCEPT ![e] = "starting"]
    /\ UNCHANGED <<fileVars, mcp, wizard, commits>>

EngineStarted(e) ==
    /\ engines[e] = "starting"
    /\ \E now \in {"held", "idle"} : engines' = [engines EXCEPT ![e] = now]
    /\ UNCHANGED <<fileVars, mcp, wizard, commits>>

\* The kernel drops the locks of a process that ends; its pid is no longer
\* alive, and the requests it was serving fail.
ServerEnds ==
    /\ ServerLives
    /\ mcp' = [mcp EXCEPT !.at = "dead"]
    /\ engines' = NoEngines
    /\ wizard' = [w \in Wizards |->
                    IF At(w, "retire") THEN Over(wizard[w], "unconfirmed") ELSE wizard[w]]
    /\ UNCHANGED <<fileVars, commits>>

ConfigNext ==
    \/ \E w \in Wizards :
          \/ Prepare(w) \/ TruncateTemp(w) \/ FillTemp(w) \/ CheckTemp(w) \/ DropTemp(w)
          \/ CommitTemp(w) \/ LookForServer(w) \/ LookForHolders(w) \/ Reconcile(w)
          \/ Acknowledge(w) \/ GiveUp(w) \/ Quit(w)
          \/ \E want \in SUBSET Endpoints : Submit(w, want)
          \/ \E e \in Endpoints : RetireEngine(w, e)
    \/ ServerStarts \/ ServerIsNamed \/ ServerLoads \/ ServerEnds
    \/ \E e \in Endpoints : EngineStarts(e) \/ EngineStarted(e)

ConfigSpec == ConfigInit /\ [][ConfigNext]_configVars

-----------------------------------------------------------------------------

\* The variables have their types.
ConfigTypeOK ==
    /\ saved \in Contents /\ temp \in Contents
    /\ \A w \in Wizards : wizard[w].todo \cup wizard[w].old \cup wizard[w].want \subseteq Endpoints
    /\ mcp.at \in {"dead", "locked", "named", "up"} /\ mcp.named \in 0 .. mcp.pid
    /\ \A e \in Endpoints : engines[e] \in {"none", "idle", "starting", "held", "removed"}

\* A wizard that was told its save is complete, with no other save since, has
\* freed what it removed: no engine of the project holds an endpoint that the
\* file does not list, nor will one start on it, whether a server was running,
\* starting, ending or replaced while the file was.
AckedIsReleased ==
    \A w \in Wizards : At(w, "saved") /\ wizard[w].seen = version =>
        \A e \in Endpoints \ saved.lists : engines[e] \in {"none", "removed"}

\* atomic_commit: "a crashed wizard can never leave a corrupt config", line
\* 5823.  Two wizards share the name of the temporary file.
FileIsWhole == saved.whole
=============================================================================
