----------------------------- MODULE SelfUpdate -----------------------------
(***************************************************************************)
(* Self-update (update.rs, web.rs) and the start of a process (main.rs,    *)
(* runtime/mod.rs) around it.                                              *)
(*                                                                         *)
(*   - A request pulls, builds, and leaves a child behind that sleeps and  *)
(*     then runs the binary; requests run side by side in threads.         *)
(*   - A process recovers running turns, starts its channels, and only     *)
(*     then binds the port; if that fails it ends.                         *)
(*   - External: git, cargo with its lock on the build directory, the      *)
(*     remote repository, and whoever stops and starts the program.        *)
(*                                                                         *)
(* Revisions are numbers, 0 being what runs first; a build compiles what   *)
(* it finds in the tree, which a pull may change meanwhile.                *)
(***************************************************************************)
EXTENDS Integers, Sequences, FiniteSets

CONSTANTS
    Requests,     \* POST /api/update
    Messages,     \* messages that start a turn
    Broken,       \* the sets of revisions that may not compile
    MaxRevision, MaxProcesses, MaxStops     \* bounds

NoRequest == "nobody"

ASSUME UpdateAssumption ==
    /\ NoRequest \notin Requests
    /\ {MaxRevision, MaxProcesses, MaxStops} \subseteq Nat /\ MaxProcesses > 0
    /\ \A b \in Broken : b \subseteq 1..MaxRevision

VARIABLES
    remote, tree, binary,    \* revisions: origin's, checked out, built
    broken,
    request,     \* of each request: where it is, and what it pulled
    builder,     \* the request that has cargo's lock, or NoRequest
    procs,       \* the processes, in the order of their making
    port,        \* the process that is bound to the port, 0 when none
    begun,       \* status and process of the turn of each message
    stops

code == <<remote, tree, binary, broken>>
suVars == <<code, request, builder, procs, port, begun, stops>>

MutStartOrder == <<"sleeping", "connecting", "recovering", "binding", "serving">>

\* main: the places of a process, in the order it comes through them.
StartOrder == <<"sleeping", "recovering", "connecting", "binding", "serving">>

Place(name) == CHOOSE i \in DOMAIN StartOrder : StartOrder[i] = name

Unasked == [at |-> "new", had |-> 0, pulled |-> 0, started |-> 0]

SuInit ==
    /\ remote = 0 /\ tree = 0 /\ binary = 0 /\ broken \in Broken
    /\ request = [r \in Requests |-> Unasked] /\ builder = NoRequest
    /\ procs = <<[at |-> StartOrder[2], revision |-> 0]>>
    /\ port = 0
    /\ begun = [t \in Messages |-> [status |-> "none", owner |-> 0]]
    /\ stops = 0

Stands(p, step) == procs[p].at = step
Asked(r, step) == request[r].at = step
Advance(r, step) == request' = [request EXCEPT ![r].at = step]

-----------------------------------------------------------------------------
(* A request: perform_update(true) in a blocking thread of the process      *)
(* that serves.                                                             *)

Ask(r) ==
    /\ Asked(r, "new") /\ port # 0
    /\ request' = [request EXCEPT ![r].at = "pulling", ![r].had = tree]
    /\ UNCHANGED <<code, builder, procs, port, begun, stops>>

\* git pull --ff-only, which may fail as well.
GitPull(r) ==
    /\ Asked(r, "pulling")
    /\ \/ /\ tree' = remote
          /\ request' = [request EXCEPT ![r].at = "pulled", ![r].had = tree, ![r].pulled = remote]
       \/ Advance(r, "refused") /\ UNCHANGED tree
    /\ UNCHANGED <<remote, binary, broken, builder, procs, port, begun, stops>>

\* cargo build waits for its lock; do_exec is set, so that it is not skipped.
StartBuild(r) ==
    /\ Asked(r, "pulled") /\ builder = NoRequest
    /\ builder' = r
    /\ request' = [request EXCEPT ![r].at = "building", ![r].started = tree]
    /\ UNCHANGED <<code, procs, port, begun, stops>>

EndBuild(r) ==
    /\ Asked(r, "building")
    /\ \E revision \in request[r].started..tree :
          IF revision \in broken THEN Advance(r, "refused") /\ UNCHANGED binary
          ELSE binary' = revision /\ Advance(r, "built")
    /\ builder' = NoRequest
    /\ UNCHANGED <<remote, tree, broken, procs, port, begun, stops>>

\* The child is spawned, and the answer says so; whether it could be is not
\* looked at.
SpawnChild(r) ==
    /\ Asked(r, "built")
    /\ Advance(r, "answered")
    /\ \/ /\ Len(procs) < MaxProcesses
          /\ procs' = Append(procs, [at |-> "sleeping", revision |-> binary])
       \/ UNCHANGED procs
    /\ UNCHANGED <<code, builder, port, begun, stops>>

-----------------------------------------------------------------------------
(* A process.                                                               *)

Enter(p) == procs' = [procs EXCEPT ![p].at = StartOrder[Place(@) + 1]]

\* sleep 2 && exec: the binary is whichever is there then.
ExecBinary(p) ==
    /\ Stands(p, "sleeping")
    /\ procs' = [procs EXCEPT ![p] = [at |-> StartOrder[2], revision |-> binary]]
    /\ UNCHANGED <<code, request, builder, port, begun, stops>>

\* Runtime::from_env fails all turns that are running, whosever they are.
RecoverAtStart(p) ==
    /\ Stands(p, "recovering") /\ Enter(p)
    /\ begun' = [t \in Messages |->
                  IF begun[t].status = "running" THEN [begun[t] EXCEPT !.status = "failed"] ELSE begun[t]]
    /\ UNCHANGED <<code, request, builder, port, stops>>

StartChannels(p) ==
    /\ Stands(p, "connecting") /\ Enter(p)
    /\ UNCHANGED <<code, request, builder, port, begun, stops>>

\* If the port is taken main returns; what the loser's channels began is left.
Bind(p) ==
    /\ Stands(p, "binding")
    /\ IF port = 0 THEN port' = p /\ Enter(p)
       ELSE procs' = [procs EXCEPT ![p].at = "ended"] /\ UNCHANGED port
    /\ UNCHANGED <<code, request, builder, begun, stops>>

\* A message of a channel, or of the web.
HasChannels(p) == procs[p].at # "ended" /\ Place(procs[p].at) > Place("connecting")

TakeMessage(p, t) ==
    /\ HasChannels(p) /\ begun[t].status = "none"
    /\ begun' = [begun EXCEPT ![t] = [status |-> "running", owner |-> p]]
    /\ UNCHANGED <<code, request, builder, procs, port, stops>>

FinishTurn(p, t) ==
    /\ HasChannels(p) /\ begun[t].owner = p /\ begun[t].status \in {"running", "failed"}
    /\ begun' = [begun EXCEPT ![t] = [status |-> "succeeded", owner |-> 0]]
    /\ UNCHANGED <<code, request, builder, procs, port, stops>>

-----------------------------------------------------------------------------
(* Who pushes, stops and starts.                                            *)

Push ==
    /\ remote < MaxRevision /\ remote' = remote + 1
    /\ UNCHANGED <<tree, binary, broken, request, builder, procs, port, begun, stops>>

\* Requests end with their process; a build that is under way goes on without
\* anybody to hear of it, which is left out.
Stop ==
    /\ port # 0 /\ stops < MaxStops /\ stops' = stops + 1
    /\ \A r \in Requests : request[r].at \notin {"pulling", "pulled", "building", "built"}
    /\ procs' = [procs EXCEPT ![port].at = "ended"] /\ port' = 0
    /\ UNCHANGED <<code, request, builder, begun>>

StartByHand ==
    /\ port = 0 /\ Len(procs) < MaxProcesses /\ \A p \in DOMAIN procs : procs[p].at \in {"sleeping", "ended"}
    /\ procs' = Append(procs, [at |-> StartOrder[2], revision |-> binary])
    /\ UNCHANGED <<code, request, builder, port, begun, stops>>

Update(r) == Ask(r) \/ GitPull(r) \/ StartBuild(r) \/ EndBuild(r) \/ SpawnChild(r)

Process(p) ==
    \/ ExecBinary(p) \/ RecoverAtStart(p) \/ StartChannels(p) \/ Bind(p)
    \/ \E t \in Messages : TakeMessage(p, t) \/ FinishTurn(p, t)

SuNext ==
    \/ \E r \in Requests : Update(r)
    \/ \E p \in DOMAIN procs : Process(p)
    \/ Push \/ Stop \/ StartByHand

SuSpec == SuInit /\ [][SuNext]_suVars

\* Requests, starts and turns go on; nobody has to push, ask or stop.
SuFairness ==
    /\ \A r \in Requests :
          WF_suVars(GitPull(r) \/ StartBuild(r) \/ EndBuild(r) \/ SpawnChild(r))
    /\ \A p \in 1..MaxProcesses :
          WF_suVars(p \in DOMAIN procs /\ (ExecBinary(p) \/ RecoverAtStart(p) \/ StartChannels(p) \/ Bind(p)))

SuFairSpec == SuSpec /\ SuFairness

-----------------------------------------------------------------------------
(* Properties.                                                              *)

\* Types; one process at most serves, the one that has the port, and cargo's
\* lock is with the request that builds.
SuTypeOK ==
    /\ {remote, tree, binary} \subseteq 0..MaxRevision /\ tree <= remote /\ binary <= tree
    /\ \A p \in DOMAIN procs :
          /\ procs[p].at \in {"sleeping", "recovering", "connecting", "binding", "serving", "ended"}
          /\ (procs[p].at = "serving") = (port = p)
    /\ \A r \in Requests : Asked(r, "building") = (builder = r)
    /\ \A t \in Messages : begun[t].status \in {"none", "running", "failed", "succeeded"}

\* An answer that says that the build succeeded means that a binary of what the
\* request pulled, or newer, is there to be run: also when an earlier request
\* pulled the same and could not build it, and when two of them overlap.
SuccessIsBuilt ==
    \A r \in Requests : request[r].at \in {"built", "answered"} => binary >= request[r].pulled

\* A turn is failed by the start of another process only: no process recovers
\* what its own channels have begun while it was still starting.
OwnTurnsKept ==
    [][\A t \in Messages :
          begun[t].status = "running" /\ begun'[t].status = "failed" =>
              procs'[begun[t].owner] = procs[begun[t].owner]]_suVars

\* An update that is told to have worked has, and costs the serving process no
\* more than the turns another process fails as it starts.
UpdatesAreHonest == []SuccessIsBuilt /\ OwnTurnsKept

\* "Build succeeded. Process will exec into new binary in 2 seconds": a child
\* that was left to run the binary that was built comes to serve, it or one of
\* a later revision, unless the program is stopped (does not hold: the one that
\* serves never leaves the port).
UpdateTakesEffect ==
    \A p \in 1..MaxProcesses :
        (p \in DOMAIN procs /\ Stands(p, "sleeping")) ~>
            (stops > 0 \/ (port # 0 /\ p \in DOMAIN procs /\ procs[port].revision >= procs[p].revision))
=============================================================================
