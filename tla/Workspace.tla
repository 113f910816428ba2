------------------------------- MODULE Workspace -------------------------------
(***************************************************************************)
(* How the packages of the repository are built: scripts/workspace.ts,     *)
(* which runs one script in one workspace, in several at once, or in all   *)
(* of them in turn, and the lines of package.json that call it.  The       *)
(* script is build; a workspace is compiled against what is there of the   *)
(* workspaces it depends on.                                               *)
(***************************************************************************)
EXTENDS Naturals, Sequences, SequencesExt

CONSTANTS
  Workspaces,  \* "workspaces" of package.json, in its order
  Needs,       \* Needs[w]: the workspaces among the dependencies of w
  Lines,       \* what is typed: commands chained by &&
  MaxFaults    \* bound on scripts that fail

\* Assumed where the module is used.
WorkspaceAssumption ==
  /\ IsInjective(Workspaces) /\ MaxFaults \in Nat
  /\ Needs \in [Range(Workspaces) -> SUBSET Range(Workspaces)]

VARIABLES
  line,     \* the line
  at,       \* the command of it that runs
  queue,    \* workspaces whose script the command has yet to run
  running,  \* workspaces whose script runs
  status,   \* of the line: "runs", "ended", "failed"
  current,  \* workspaces that are built from their sources and from what they need
  outdated, \* running scripts that began when something they need was not current
  faults

vars == <<line, at, queue, running, status, current, outdated, faults>>

\* The argument of workspace.ts: w; v,w; all or -w.
One(w) == [names |-> <<w>>, awaits |-> FALSE]
Several(names) == [names |-> names, awaits |-> FALSE]
AllBut(excluded) ==
  [names |-> SelectSeq(Workspaces, LAMBDA w : w # excluded), awaits |-> TRUE]

\* bun run workspace evm-gateway build && bun run workspace -evm-gateway build
BuildLine == <<One("evm-gateway"), AllBut("evm-gateway")>>

\* Any workspaces may have been changed since they were built.
Init ==
  /\ line \in Lines /\ at = 1 /\ queue = line[1].names /\ running = {}
  /\ status = "runs" /\ faults = 0 /\ outdated = {}
  /\ current \in {c \in SUBSET Range(Workspaces) : \A w \in c : Needs[w] \subseteq c}

\* What is no longer current when w is built anew.
Above(w) ==
  LET up[n \in 0 .. Len(Workspaces)] ==
        IF n = 0 THEN {w}
        ELSE LET below == up[n - 1]
             IN  below \cup {v \in Range(Workspaces) : Needs[v] \cap below # {}}
  IN  up[Len(Workspaces)]

\* Mutant of MaySpawn: the loop over all workspaces does not await.
MaySpawn_NoAwait == TRUE

MaySpawn == line[at].awaits => running = {}

\* runScriptForWorkspace; build begins with clean.
Spawn ==
  /\ status = "runs" /\ queue # <<>> /\ MaySpawn
  /\ LET w == Head(queue)
     IN  /\ running' = running \cup {w}
         /\ current' = current \ Above(w)
         /\ outdated' = (outdated \cup (Above(w) \cap running))
                          \cup (IF Needs[w] \subseteq current THEN {} ELSE {w})
  /\ queue' = Tail(queue)
  /\ UNCHANGED <<line, at, status, faults>>

\* onExit resolves.  All scripts of a list are spawned before one can exit.
Exits(w) ==
  /\ w \in running /\ (queue = <<>> \/ line[at].awaits)
  /\ running' = running \ {w} /\ outdated' = outdated \ {w}
  /\ current' = IF w \in outdated THEN current ELSE current \cup {w}
  /\ UNCHANGED <<line, at, queue, status, faults>>

\* onExit rejects, which ends workspace.ts and the line.
ScriptFails(w) ==
  /\ w \in running /\ (queue = <<>> \/ line[at].awaits)
  /\ faults < MaxFaults /\ faults' = faults + 1
  /\ running' = running \ {w} /\ outdated' = outdated \ {w}
  /\ queue' = <<>> /\ status' = "failed"
  /\ UNCHANGED <<line, at, current>>

\* "&&", and the end of the line.
CommandEnds ==
  /\ status = "runs" /\ queue = <<>> /\ running = {}
  /\ IF at < Len(line)
     THEN at' = at + 1 /\ queue' = line[at + 1].names /\ UNCHANGED status
     ELSE status' = "ended" /\ UNCHANGED <<at, queue>>
  /\ UNCHANGED <<line, running, current, outdated, faults>>

Next ==
  \/ Spawn \/ CommandEnds
  \/ \E w \in Range(Workspaces) : Exits(w) \/ ScriptFails(w)

Spec == Init /\ [][Next]_vars

-----------------------------------------------------------------------------
Position(l) == {<<i, k>> \in (DOMAIN l) \X (1 .. Len(Workspaces)) : k <= Len(l[i].names)}
NameAt(l, p) == l[p[1]].names[p[2]]

\* p is done before q begins
Precedes(l, p, q) == p[1] < q[1] \/ (p[1] = q[1] /\ l[p[1]].awaits /\ p[2] < q[2])

\* Every workspace comes after those it needs.
InOrder(l) ==
  \A q \in Position(l) : \A d \in Needs[NameAt(l, q)] :
    \E p \in Position(l) : NameAt(l, p) = d /\ Precedes(l, p, q)

(***************************************************************************)
(* A line that ends well leaves all that it builds current, whatever was   *)
(* changed since the last build, if its order is that of the dependencies: *)
(* workspace.ts:41 awaits each script, :17 gives a failure on.             *)
(***************************************************************************)
BuildsCurrent ==
  status = "ended" /\ InOrder(line) =>
    \A p \in Position(line) : NameAt(line, p) \in current
=============================================================================
