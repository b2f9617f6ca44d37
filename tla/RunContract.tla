---------------------------- MODULE RunContract ----------------------------
(***************************************************************************)
(* What one invocation promises about the working tree, with the staged    *)
(* preflight, the worker pool and the temporary files left out: a run      *)
(* first plans, writing nothing; it then either stops with an exit code or *)
(* commits to a text for each file it owes a rewrite, and pays these in    *)
(* path order, one indivisible rewrite each.  Authors may change any file  *)
(* at any time, and a power loss may bring back a version that was still   *)
(* recoverable.                                                            *)
(***************************************************************************)
EXTENDS Integers

CONSTANTS File, Content, Absent, Torn, Killed, Running

VARIABLES
  worktree,      (* what each path holds                                     *)
  recoverable,   (* earlier versions a power loss may bring back             *)
  stage,         (* "planning", "committed" or "over"                        *)
  owed,          (* the texts still to be written, by path                   *)
  code           (* the exit code once over                                  *)

vars == <<worktree, recoverable, stage, owed, code>>

Nothing == [f \in {} |-> Absent]
Due     == DOMAIN owed

Init ==
  /\ worktree \in [File -> Content \cup {Absent}]
  /\ recoverable = [f \in File |-> {}]
  /\ stage = "planning" /\ owed = Nothing /\ code = Running

Over(c) == stage' = "over" /\ owed' = Nothing /\ code' = c

(* The verdict of a run that writes nothing. *)
Stop ==
  /\ stage = "planning"
  /\ \E c \in 0 .. 4 : Over(c)
  /\ UNCHANGED <<worktree, recoverable>>

Commit ==
  /\ stage = "planning" /\ stage' = "committed"
  /\ \E S \in SUBSET File : \E texts \in [S -> Content] : owed' = texts
  /\ UNCHANGED <<worktree, recoverable, code>>

Rewrite(f) ==
  /\ stage = "committed" /\ f \in Due
  /\ \A g \in Due : f <= g
  /\ worktree' = [worktree EXCEPT ![f] = owed[f]]
  /\ recoverable' = [recoverable EXCEPT ![f] = @ \cup {worktree[f]}]
  /\ owed' = [g \in Due \ {f} |-> owed[g]]
  /\ UNCHANGED <<stage, code>>

Complete == stage = "committed" /\ Due = {} /\ Over(0) /\ UNCHANGED <<worktree, recoverable>>
Abort    == stage = "committed" /\ Due # {} /\ Over(4) /\ UNCHANGED <<worktree, recoverable>>
Die      == stage # "over" /\ Over(Killed) /\ UNCHANGED <<worktree, recoverable>>

PowerLoss ==
  /\ Over(Killed)
  /\ worktree' \in [File -> Content \cup {Absent}]
  /\ \A f \in File : worktree'[f] \in recoverable[f] \cup {worktree[f]}
  /\ recoverable' = [f \in File |-> {}]

Author ==
  \E f \in File : \E text \in Content \cup {Absent} :
    /\ worktree' = [worktree EXCEPT ![f] = text]
    /\ recoverable' = [recoverable EXCEPT ![f] = {}]
    /\ UNCHANGED <<stage, owed, code>>

Again ==
  /\ stage = "over"
  /\ stage' = "planning" /\ owed' = Nothing /\ code' = Running
  /\ UNCHANGED <<worktree, recoverable>>

Next == Stop \/ Commit \/ (\E f \in File : Rewrite(f)) \/ Complete \/ Abort \/ Die \/ PowerLoss \/ Author \/ Again

Spec == Init /\ [][Next]_vars
=============================================================================
