----------------------------- MODULE Discovery -----------------------------
(***************************************************************************)
(* discover.rs: which files a run is about.                                *)
(*                                                                         *)
(* `discover_with_rust` looks at every root named on the command line,     *)
(* walks each directory among them with a pool of threads that send what   *)
(* they find through an unbounded channel, and reads the channel when the  *)
(* threads have ended.  `filter_candidates_with_rust` walks the repository *)
(* the same way, down to the paths Git selected only, and then looks a     *)
(* second time at the candidates that are no files, which the walk cannot  *)
(* have met.  An author may create and delete files all the while.         *)
(*                                                                         *)
(* A path is the sequence of its names; <<>> is the directory Git calls    *)
(* the root.  The walker itself (crate `ignore`) is external: it lists a   *)
(* directory, leaves out what the rules ignore, and hands each entry, with *)
(* the type it was listed with, to some thread.                            *)
(***************************************************************************)
EXTENDS Integers, Sequences, SequencesExt, FiniteSets

CONSTANTS
  Node,         (* the paths below the root, <<>> among them                 *)
  Trees,        (* what the file system may be when the run starts           *)
  Ignored,      (* the paths an ignore rule or a leading dot leaves out      *)
  Supported,    (* the paths whose extension is of an enabled language       *)
  Volatile,     (* the paths an author creates and deletes during the run    *)
  MaxChanges,   (* bound: how often                                          *)
  Worker,       (* the threads of the walk: `jobs.max(1)`                    *)
  Requests      (* what a run may be asked for: see Request                  *)

Kind == {"file", "dir", "link", "dangling", "absent", "broken"}

(* A root as the user spelled it, or a path as Git printed it; `outside`   *)
(* marks a candidate that is absolute or climbs out of the repository.     *)
Spelling == {"plain", "dotted", "outside"}
Path(as, n) == [as |-> as, node |-> n]
Request == [git : BOOLEAN, paths : Seq([as : Spelling, node : Node])]

(* Above every path are its directories, up to the root, which is one.     *)
(* Git prints a path without a leading dot.                                *)
ASSUME WorkersAssumption == Worker # {} /\ IsFiniteSet(Node) /\ MaxChanges \in Nat
ASSUME NodesAssumption ==
  /\ Node \subseteq Seq(STRING) /\ <<>> \in Node
  /\ \A n \in Node : \A k \in 0 .. Len(n) : SubSeq(n, 1, k) \in Node
  /\ \A t \in Trees : t \in [Node -> Kind] /\ t[<<>>] \in {"dir", "broken"}
  /\ Requests \subseteq Request
  /\ \A r \in Requests : r.git => \A p \in Range(r.paths) : p.as # "dotted"

VARIABLES
  kind,       (* the file system                                             *)
  request,    (* the arguments of the call                                   *)
  pc,         (* "inspect", "walk", "drain", "judge", "done"                 *)
  pending,    (* roots to inspect, then directories to walk, then candidates *)
  dirs,       (* the directories found among the roots                       *)
  todo,       (* entries listed and not yet handed to a thread               *)
  hand,       (* what each thread is about to report                         *)
  senders,    (* the live ends of the channel's sending side                 *)
  channel,    (* messages sent and not received                              *)
  found,      (* explicit files and what the channel brought                 *)
  errors,     (* `walk_errors`                                               *)
  answer,     (* "none", "files", "walk", "missing", "invalid"               *)
  changes,    (* history: how often the author interfered                    *)
  steady      (* history: the paths nobody touched during the run            *)

world == <<kind, changes, steady>>
pool  == <<todo, hand, senders, channel>>
vars  == <<world, request, pc, pending, dirs, pool, found, errors, answer>>

Idle == [node |-> <<>>, kind |-> "none"]
Main == "main"

(***************************************************************************)
(* The walk's view of the tree.                                            *)
(***************************************************************************)
Entry(n) == [node |-> n, kind |-> kind[n]]

(* `allowed`: the candidates and the directories that lead to them.        *)
Leads(n) == request.git => \E p \in Range(request.paths) : IsPrefix(n, p.node)

Listed(d) == {Entry(n) : n \in {m \in Node \ {<<>>} :
                /\ Front(m) = d /\ kind[m] # "absent"
                /\ m \notin Ignored /\ Leads(m)}}

Wanted(n) == n \in Supported /\ (request.git => \E p \in Range(request.paths) : p.node = n)

Init ==
  /\ kind \in Trees
  /\ \A n \in Node : kind[n] # "absent" =>
       \A k \in 0 .. Len(n) - 1 : kind[SubSeq(n, 1, k)] \in {"dir", "broken"}
  /\ request \in Requests
  /\ pc = "inspect" /\ pending = request.paths /\ dirs = <<>>
  /\ todo = {} /\ hand = [w \in Worker |-> Idle] /\ senders = {} /\ channel = <<>>
  /\ found = {} /\ errors = <<>> /\ answer = "none"
  /\ changes = 0 /\ steady = Node

Done(a) == pc' = "done" /\ answer' = a

(***************************************************************************)
(* The roots, in the order given; or the candidates, none of which may     *)
(* leave the repository.                                                   *)
(***************************************************************************)
InspectRoot ==
  /\ pc = "inspect" /\ ~ request.git /\ pending # <<>>
  /\ LET root == Head(pending)
     IN  \/ /\ kind[root.node] \in {"absent", "dangling"}
            /\ Done("missing")
            /\ UNCHANGED <<pending, dirs, found>>
         \/ /\ kind[root.node] \in {"file", "link"}
            /\ found' = found \cup {root}
            /\ pending' = Tail(pending)
            /\ UNCHANGED <<pc, answer, dirs>>
         \/ /\ kind[root.node] \in {"dir", "broken"}
            /\ dirs' = Append(dirs, root)
            /\ pending' = Tail(pending)
            /\ UNCHANGED <<pc, answer, found>>
  /\ UNCHANGED <<world, request, pool, errors>>

InspectCandidate ==
  /\ pc = "inspect" /\ request.git /\ pending # <<>>
  /\ IF Head(pending).as = "outside"
       THEN Done("invalid") /\ UNCHANGED pending
       ELSE pending' = Tail(pending) /\ UNCHANGED <<pc, answer>>
  /\ UNCHANGED <<world, request, dirs, pool, found, errors>>

Inspected ==
  /\ pc = "inspect" /\ pending = <<>>
  /\ pc' = "drain"
  /\ pending' = IF request.git THEN <<Path("plain", <<>>)>> ELSE dirs
  /\ UNCHANGED <<world, request, dirs, pool, found, errors, answer>>

(***************************************************************************)
(* One parallel walk.  `run` gives each thread a clone of the sender and   *)
(* returns when the last thread is done with the last entry; only then is  *)
(* the original dropped and the channel read.                              *)
(***************************************************************************)
StartWalk ==
  /\ pc = "drain" /\ channel = <<>> /\ senders = {} /\ pending # <<>>
  /\ pc' = "walk"
  /\ todo' = {Entry(Head(pending).node)}
  /\ senders' = Worker \cup {Main}
  /\ UNCHANGED <<world, request, pending, dirs, hand, channel, found, errors, answer>>

Take(w) ==
  /\ pc = "walk" /\ hand[w] = Idle
  /\ \E e \in todo : todo' = todo \ {e} /\ hand' = [hand EXCEPT ![w] = e]
  /\ UNCHANGED <<world, request, pc, pending, dirs, senders, channel, found, errors, answer>>

Send(message) == channel' = Append(channel, message)

(* `WalkState::Continue` after a failure as after anything else. *)
(* Seeded fault: a failure quits the walk. *)
AfterError_Quit == {}
AfterError == todo

(* What a thread does with an entry: a directory is listed, a file is sent *)
(* if it is wanted, a failure is sent as an error, and the walk goes on    *)
(* whatever happened.                                                      *)
Visit(w) ==
  /\ pc = "walk" /\ hand[w] # Idle
  /\ hand' = [hand EXCEPT ![w] = Idle]
  /\ LET e == hand[w]
         as == Head(pending).as
     IN  \/ /\ e.kind = "broken"
            /\ Send([ok |-> FALSE, path |-> Path(as, e.node)])
            /\ todo' = AfterError
         \/ /\ e.kind = "dir"
            /\ todo' = todo \cup Listed(e.node)
            /\ UNCHANGED channel
         \/ /\ e.kind = "file" /\ Wanted(e.node)
            /\ Send([ok |-> TRUE, path |-> Path(as, e.node)])
            /\ UNCHANGED todo
         \/ /\ e.kind \in {"link", "dangling"} \/ (e.kind = "file" /\ ~ Wanted(e.node))
            /\ UNCHANGED <<todo, channel>>
  /\ UNCHANGED <<world, request, pc, pending, dirs, senders, found, errors, answer>>

(* Seeded fault: the original sender outlives the walk. *)
AfterWalk_Kept == {Main}
AfterWalk == {}

Joined ==
  /\ pc = "walk" /\ todo = {} /\ \A w \in Worker : hand[w] = Idle
  /\ pc' = "drain" /\ senders' = AfterWalk /\ pending' = Tail(pending)
  /\ UNCHANGED <<world, request, dirs, todo, hand, channel, found, errors, answer>>

Carried(m) == m.path

Receive ==
  /\ pc = "drain" /\ channel # <<>>
  /\ channel' = Tail(channel)
  /\ IF Head(channel).ok
       THEN found' = found \cup {Carried(Head(channel))} /\ UNCHANGED errors
       ELSE errors' = Append(errors, Carried(Head(channel))) /\ UNCHANGED found
  /\ UNCHANGED <<world, request, pc, pending, dirs, todo, hand, senders, answer>>

(***************************************************************************)
(* The receiver ends when every sender is gone: all directories are        *)
(* walked, or the candidates get their second look.                        *)
(***************************************************************************)
Verdict == IF errors # <<>> THEN "walk" ELSE "files"

Drained ==
  /\ pc = "drain" /\ channel = <<>> /\ senders = {} /\ pending = <<>>
  /\ \/ request.git /\ pc' = "judge" /\ pending' = request.paths /\ UNCHANGED answer
     \/ ~ request.git /\ Done(Verdict) /\ UNCHANGED pending
  /\ UNCHANGED <<world, request, dirs, pool, found, errors>>

(* `is_file` follows links.  The matcher reads the ignore files on the way *)
(* to the candidate, which fails where a directory cannot be read.         *)
(* Seeded fault: links are not followed. *)
IsFile_Itself(n) == kind[n] = "file"
IsFile(n)  == kind[n] \in {"file", "link"}
Hidden(n)  == \E k \in 1 .. Len(n) : SubSeq(n, 1, k) \in Ignored
Blocked(n) == \E k \in 0 .. Len(n) - 1 : kind[SubSeq(n, 1, k)] = "broken"

SecondLook(c) ==
  /\ found' = IF IsFile(c.node) \/ c.node \notin Supported \/ Hidden(c.node)
                THEN found ELSE found \cup {c}
  /\ errors' = IF ~ IsFile(c.node) /\ c.node \in Supported /\ Blocked(c.node)
                 THEN Append(errors, c) ELSE errors

Judge ==
  /\ pc = "judge" /\ pending # <<>>
  /\ SecondLook(Head(pending))
  /\ pending' = Tail(pending)
  /\ UNCHANGED <<world, request, pc, dirs, pool, answer>>

Judged ==
  /\ pc = "judge" /\ pending = <<>>
  /\ Done(Verdict)
  /\ UNCHANGED <<world, request, pending, dirs, pool, found, errors>>

(***************************************************************************)
(* An author creates or deletes a file in a directory that is there.       *)
(***************************************************************************)
Change(n) ==
  /\ pc # "done" /\ changes < MaxChanges /\ changes' = changes + 1
  /\ n \in Volatile /\ kind[Front(n)] = "dir"
  /\ \/ kind[n] = "file" /\ kind' = [kind EXCEPT ![n] = "absent"]
     \/ kind[n] = "absent" /\ kind' = [kind EXCEPT ![n] = "file"]
  /\ steady' = steady \ {n}
  /\ UNCHANGED <<request, pc, pending, dirs, pool, found, errors, answer>>

Step ==
  \/ InspectRoot \/ InspectCandidate \/ Inspected \/ StartWalk \/ Joined
  \/ Receive \/ Drained \/ Judge \/ Judged
  \/ \E w \in Worker : Take(w) \/ Visit(w)

Next == Step \/ \E n \in Node : Change(n)

(* The operating system keeps scheduling the main thread and the walkers.  *)
Spec == Init /\ [][Next]_vars /\ WF_vars(Step)

(***************************************************************************)
(* Properties.                                                             *)
(***************************************************************************)
TypeOK ==
  /\ kind \in [Node -> Kind] /\ steady \subseteq Node /\ changes \in 0 .. MaxChanges
  /\ request \in Requests /\ pc \in {"inspect", "walk", "drain", "judge", "done"}
  /\ Range(pending) \cup Range(dirs) \subseteq [as : Spelling, node : Node]
  /\ todo \subseteq [node : Node, kind : Kind]
  /\ hand \in [Worker -> {Idle} \cup [node : Node, kind : Kind]]
  /\ senders \subseteq Worker \cup {Main}
  /\ Range(channel) \subseteq [ok : BOOLEAN, path : [as : Spelling, node : Node]]
  /\ found \cup Range(errors) \subseteq [as : Spelling, node : Node]
  /\ answer \in {"none", "files", "walk", "missing", "invalid"}

(* n can be reached from directory d: every directory on the way is        *)
(* readable, and no rule leaves out n or a directory between.              *)
Reaches(d, n) ==
  /\ IsPrefix(d, n)
  /\ \A k \in Len(d) .. Len(n) - 1 : kind[SubSeq(n, 1, k)] = "dir"
  /\ \A k \in Len(d) + 1 .. Len(n) : SubSeq(n, 1, k) \notin Ignored

Roots == {i \in DOMAIN request.paths : kind[request.paths[i].node] \in {"dir", "broken"}}

(* However the threads share the entries and in whatever order their       *)
(* messages arrive, a run over paths is about the files named, whatever    *)
(* they are called, and the supported files below the directories named    *)
(* that no rule ignores, each under the spelling of its root, and about    *)
(* nothing else, as far as nobody creates or deletes them meanwhile.       *)
PathsComplete ==
  pc = "done" /\ ~ request.git /\ answer = "files" =>
    \A as \in Spelling : \A n \in steady :
      Path(as, n) \in found <=>
        \E r \in Range(request.paths) :
          /\ r.as = as
          /\ \/ r.node = n /\ kind[n] \in {"file", "link"}
             \/ kind[r.node] = "dir" /\ Reaches(r.node, n) /\ kind[n] = "file" /\ n \in Supported

(* No failure of the walk is lost: it goes on after a failure, every       *)
(* directory that cannot be read is reported once for each root it is      *)
(* reached from, and one failure anywhere refuses the whole selection.     *)
ErrorsComplete ==
  pc = "done" /\ ~ request.git /\ answer \in {"files", "walk"} =>
    /\ answer = "walk" <=> errors # <<>>
    /\ \A p \in [as : Spelling, node : Node] :
         Cardinality({i \in DOMAIN errors : errors[i] = p}) =
         Cardinality({i \in Roots : /\ request.paths[i].as = p.as /\ kind[p.node] = "broken"
                                     /\ Reaches(request.paths[i].node, p.node)})

(* The selection of a run over paths: every variable has its type, nothing *)
(* is missing or too much among its files, nor among its errors.           *)
SelectionComplete == TypeOK /\ PathsComplete /\ ErrorsComplete

(* A candidate Git selected counts if no rule leaves it out and its        *)
(* language is enabled, and it is a regular file or nothing a link leads   *)
(* to: the walk, which sees what is there, and the second look, which      *)
(* asks the matcher about what is not, judge alike.  A candidate that      *)
(* comes or goes between the two looks is excepted.                        *)
CandidatesJudged ==
  pc = "done" /\ request.git /\ answer = "files" =>
    \A c \in Range(request.paths) : c.node \in steady =>
      (c \in found <=>
         c.node \in Supported /\ kind[c.node] # "link"
         /\ \A k \in 1 .. Len(c.node) : SubSeq(c.node, 1, k) \notin Ignored)

(* A selection ends: the receiver is not left waiting for a sender that    *)
(* nobody drops.                                                           *)
SelectionEnds == <>(pc = "done")
=============================================================================
