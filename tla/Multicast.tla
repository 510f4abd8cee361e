----------------------------- MODULE Multicast -----------------------------
(***************************************************************************)
(* What sending a message between processes promises: each process that    *)
(* the message addresses performs it once, in the order in which its       *)
(* author posted messages of that kind, and no other process does.         *)
(***************************************************************************)
EXTENDS Integers, Sequences, SequencesExt

CONSTANTS
    Procs,          \* the processes
    Kinds,          \* kinds of messages
    Addressed(_, _, _)  \* whom a message of an author, a kind, and with its
                        \* author excluded or not, is for

VARIABLES
    posts,      \* the messages, in the order in which they were posted
    done,       \* the messages each process performed, in that order
    alive       \* the processes that did not crash

vars == <<posts, done, alive>>

To(i) == Addressed(posts[i].author, posts[i].kind, posts[i].excluded)

Init == posts = <<>> /\ done = [p \in Procs |-> <<>>] /\ alive = Procs

Post(message) ==
    /\ posts' = Append(posts, message)
    /\ UNCHANGED <<done, alive>>

SameStream(i, j) == /\ posts[i].author = posts[j].author
                    /\ posts[i].kind = posts[j].kind

Perform(p, i) ==
    /\ done' = [done EXCEPT ![p] = Append(@, i)]
    /\ p \in alive /\ i \in DOMAIN posts /\ p \in To(i)
    /\ \A j \in ToSet(done[p]) : SameStream(i, j) => j < i
    /\ UNCHANGED <<posts, alive>>

Crash(p) == p \in alive /\ alive' = alive \ {p} /\ UNCHANGED <<posts, done>>

Next ==
    \/ \E message \in [author : alive, kind : Kinds,
                        excluded : BOOLEAN, ask : BOOLEAN] : Post(message)
    \/ \E p \in Procs, i \in DOMAIN posts : Perform(p, i)
    \/ \E p \in Procs : Crash(p)

Spec == Init /\ [][Next]_vars
=============================================================================
