------------------------------ MODULE FleetClone ------------------------------
(* The fleet clone as the commands see it through adapters/git/client.go: the    *)
(* paths that differ from HEAD, HEAD's history and the remote branch.  A history *)
(* is its sequence of commits, so it also stands for the hash that names it.     *)
(* Pure operators; the modules that use the clone keep it in a variable.         *)
LOCAL INSTANCE Naturals
LOCAL INSTANCE Sequences
LOCAL INSTANCE SequencesExt

\* Paths with uncommitted changes (Diff; untracked files count).
Dirty(c) == c.tree

\* What HEAD or the working tree holds, and what the remote branch holds.
InHistory(h) == UNION {h[i].holds : i \in DOMAIN h}
Contents(c) == c.tree \cup InHistory(c.head)
Published(c) == InHistory(c.remote)

\* commitLocal stages everything; go-git refuses an empty commit.
CanCommit(c) == c.tree # {}
Committed(c, by, run) ==
  [c EXCEPT !.tree = {}, !.head = Append(@, [by |-> by, run |-> run, holds |-> c.tree])]

\* A push that is not a fast-forward is refused.
CanPush(c) == IsPrefix(c.remote, c.head)
Pushed(c) == [c EXCEPT !.remote = c.head]

\* ResetHard refuses a target that is not an ancestor of HEAD.
CanReset(c, pre) == IsPrefix(pre, c.head)
Reset(c, pre) == [c EXCEPT !.tree = {}, !.head = pre]

===============================================================================
