---------------------------- MODULE LexicalScopes ----------------------------
(***************************************************************************)
(* What privileges_guard promises the handlers that use it: the identity   *)
(* of the process is lexically scoped.  A handler may change the identity  *)
(* it runs under, handlers it starts inherit or change it for themselves,  *)
(* and whoever resumes finds exactly the identity he had when the handler  *)
(* above him started.                                                      *)
(***************************************************************************)
EXTENDS Naturals, Sequences, SequencesExt

CONSTANT Views   \* the identities a process can have

VARIABLE views   \* one identity per active handler, the innermost last;
                 \* the first is the identity of the idle event loop

Init == \E v \in Views : views = <<v>>

\* A handler starts, under an identity it may have changed at once.
Enter == /\ Len(views') = Len(views) + 1
         /\ \E v \in Views : views' = Append(views, v)

\* The innermost handler changes the identity it runs under.
Change == /\ Len(views) > 1
          /\ views' # views
          /\ \E v \in Views : views' = [views EXCEPT ![Len(views)] = v]

\* The innermost handler returns.
Leave == /\ Len(views) > 1
         /\ views' = Front(views)

Next == Enter \/ Change \/ Leave

Spec == Init /\ [][Next]_views
=============================================================================
