--------------------------- MODULE PrivilegeScopes ---------------------------
(***************************************************************************)
(* Nested handlers, each with a privileges_guard of its own.               *)
(*                                                                         *)
(* Handlers of the program call execute(), which runs the event loop and   *)
(* so may start other handlers before it returns; all of it happens on one *)
(* thread and handlers return in the reverse order of their start.  A      *)
(* handler may drop root's privileges with its guard, and the guard's      *)
(* destructor restores them when the handler returns, whatever handlers    *)
(* ran in between.                                                         *)
(***************************************************************************)
EXTENDS Naturals, Sequences, SequencesExt, Credentials

CONSTANT MaxDepth   \* bound on the number of nested handlers

ASSUME MaxDepthAssumption == MaxDepth \in Nat

VARIABLES usr,     \* usr_info.uid: for whom the program acts
          home,    \* the credentials main() leaves the process with
          cred,    \* the credentials of the process
          scopes   \* the handlers on the stack, the innermost last

vars == <<usr, home, cred, scopes>>

\* A handler's guard, whether its drop() failed, and (a history variable) the
\* credentials it was entered with.
Scopes == [guard : Guards, failed : BOOLEAN, entry : Creds]

TypeOK == /\ usr \in Ids
          /\ home \in Creds
          /\ cred \in Creds
          /\ scopes \in Seq(Scopes)

Top == scopes[Len(scopes)]

\* Started by root for the user (sudo, pkexec), by root for itself, by the user.
Init == /\ \E start \in Ids :
             /\ home = AllOf(start)
             /\ usr \in (IF start = Root THEN Ids ELSE {User})
        /\ cred = home
        /\ scopes = <<>>

\* A handler starts and constructs its guard.
Enter == /\ Len(scopes) < MaxDepth
         /\ scopes' = Append(scopes, [guard |-> Unarmed, failed |-> FALSE, entry |-> cred])
         /\ UNCHANGED <<usr, home, cred>>

\* The innermost handler calls drop_if_feasible() on its guard; after a failure
\* it does not call it again (every caller returns).
Drop == /\ scopes # <<>>
        /\ ~Top.failed
        /\ \E o \in DropIfFeasible(cred, usr, Top.guard) :
             /\ cred' = o.cred
             /\ scopes' = [scopes EXCEPT ![Len(scopes)] =
                             [@ EXCEPT !.guard = o.guard, !.failed = ~o.ok]]
        /\ UNCHANGED <<usr, home>>

\* Used to test the properties: a guard without a destructor.
LeaveUnrestored == /\ scopes # <<>>
                   /\ scopes' = Front(scopes)
                   /\ UNCHANGED <<usr, home, cred>>

\* The innermost handler returns and its guard's destructor runs.
Leave == /\ scopes # <<>>
         /\ cred' = Restore(cred, Top.guard)
         /\ scopes' = Front(scopes)
         /\ UNCHANGED <<usr, home>>

Next == Enter \/ Drop \/ Leave

Spec == Init /\ [][Next]_vars
-----------------------------------------------------------------------------
(* Properties.                                                             *)

\* A handler that returns leaves the process with exactly the credentials it
\* had when the handler started (restore() undoes drop(), also a drop() that
\* failed half way, also when handlers nested in it dropped and restored).
LeaveRestores ==
  [][Len(scopes') < Len(scopes) => cred' = Top.entry]_vars

\* With no handler active the process has the credentials it started with.
IdleIsHome == scopes = <<>> => cred = home

\* As long as no drop() has failed, the process runs all as it was started or
\* all as the user, never as a mixture of the two.
AllOrNothing ==
  (\A i \in DOMAIN scopes : ~scopes[i].failed) => cred \in {home, ActingFor(usr, home)}

\* The process runs under the user's id exactly while a handler on the stack
\* holds a guard that changed it, and no two guards hold that change.
UserIffArmed ==
  /\ cred.euid # home.euid <=> \E i \in DOMAIN scopes : scopes[i].guard.uid # NoId
  /\ \A i, j \in DOMAIN scopes :
       scopes[i].guard.uid # NoId /\ scopes[j].guard.uid # NoId => i = j

\* The credentials seen by the event loop and by each handler: what a handler
\* was entered with is what the one below it runs with.
Levels(ss, c) == [i \in 1 .. Len(ss) + 1 |-> IF i <= Len(ss) THEN ss[i].entry ELSE c]

Seen == Levels(scopes, cred)

\* The guards implement lexically scoped identities.
Lexical == INSTANCE LexicalScopes WITH Views <- Creds, views <- Seen

LexicallyScoped == Lexical!Spec
=============================================================================
