--------------------------- MODULE MCAccountScreens ---------------------------
(***************************************************************************)
(* AccountScreens for one admin, one guest and two invites.  The profile's *)
(* form is evaluated for all courses of a few events.                      *)
(***************************************************************************)
EXTENDS AccountScreens

P == INSTANCE ProfileForm

Fields == {[current |-> "old", next |-> "new", confirm |-> c] : c \in {"new", "odd"}}
Events == {[what |-> "save"], [what |-> "section", to |-> "password"], [what |-> "timer"]}
          \cup {[what |-> "type", fields |-> f] : f \in Fields}
          \cup {[what |-> "answer", of |-> k, ok |-> ok] : k \in {1, 2}, ok \in BOOLEAN}
Courses == P!BoundedSeq(Events, 5)

\* Whatever the order of answers and timers, the form says that it saves only while a
\* request is under way, that it saved or that passwords differ only until a timer
\* runs out, and so nothing when all is quiet.
ASSUME FormSettles ==
    \A events \in Courses :
        LET now == P!Profile(events) IN
        /\ now.savedState = "saving" => now.requests # <<>>
        /\ now.savedState \in {"saved", "mismatch"} => now.timers > 0
        /\ P!ButtonSays(now) \in {"Saving", "Saved"} /\ now.requests = <<>> => now.timers > 0
        /\ P!SaysMismatch(now) => P!ButtonSays(now) = "Update Password"

\* No two passwords that differ are ever sent, and what was typed is taken away only
\* by the good answer of a password's request.
ASSUME PasswordsAgree ==
    \A events \in Courses :
        LET before == P!Profile(P!Front(events))
            after == P!Profile(events)
            e == P!Last(events)
        IN events # <<>> =>
           /\ \A k \in DOMAIN after.requests :
                 LET r == after.requests[k] IN
                 r.kind = "password" => r.fields.next = r.fields.confirm /\ r.fields.next # P!Empty
           /\ after.pwFields # before.pwFields /\ e.what # "type" =>
                 /\ after.pwFields = P!NoFields
                 /\ e.what = "answer" /\ e.ok /\ before.requests[e.of].kind = "password"

\* Rows of either shape of answer have a role and something for the number.
ASSUME WorkspacesAreTold ==
    \A id, role, new, old \in {"x", P!NoId} :
        LET row == P!WorkspaceRow([workspace_id |-> id, id |-> "x", role |-> role,
                                   member_count |-> new, memberCount |-> old])
        IN row.id = "x" /\ row.role # P!NoId /\ row.memberCount = IF new = old /\ new = P!NoId THEN "-" ELSE "x"
=============================================================================
