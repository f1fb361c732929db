------------------------------ MODULE ProfileForm ------------------------------
(***************************************************************************)
(* The profile of a user: two forms that share one indication of what      *)
(* becomes of a save, answers that may overtake each other, and timers     *)
(* that take the indication back (ProfileScreen of                         *)
(* redesign/MoreScreens.jsx).                                              *)
(*                                                                         *)
(* The form is a function of what happened since the screen was opened.    *)
(***************************************************************************)
EXTENDS Integers, SequencesExt

Empty == "empty"
NoFields == [current |-> Empty, next |-> Empty, confirm |-> Empty]

\* savedState is "idle" for null.  Requests are those under way, the oldest first, with
\* what updateProfile was given; timers counts those that will set it to null.
Opened == [savedState |-> "idle", pwFields |-> NoFields, section |-> "info",
           requests |-> <<>>, timers |-> 0]

\* save: everything but the passwords, which the other form sends
Save(form) == [form EXCEPT !.savedState = "saving", !.requests = Append(@, [kind |-> "info"])]

SavePassword(form) ==
    LET pw == form.pwFields IN
    CASE pw.current = Empty \/ pw.next = Empty -> form
      [] pw.current # Empty /\ pw.next # Empty /\ pw.next # pw.confirm ->
             [form EXCEPT !.savedState = "mismatch", !.timers = @ + 1]
      [] OTHER -> [form EXCEPT !.savedState = "saving",
                               !.requests = Append(@, [kind |-> "password", fields |-> pw])]

\* The answer of the k-th request under way
Answer(form, k, ok) ==
    LET r == form.requests[k]
        heard == [form EXCEPT !.requests = RemoveAt(@, k)]
    IN IF ok THEN [heard EXCEPT !.savedState = "saved", !.timers = @ + 1,
                                !.pwFields = IF r.kind = "password" THEN NoFields ELSE @]
       ELSE [heard EXCEPT !.savedState = "idle"]

Timer(form) == [form EXCEPT !.savedState = "idle", !.timers = @ - 1]

\* What happens: buttons, keys, answers and timers.  What cannot happen changes nothing.
Happens(form, event) ==
    CASE event.what = "save" /\ form.section = "info" -> Save(form)
      [] event.what = "save" /\ form.section = "password" -> SavePassword(form)
      [] event.what = "section" -> [form EXCEPT !.section = event.to]
      [] event.what = "type" /\ form.section = "password" -> [form EXCEPT !.pwFields = event.fields]
      [] event.what = "answer" /\ event.of \in DOMAIN form.requests -> Answer(form, event.of, event.ok)
      [] event.what = "timer" /\ form.timers > 0 -> Timer(form)
      [] OTHER -> form
Profile(events) ==
    LET form[k \in 0..Len(events)] ==
            IF k = 0 THEN Opened ELSE Happens(form[k - 1], events[k])
    IN form[Len(events)]

\* SaveButton, and the line above it
ButtonSays(form) ==
    CASE form.savedState = "saving" -> "Saving" [] form.savedState = "saved" -> "Saved"
      [] OTHER -> IF form.section = "info" THEN "Save Changes" ELSE "Update Password"
SaysMismatch(form) == form.section = "password" /\ form.savedState = "mismatch"

\* The rows of the user's workspaces, of answers old and new: an absent role is a
\* member's, an absent number of members is not known.
NoId == "none"
WorkspaceRow(raw) ==
    [id |-> IF raw.workspace_id # NoId THEN raw.workspace_id ELSE raw.id,
     role |-> IF raw.role # NoId THEN raw.role ELSE "member",
     memberCount |-> IF raw.member_count # NoId THEN raw.member_count
                     ELSE IF raw.memberCount # NoId THEN raw.memberCount ELSE "-"]
=============================================================================
