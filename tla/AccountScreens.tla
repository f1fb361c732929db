---------------------------- MODULE AccountScreens ----------------------------
(***************************************************************************)
(* The organisation on two screens: the console in which an admin keeps    *)
(* users, workspaces, invites and the knowledge base                       *)
(* (redesign/AdminScreen.jsx), and the screen on which a guest looks an    *)
(* invite up and registers with it (redesign/AuthScreen.jsx), over the     *)
(* handlers of routes/admin.py and routes/auth.py.  Colleagues change the  *)
(* organisation meanwhile.                                                 *)
(*                                                                         *)
(* Every invite is for the guest's address.  The role of a member is left  *)
(* out: changing it is a request that changes no membership.               *)
(***************************************************************************)
EXTENDS Naturals, FiniteSets

CONSTANTS
    MaxActs, \* bound: what the admin, the guest and the colleagues do
    MaxLoads \* bound: loads of members under way at once

ASSUME AccountAssumption == MaxActs \in Nat /\ MaxLoads \in Nat

User == {"admin", "member", "guest"}
Space == {"legal", "hr", "new"}
Invite == {1, 2}
Tab == {"users", "workspaces", "invites", "rag"}
Kind == {"create", "role", "remove", "add", "dismiss", "invite", "revoke", "upload", "delete"}

VARIABLES
    accounts,  \* server: the addresses that have an account
    org,       \* server: the users of the organisation
    spaces,    \* server: its workspaces
    members,   \* server: the members of each of them
    invites,   \* server: the state of every invite
    library,   \* server: is there a document in the knowledge base?
    tab, selected, form, \* console: tab, selectedWs, wsCreateOpen
    lists,     \* console: users, workspaces and invites, as it shows them
    shelf,     \* console: ragDocs
    loads,     \* console: is loadAdmin, loadRag under way?
    rows,      \* console: wsMembers, and whose they are
    loading,   \* console: wsMembersLoading
    rowLoads,  \* console: loadWorkspaceMembers under way
    crossed,   \* history: did a load of other members overlap with these?
    op,        \* console: the write under way
    link,      \* console: inviteLink
    mode, token, preview, \* guest: mode, inviteToken, invitePreview
    waiting,   \* guest: loading
    lookups,   \* guest: the lookups under way
    signUp,    \* guest: the submission under way
    acts

server == <<accounts, org, spaces, members, invites, library>>
frame == <<tab, selected, form>>
admin == <<lists, shelf, loads>>
table == <<rows, loading, rowLoads, crossed>>
guest == <<mode, token, preview, waiting, lookups, signUp>>
accountVars == <<server, frame, admin, table, op, link, guest, acts>>

NoOp == [kind |-> "none", space |-> "none", user |-> "none", invite |-> 0, at |-> "no"]
NoSignUp == [kind |-> "none", invite |-> 0, at |-> "no"]
NoRows == [of |-> "none", users |-> {}]
Asked(what) == [at |-> "sent", of |-> what]

\* The console has loaded its lists and shows any of its tabs; the guest has an
\* invite, and may have an account elsewhere.
AccountInit ==
    /\ accounts \in {{"admin", "member"}, User}
    /\ org = {"admin", "member"} /\ spaces = {"legal", "hr"}
    /\ members = [s \in Space |-> CASE s = "legal" -> {"admin", "member"}
                                    [] s = "hr" -> {"admin"} [] OTHER -> {}]
    /\ invites = [i \in Invite |-> IF i = 1 THEN "open" ELSE "none"] /\ library = FALSE
    /\ tab \in Tab /\ form = FALSE
    /\ selected \in IF tab = "workspaces" THEN {"none", "legal"} ELSE {"none"}
    /\ lists = [users |-> org, spaces |-> spaces, invites |-> {1}]
    /\ shelf = FALSE /\ loads = {}
    /\ rows = IF selected = "none" THEN NoRows ELSE [of |-> selected, users |-> members[selected]]
    /\ loading = FALSE /\ rowLoads = {}
    /\ crossed = FALSE
    /\ op = NoOp /\ link = 0
    /\ mode = "login" /\ token = 0 /\ preview = 0 /\ waiting = FALSE
    /\ lookups = {} /\ signUp = NoSignUp
    /\ acts = 0

Acts == acts < MaxActs /\ acts' = acts + 1

-----------------------------------------------------------------------------
\* The handlers.  What is not allowed is refused and changes nothing;
\* any request or answer may be lost.
CreateSpace(s) ==
    /\ s \notin spaces
    /\ spaces' = spaces \cup {s} /\ members' = [members EXCEPT ![s] = {"admin"}]
    /\ UNCHANGED <<accounts, org, invites, library>>

AddMember(s, u) ==
    /\ s \in spaces /\ u \in org /\ u \notin members[s]
    /\ members' = [members EXCEPT ![s] = @ \cup {u}]
    /\ UNCHANGED <<accounts, org, spaces, invites, library>>

RemoveMember(s, u) ==
    /\ s \in spaces /\ u \in members[s]
    /\ members' = [members EXCEPT ![s] = @ \ {u}]
    /\ UNCHANGED <<accounts, org, spaces, invites, library>>

ChangeRole(s, u) == s \in spaces /\ u \in members[s] \cap org /\ UNCHANGED server

\* A user who leaves the organisation keeps the memberships, and the account.
RemoveUser(u) ==
    /\ u \in org \ {"admin"}
    /\ org' = org \ {u}
    /\ UNCHANGED <<accounts, spaces, members, invites, library>>

\* The 409 of an address that is in the organisation takes its "added to the
\* workspace" back: _get_db rolls back what a raising handler wrote.
CreateInvite(i) ==
    /\ invites[i] = "none" /\ \A j \in Invite : j < i => invites[j] # "none"
    /\ "guest" \notin org
    /\ invites' = [invites EXCEPT ![i] = "open"]
    /\ UNCHANGED <<accounts, org, spaces, members, library>>

RevokeInvite(i) ==
    /\ invites[i] # "none"
    /\ invites' = [invites EXCEPT ![i] = "used"]
    /\ UNCHANGED <<accounts, org, spaces, members, library>>

\* register_from_invite: an account that exists joins the workspace, and only that.
Register(i) ==
    /\ invites[i] = "open"
    /\ invites' = [invites EXCEPT ![i] = "used"]
    /\ accounts' = accounts \cup {"guest"}
    /\ org' = IF "guest" \in accounts THEN org ELSE org \cup {"guest"}
    /\ members' = [members EXCEPT !["legal"] = @ \cup {"guest"}]
    /\ UNCHANGED <<spaces, library>>

\* upload and deletion of a document, of which RagIngestion tells the rest
SetLibrary(there) == library' = there /\ UNCHANGED <<accounts, org, spaces, members, invites>>

Perform(o) ==
    CASE o.kind = "create"  -> CreateSpace(o.space)
      [] o.kind = "role"    -> ChangeRole(o.space, o.user)
      [] o.kind = "remove"  -> RemoveMember(o.space, o.user)
      [] o.kind = "add"     -> AddMember(o.space, o.user)
      [] o.kind = "dismiss" -> RemoveUser(o.user)
      [] o.kind = "invite"  -> CreateInvite(o.invite)
      [] o.kind = "revoke"  -> RevokeInvite(o.invite)
      [] o.kind = "upload"  -> SetLibrary(TRUE)
      [] o.kind = "delete"  -> SetLibrary(FALSE)

Colleague ==
    /\ Acts
    /\ \E s \in Space, u \in User, i \in Invite : \/ CreateSpace(s) \/ AddMember(s, u)
                                                  \/ RemoveMember(s, u) \/ RemoveUser(u)
                                                  \/ CreateInvite(i) \/ RevokeInvite(i)
    /\ UNCHANGED <<frame, admin, table, op, link, guest>>

-----------------------------------------------------------------------------
\* loadAdmin answers three lists, or none, and loadRag the documents, or none.  An
\* answer is as late as what it says.
LoadAdmin == loads' = loads \cup {"lists"}
LoadRag == loads' = loads \cup {"shelf"}

ListsAnswered ==
    /\ "lists" \in loads /\ loads' = loads \ {"lists"}
    /\ \/ lists' = [users |-> org, spaces |-> spaces,
                    invites |-> {i \in Invite : invites[i] = "open"}]
       \/ UNCHANGED lists
    /\ UNCHANGED <<server, frame, shelf, table, op, link, guest, acts>>

ShelfAnswered ==
    /\ "shelf" \in loads /\ loads' = loads \ {"shelf"}
    /\ shelf' \in {library, FALSE}
    /\ UNCHANGED <<server, frame, lists, table, op, link, guest, acts>>

\* loadWorkspaceMembers(s), for the workspace that was selected when the handler
\* was made.
LoadMembers(s, sel) ==
    /\ Cardinality(rowLoads) < MaxLoads
    /\ rowLoads' = rowLoads \cup {[at |-> "sent", of |-> s, users |-> {}]}
    /\ loading' = TRUE
    /\ crossed' = \/ s # sel
                  \/ \E l \in rowLoads : l.of # s
                  \/ crossed /\ rowLoads # {}
    /\ UNCHANGED rows

ServeRows ==
    /\ \E l \in rowLoads : /\ l.at = "sent"
                           /\ rowLoads' = (rowLoads \ {l})
                                 \cup {[at |-> "read", of |-> l.of, users |-> members[l.of]]}
    /\ UNCHANGED <<server, frame, admin, rows, loading, crossed, op, link, guest, acts>>

\* Whichever load ends sets the members, or clears them, and ends the waiting.
RowsAnswered ==
    /\ \E l \in rowLoads : /\ rowLoads' = rowLoads \ {l}
                           /\ \/ l.at = "read" /\ rows' = [of |-> l.of, users |-> l.users]
                              \/ rows' = [of |-> l.of, users |-> {}]
    /\ loading' = FALSE
    /\ UNCHANGED <<server, frame, admin, crossed, op, link, guest, acts>>

-----------------------------------------------------------------------------
\* A tab closes the workspace and the form; the knowledge base loads its documents.
OpenTab(t) ==
    /\ tab # t
    /\ Acts
    /\ tab' = t /\ selected' = "none" /\ form' = FALSE
    /\ IF t = "rag" THEN LoadRag ELSE UNCHANGED loads
    /\ UNCHANGED <<server, lists, shelf, table, op, link, guest>>

\* Mutant: a workspace that was opened before is not loaded again.
OpenCached(s) ==
    /\ tab = "workspaces" /\ selected = "none" /\ ~form /\ s \in lists.spaces
    /\ Acts
    /\ selected' = s
    /\ IF rows.of = "none" THEN LoadMembers(s, s) ELSE UNCHANGED table
    /\ UNCHANGED <<server, tab, form, admin, op, link, guest>>

OpenWorkspace(s) ==
    /\ tab = "workspaces" /\ selected = "none" /\ ~form /\ s \in lists.spaces
    /\ Acts
    /\ selected' = s
    /\ LoadMembers(s, s)
    /\ UNCHANGED <<server, tab, form, admin, op, link, guest>>

\* Back, and the form for a workspace, opened and cancelled.
CloseWorkspace ==
    /\ tab = "workspaces"
    /\ Acts
    /\ \/ selected # "none" /\ selected' = "none" /\ UNCHANGED form
       \/ selected = "none" /\ form' = ~form /\ UNCHANGED selected
    /\ UNCHANGED <<server, tab, admin, table, op, link, guest>>

\* What the screen offers: members are changed in the rows it shows, and added
\* from the users who have none.
Offered(kind, s, u, i) ==
    CASE kind = "create"  -> tab = "workspaces" /\ form /\ s = "new"
      [] kind \in {"role", "remove"} -> selected = s /\ s # "none" /\ ~loading /\ u \in rows.users
      [] kind = "add"     -> selected = s /\ s # "none" /\ u \in lists.users \ rows.users
      [] kind = "dismiss" -> tab = "users" /\ u \in lists.users \ {"admin"}
      [] kind = "invite"  -> tab = "invites"
      [] kind = "revoke"  -> tab = "invites" /\ i \in lists.invites
      [] kind = "upload"  -> tab = "rag"
      [] kind = "delete"  -> tab = "rag" /\ shelf

Write(kind) ==
    /\ op = NoOp
    /\ Acts
    /\ \E s \in Space, u \in User, i \in Invite :
         /\ Offered(kind, s, u, i)
         /\ op' = [kind |-> kind, space |-> s, user |-> u, invite |-> i, at |-> "sent"]
    /\ UNCHANGED <<server, frame, admin, table, link, guest>>

\* A write that is refused, or lost, or whose answer is lost, fails.
ServeWrite ==
    /\ op.at = "sent"
    /\ \/ /\ Perform(op)
          /\ op' = [op EXCEPT !.at = IF op.kind = "invite" THEN "link" ELSE "ok"]
       \/ op' = [op EXCEPT !.at = "failed"] /\ (Perform(op) \/ UNCHANGED server)
    /\ UNCHANGED <<frame, admin, table, link, guest, acts>>

\* Mutant: the form stays open behind the workspace.
CreatedBehind ==
    /\ op.kind = "create" /\ op.at = "ok" /\ op' = NoOp
    /\ lists' = [lists EXCEPT !.spaces = @ \cup {op.space}] /\ LoadAdmin
    /\ selected' = op.space /\ LoadMembers(op.space, op.space)
    /\ UNCHANGED <<server, tab, form, shelf, link, guest, acts>>

\* createWorkspace opens what it created, wherever the admin is by now.
Created ==
    /\ op.kind = "create" /\ op.at = "ok" /\ op' = NoOp
    /\ lists' = [lists EXCEPT !.spaces = @ \cup {op.space}] /\ LoadAdmin
    /\ selected' = op.space /\ form' = FALSE /\ LoadMembers(op.space, op.space)
    /\ UNCHANGED <<server, tab, shelf, link, guest, acts>>

\* changeWorkspaceMemberRole, removeWorkspaceMember, addWorkspaceMember
MembersChanged ==
    /\ op.kind \in {"role", "remove", "add"} /\ op.at = "ok" /\ op' = NoOp
    /\ LoadMembers(op.space, selected) /\ LoadAdmin
    /\ UNCHANGED <<server, frame, lists, shelf, link, guest, acts>>

\* A failure that changes what is shown as little as nothing.
WriteFailed ==
    /\ op.kind \in {"create", "role", "remove", "add", "invite"} /\ op.at = "failed"
    /\ op' = NoOp
    /\ UNCHANGED <<server, frame, admin, table, link, guest, acts>>

\* Removing a user reloads whatever the answer; revoking drops the row.
UserRemoved ==
    /\ op.kind = "dismiss" /\ op.at \in {"ok", "failed"} /\ op' = NoOp
    /\ LoadAdmin
    /\ UNCHANGED <<server, frame, lists, shelf, table, link, guest, acts>>

InviteRevoked ==
    /\ op.kind = "revoke" /\ op.at \in {"ok", "failed"} /\ op' = NoOp
    /\ lists' = [lists EXCEPT !.invites = @ \ {op.invite}]
    /\ UNCHANGED <<server, frame, shelf, loads, table, link, guest, acts>>

\* sendInvite asks for the link of the invite it created; if that fails the invite
\* exists and is not shown.
LinkAnswered ==
    /\ op.at = "link" /\ op' = NoOp
    /\ \/ link' = op.invite /\ LoadAdmin /\ UNCHANGED <<lists, shelf>>
       \/ UNCHANGED <<link, admin>>
    /\ UNCHANGED <<server, frame, table, guest, acts>>

ShelfChanged ==
    /\ op.kind \in {"upload", "delete"} /\ op.at \in {"ok", "failed"} /\ op' = NoOp
    /\ IF op.kind = "delete" \/ op.at = "ok" THEN LoadRag ELSE UNCHANGED loads
    /\ UNCHANGED <<server, frame, lists, shelf, table, link, guest, acts>>

-----------------------------------------------------------------------------
\* switchMode forgets what was typed, never the lookups under way.
SwitchMode(m) ==
    /\ Acts
    /\ mode' = m /\ token' = 0 /\ preview' = 0
    /\ UNCHANGED <<server, frame, admin, table, op, link, waiting, lookups, signUp>>

\* The token is typed in the form that an invite's preview replaces.
TypeToken(i) ==
    /\ mode = "invite" /\ preview = 0 /\ token # i
    /\ Acts
    /\ token' = i
    /\ UNCHANGED <<server, frame, admin, table, op, link, mode, preview, waiting,
                   lookups, signUp>>

\* lookupInvite
LookUp ==
    /\ mode = "invite" /\ preview = 0 /\ token # 0 /\ ~waiting
    /\ lookups' = lookups \cup {Asked(token)} /\ waiting' = TRUE
    /\ UNCHANGED <<server, frame, admin, table, op, link, mode, token, preview,
                   signUp, acts>>

\* The link of an invite opens the screen with a lookup of its own.
FollowLink ==
    /\ mode = "login" /\ lookups = {} /\ signUp = NoSignUp
    /\ Acts
    /\ \E i \in Invite : token' = i /\ lookups' = {Asked(i)}
    /\ mode' = "invite" /\ preview' = 0 /\ waiting' = TRUE
    /\ UNCHANGED <<server, frame, admin, table, op, link, signUp>>

ServeLookup ==
    /\ \E l \in lookups :
         /\ l.at = "sent"
         /\ lookups' = (lookups \ {l})
               \cup {[l EXCEPT !.at = IF invites[l.of] = "open" THEN "found" ELSE "failed"]}
    /\ UNCHANGED <<server, frame, admin, table, op, link, mode, token, preview,
                   waiting, signUp, acts>>

\* Mutant: the token is left as it was typed.
LeaveToken ==
    /\ \E l \in lookups : /\ l.at \in {"found", "failed"}
                          /\ lookups' = lookups \ {l}
                          /\ preview' = IF l.at = "found" THEN l.of ELSE preview
    /\ waiting' = FALSE
    /\ UNCHANGED <<server, frame, admin, table, op, link, mode, token, signUp, acts>>

\* The answer sets the token and the preview, whatever the screen shows by then.
LookupAnswered ==
    /\ \E l \in lookups : /\ l.at \in {"found", "failed"}
                          /\ lookups' = lookups \ {l}
                          /\ IF l.at = "found" THEN token' = l.of /\ preview' = l.of
                             ELSE UNCHANGED <<token, preview>>
    /\ waiting' = FALSE
    /\ UNCHANGED <<server, frame, admin, table, op, link, mode, signUp, acts>>

\* submit: the form registers with the token, or signs in, or founds an organisation
\* of the guest's own.
Submit ==
    /\ mode = "invite" => preview # 0
    /\ ~waiting /\ signUp = NoSignUp
    /\ signUp' = [kind |-> mode, invite |-> token, at |-> "sent"]
    /\ waiting' = TRUE
    /\ UNCHANGED <<server, frame, admin, table, op, link, mode, token, preview,
                   lookups, acts>>

\* register_from_invite, login and create_org, when they accept.
SignUpAccepted ==
    \/ signUp.kind = "invite" /\ Register(signUp.invite)
    \/ signUp.kind = "login" /\ "guest" \in accounts /\ UNCHANGED server
    \/ /\ signUp.kind = "create-org" /\ "guest" \notin accounts
       /\ accounts' = accounts \cup {"guest"}
       /\ UNCHANGED <<org, spaces, members, invites, library>>

\* A submission that is refused, or lost, or whose answer is lost, fails.
ServeSignUp ==
    /\ signUp.at = "sent"
    /\ \/ SignUpAccepted /\ signUp' = [signUp EXCEPT !.at = "ok"]
       \/ signUp' = [signUp EXCEPT !.at = "failed"] /\ (SignUpAccepted \/ UNCHANGED server)
    /\ UNCHANGED <<frame, admin, table, op, link, mode, token, preview, waiting,
                   lookups, acts>>

\* A success leads into the application; the guest signs out again, and the screen
\* starts anew.
SignUpAnswered ==
    /\ signUp.at \in {"ok", "failed"} /\ signUp' = NoSignUp
    /\ waiting' = FALSE
    /\ IF signUp.at = "ok" THEN mode' = "login" /\ token' = 0 /\ preview' = 0 /\ lookups' = {}
       ELSE UNCHANGED <<mode, token, preview, lookups>>
    /\ UNCHANGED <<server, frame, admin, table, op, link, acts>>

-----------------------------------------------------------------------------
Console == \/ \E t \in Tab : OpenTab(t)
           \/ \E s \in Space : OpenWorkspace(s)
           \/ CloseWorkspace
           \/ \E k \in Kind : Write(k)
Answers == \/ ListsAnswered \/ ServeRows \/ RowsAnswered
           \/ ShelfAnswered \/ ServeWrite
           \/ Created \/ MembersChanged \/ WriteFailed \/ UserRemoved \/ InviteRevoked
           \/ LinkAnswered \/ ShelfChanged
Guest == \/ \E m \in {"login", "create-org", "invite"} : SwitchMode(m)
         \/ \E i \in Invite : TypeToken(i)
         \/ LookUp \/ FollowLink \/ ServeLookup \/ LookupAnswered
         \/ Submit \/ ServeSignUp \/ SignUpAnswered

AccountNext == Console \/ Answers \/ Guest \/ Colleague

AccountSpec == AccountInit /\ [][AccountNext]_accountVars

-----------------------------------------------------------------------------
\* Types: both screens show states they have, and every request is in a known one.
AccountTypeOK ==
    /\ {accounts, org} \subseteq SUBSET User /\ spaces \subseteq Space
    /\ members \in [Space -> SUBSET User]
    /\ invites \in [Invite -> {"none", "open", "used"}]
    /\ tab \in Tab /\ selected \in Space \cup {"none"}
    /\ {library, form, loading, crossed, shelf, waiting} \subseteq BOOLEAN
    /\ selected # "none" => ~form
    /\ lists \in [users : SUBSET User, spaces : SUBSET Space, invites : SUBSET Invite]
    /\ loads \subseteq {"lists", "shelf"}
    /\ rows \in [of : Space \cup {"none"}, users : SUBSET User]
    /\ rowLoads \subseteq [at : {"sent", "read"}, of : Space, users : SUBSET User]
    /\ op.kind \in Kind \cup {"none"} /\ op.at \in {"no", "sent", "link", "ok", "failed"}
    /\ mode \in {"login", "create-org", "invite"}
    /\ {link, token, preview} \subseteq Invite \cup {0}
    /\ lookups \subseteq [at : {"sent", "found", "failed"}, of : Invite]
    /\ signUp.at \in {"no", "sent", "ok", "failed"}

\* The members listed under a workspace, on whom the buttons act, are its own, once
\* the loading is over: only loads of different workspaces that overlap, or a change
\* answered after the admin has moved on, bring another one's.
RowsMatch == ~crossed /\ ~loading /\ selected # "none" => rows.of = selected

\* Whatever lookups are answered late, and in whatever mode, the registration form
\* that shows an invite is about to use that very invite.
FormTruthful ==
    /\ preview # 0 => token = preview
    /\ signUp.kind = "invite" /\ preview # 0 => signUp.invite = preview
=============================================================================
