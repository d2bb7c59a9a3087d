---------------------------------- MODULE Users ---------------------------------
(* Users and roles: the terminal tool FACTUM (manage_users.py) and the requests of *)
(* administrators to the web interface work on the same SQLite database. Both read *)
(* it, wait (a prompt, a page that is shown, a thread that is descheduled), and    *)
(* write it later: SQLite begins a transaction with the first statement that writes. *)
EXTENDS Inputs, Integers, FiniteSetsExt, SequencesExt

CONSTANTS Emails,          \* user names
          RoleNames,       \* ROLES of privileges.py
          ExtraRoles,      \* roles that only FACTUM can create
          Sessions,        \* requests that the web interface serves at the same time
          RolesInDatabase, \* sets of roles, as filter.py gets them for the page of a user
          UserDatabases,   \* what the database holds at first, see PickUserDatabase
          MaxId,           \* bound: ids of users
          MaxOperations    \* bound: operations that are started

VARIABLES users,           \* table user: id |-> [email, legal], legal: of the password
          links,           \* table roles_users: a bag of <<id, role>>, it has no key
          roles,           \* table role, its names are unique
          terminal,        \* FACTUM: what it asks for and the lists it has read
          web,             \* the requests
          operations,      \* number of operations started
          written          \* history: per session and for FACTUM, the rows that others
                           \* have written since it read them

userVars == <<users, links, roles, terminal, web, operations, written>>

NoLinks == [l \in {} |-> 0]
Menu == [at |-> "menu", users |-> {}, roles |-> {}, user |-> "none", id |-> 0]
AtStep(point) == [Menu EXCEPT !.at = point]
NoRequest == [at |-> "idle", id |-> 0, email |-> "none", held |-> {}, selected |-> {}, missing |-> {}, legal |-> TRUE]
Clients == Sessions \union {"terminal"}
AllRoles == RoleNames \union ExtraRoles

\* A database to begin with: the user names are unique, and users hold their roles once.
UserDatabase(d) ==
    /\ DOMAIN d.users \subseteq 1 .. MaxId
    /\ d.users \in [DOMAIN d.users -> [email : Emails, legal : BOOLEAN]]
    /\ \A i, k \in DOMAIN d.users : d.users[i].email = d.users[k].email => i = k
    /\ DOMAIN d.links \subseteq (DOMAIN d.users) \X AllRoles
    /\ d.links = [l \in DOMAIN d.links |-> 1]
    /\ d.roles \subseteq AllRoles

ASSUME UsersConstants ==
    /\ MaxId \in Nat /\ "guest" \in RoleNames /\ "terminal" \notin Sessions
    /\ \A d \in UserDatabases : UserDatabase(d)

UsersInit ==
    /\ users = [i \in {} |-> 0] /\ links = NoLinks /\ roles = {}
    /\ terminal = AtStep("off") /\ web = [s \in Sessions |-> NoRequest]
    /\ operations = 0 /\ written = [c \in Clients |-> {}]

PickUserDatabase ==
    /\ NoInput
    /\ \E d \in UserDatabases : /\ input' = [kind |-> "users", arg |-> d]
                                /\ users' = d.users /\ links' = d.links /\ roles' = d.roles
    /\ UNCHANGED <<terminal, web, operations, written>>

--------------------------------------------------------------------------------
(* The tables. A user gets the id after the largest one: SQLite uses an id again    *)
(* when its user was the last one. Foreign keys are not enforced.                    *)
Ids == DOMAIN users
NextId == 1 + Max({0} \union Ids)
FindUser(email) == {i \in Ids : users[i].email = email}
NameOf(id) == {users[i].email : i \in Ids \intersect {id}}
RolesOf(id) == {r \in AllRoles : <<id, r>> \in DOMAIN links}
WithLinks(bag, ls) == [l \in DOMAIN bag \union ls |-> (IF l \in DOMAIN bag THEN bag[l] ELSE 0) + (IF l \in ls THEN 1 ELSE 0)]
WithoutLinks(bag, ls) == [l \in (DOMAIN bag) \ ls |-> bag[l]]
\* A link is deleted by its two ids: SQLAlchemy fails unless this hits one row for each.
LinksOf(id, rs) == {<<id, r>> : r \in rs}
LinksCanGo(ls) == \A l \in ls : l \in DOMAIN links /\ links[l] = 1

\* Client c writes rows: the others that wait have read something older.
Waits(d) == IF d = "terminal" THEN terminal.at \notin {"off", "menu", "failed"} ELSE web[d].at # "idle"
Writes(c, rows) ==
    written' = [d \in Clients |-> IF d = c THEN {} ELSE IF Waits(d) THEN written[d] \union rows ELSE written[d]]
Rows(u, l, r) == {<<"user", <<i>>>> : i \in u} \union {<<"link", x>> : x \in l} \union {<<"role", <<x>>>> : x \in r}
\* A transaction that fails, or that has nothing to write.
WritesNothing(c) == UNCHANGED <<users, links, roles>> /\ Writes(c, {})

CreateUser(c, email, legal, rs) ==
    /\ users' = [i \in Ids \union {NextId} |-> IF i = NextId THEN [email |-> email, legal |-> legal] ELSE users[i]]
    /\ links' = WithLinks(links, {<<NextId, r>> : r \in rs})
    /\ UNCHANGED roles
    /\ Writes(c, Rows({email}, {<<email, r>> : r \in rs}, {}))
\* The user and the roles that were read of it go. A user that is gone already is not missed.
DeleteUser(c, id, held) ==
    /\ users' = [i \in Ids \ {id} |-> users[i]]
    /\ links' = WithoutLinks(links, LinksOf(id, held))
    /\ UNCHANGED roles
    /\ Writes(c, Rows(NameOf(id), {}, {}))
\* Roles are given to the id that was read, whoever has it now.
GiveRoles(c, id, rs) ==
    /\ links' = WithLinks(links, LinksOf(id, rs))
    /\ UNCHANGED <<users, roles>>
    /\ Writes(c, Rows({}, NameOf(id) \X rs, {}))
TakeRoles(c, id, rs) ==
    /\ links' = WithoutLinks(links, LinksOf(id, rs))
    /\ UNCHANGED <<users, roles>>
    /\ Writes(c, Rows({}, NameOf(id) \X rs, {}))

Starts == Given("users") /\ operations < MaxOperations /\ operations' = operations + 1
Continues == UNCHANGED <<operations, input>>

--------------------------------------------------------------------------------
(* FACTUM. Only KeyboardInterrupt, AssertionError and EOFError are caught: any other  *)
(* error ends the program.                                                             *)
Ask(point) == terminal' = [at |-> point, users |-> {users[i].email : i \in Ids}, roles |-> roles, user |-> "none", id |-> 0]
TerminalFails(email) == terminal' = [AtStep("failed") EXCEPT !.user = email] /\ UNCHANGED <<users, links, roles, written>>
Back == terminal' = Menu
\* FACTUM has read what it needs to write roles rs, of the user with this id if any.
Finds(point, email, id, rs) ==
    /\ terminal' = [at |-> point, users |-> {}, roles |-> rs, user |-> email, id |-> id]
    /\ written' = [written EXCEPT !["terminal"] = {}]
    /\ UNCHANGED <<users, links, roles>>

\* Is there a role of ROLES that is missing?
InitialiseRoles ==
    /\ terminal.at = "off" /\ Given("users")
    /\ IF RoleNames \subseteq roles THEN Back /\ WritesNothing("terminal")
       ELSE \E role \in RoleNames \ roles : Finds("initialise", "none", 0, {role})
    /\ Continues /\ UNCHANGED web

\* An action is chosen: the lists for its validators are read.
ActionNames == {"create_user", "delete_user", "create_role", "add_role_to_user", "remove_role_from_user", "get_apikey_for_user"}
PromptLoop ==
    /\ terminal.at = "menu" /\ Starts
    /\ \E action \in ActionNames : Ask(action)
    /\ WritesNothing("terminal") /\ UNCHANGED <<web, input>>

\* KeyboardInterrupt at a prompt.
Interrupt ==
    /\ terminal.at \in ActionNames \union {"rolename"} /\ Back
    /\ WritesNothing("terminal") /\ Continues /\ UNCHANGED web

ActionValidatorReverse(email) == email \notin terminal.users
TerminalCreateUser ==
    /\ terminal.at = "create_user" /\ NextId <= MaxId
    /\ \E email \in Emails :
        /\ ActionValidatorReverse(email)
        /\ IF FindUser(email) # {} THEN TerminalFails(email)
           ELSE CreateUser("terminal", email, TRUE, {"guest"}) /\ Back
    /\ Continues /\ UNCHANGED web

\* find_user, then the roles of the user when the session is flushed, then the transaction.
TerminalDeleteUser ==
    /\ terminal.at = "delete_user"
    /\ \E email \in terminal.users :
        \/ FindUser(email) = {} /\ TerminalFails(email)
        \/ \E id \in FindUser(email) : Finds("delete", email, id, {})
    /\ Continues /\ UNCHANGED web
TerminalDeleteReads ==
    /\ terminal.at = "delete"
    /\ terminal' = [terminal EXCEPT !.at = "flush", !.roles = RolesOf(terminal.id)]
    /\ Continues /\ UNCHANGED <<users, links, roles, web, written>>
TerminalDeleteCommits ==
    /\ terminal.at = "flush"
    /\ IF LinksCanGo(LinksOf(terminal.id, terminal.roles)) THEN DeleteUser("terminal", terminal.id, terminal.roles) /\ Back
       ELSE TerminalFails(terminal.user)
    /\ Continues /\ UNCHANGED web

\* _role_exists is asked again after the prompt.
CreateRole ==
    /\ terminal.at = "create_role"
    /\ \E role \in AllRoles \ terminal.roles :
        IF role \in roles THEN Back /\ WritesNothing("terminal") ELSE Finds("new_role", "none", 0, {role})
    /\ Continues /\ UNCHANGED web
\* The names of roles are unique.
CreateRoleCommits ==
    /\ terminal.at \in {"new_role", "initialise"}
    /\ IF terminal.roles \intersect roles # {} THEN TerminalFails("none")
       ELSE /\ roles' = roles \union terminal.roles /\ UNCHANGED <<users, links>>
            /\ terminal' = IF terminal.at = "initialise" THEN AtStep("off") ELSE Menu
            /\ Writes("terminal", Rows({}, {}, terminal.roles))
    /\ Continues /\ UNCHANGED web

\* Mutant: roles that the user has are added again
RoleAgain(id, role) == {role}
\* A role that the user has is not added again.
RolesToAdd(id, role) == {role} \ RolesOf(id)

AddRoleToUser ==
    /\ terminal.at = "add_role_to_user"
    /\ \E email \in terminal.users, role \in terminal.roles :
        \/ FindUser(email) = {} /\ TerminalFails(email)
        \/ \E id \in FindUser(email) : Finds("link", email, id, RolesToAdd(id, role))
    /\ Continues /\ UNCHANGED web
AddRoleCommits ==
    /\ terminal.at = "link"
    /\ GiveRoles("terminal", terminal.id, terminal.roles) /\ Back
    /\ Continues /\ UNCHANGED web

\* The user is looked up after the first prompt, and again after the second one.
RemoveRoleFromUser ==
    \/ /\ terminal.at = "remove_role_from_user"
       /\ \E email \in terminal.users :
            \/ FindUser(email) = {} /\ TerminalFails(email)
            \/ \E id \in FindUser(email) : Finds("rolename", email, id, RolesOf(id))
       /\ Continues /\ UNCHANGED web
    \/ /\ terminal.at = "rolename"
       /\ \E role \in terminal.roles :
            \/ FindUser(terminal.user) = {} /\ TerminalFails(terminal.user)
            \/ \E id \in FindUser(terminal.user) : Finds("unlink", terminal.user, id, {role} \intersect RolesOf(id))
       /\ Continues /\ UNCHANGED web
RemoveRoleCommits ==
    /\ terminal.at = "unlink"
    /\ IF LinksCanGo(LinksOf(terminal.id, terminal.roles)) THEN TakeRoles("terminal", terminal.id, terminal.roles) /\ Back
       ELSE TerminalFails(terminal.user)
    /\ Continues /\ UNCHANGED web

GetApikeyForUser ==
    /\ terminal.at = "get_apikey_for_user"
    /\ \E email \in terminal.users : IF FindUser(email) = {} THEN TerminalFails(email) ELSE Back /\ WritesNothing("terminal")
    /\ Continues /\ UNCHANGED web

--------------------------------------------------------------------------------
(* Requests of administrators. user_db_session rolls back on an SQLAlchemyError.       *)
SetRequest(s, r) == web' = [web EXCEPT ![s] = r]
Answer(s) == SetRequest(s, NoRequest)

\* _add_user: does the user exist?
AddUser(s) ==
    /\ web[s].at = "idle" /\ Starts
    /\ \E email \in Emails, legal \in BOOLEAN :
        FindUser(email) = {} /\ SetRequest(s, [NoRequest EXCEPT !.at = "add", !.email = email, !.legal = legal])
    /\ WritesNothing(s) /\ UNCHANGED <<terminal, input>>
\* _add_user: create it. No role is given, and the password is not looked at.
AddUserCommits(s) ==
    /\ web[s].at = "add" /\ NextId <= MaxId
    /\ IF FindUser(web[s].email) # {} THEN WritesNothing(s) ELSE CreateUser(s, web[s].email, web[s].legal, {})
    /\ Answer(s) /\ Continues /\ UNCHANGED terminal

\* show_user: the page of a user, whose form posts to the id.
ShowUser(s) ==
    /\ web[s].at = "idle" /\ Starts
    /\ \E id \in Ids : SetRequest(s, [NoRequest EXCEPT !.at = "page", !.id = id, !.email = users[id].email])
    /\ WritesNothing(s) /\ UNCHANGED <<terminal, input>>

PasswordIsLegal(legal) == legal
\* _change_user_password: find the user. For an id without a user the request fails.
ChangeUserPassword(s) ==
    /\ web[s].at = "page"
    /\ \E legal \in BOOLEAN :
        IF PasswordIsLegal(legal) /\ web[s].id \in Ids THEN SetRequest(s, [web[s] EXCEPT !.at = "password", !.legal = legal])
        ELSE Answer(s)
    /\ Continues /\ UNCHANGED <<users, links, roles, terminal, written>>
\* An update that hits no row is rolled back. Nobody relies on the old password.
ChangePasswordCommits(s) ==
    /\ web[s].at = "password"
    /\ IF web[s].id \in Ids
       THEN users' = [users EXCEPT ![web[s].id].legal = web[s].legal] /\ UNCHANGED <<links, roles>> /\ Writes(s, {})
       ELSE WritesNothing(s)
    /\ Answer(s) /\ Continues /\ UNCHANGED terminal

\* _determine_role_changes looks only at roles of ROLES.
CurrentRoles(held) == held \intersect RoleNames
\* _edit_roles: read the roles of the user, and which of the new ones have to be created.
\* A form in which no role is selected lacks the field input_roles: it is an unknown request.
EditRoles(s) ==
    /\ web[s].at = "page"
    /\ IF web[s].id \in Ids
       THEN \E selected \in (SUBSET RoleNames) \ {{}} :
                SetRequest(s, [web[s] EXCEPT !.at = "edit", !.email = users[web[s].id].email, !.held = RolesOf(web[s].id), !.selected = selected,
                                             !.missing = (selected \ CurrentRoles(RolesOf(web[s].id))) \ roles])
       ELSE Answer(s)
    /\ written' = [written EXCEPT ![s] = {}]
    /\ Continues /\ UNCHANGED <<users, links, roles, terminal>>
\* _edit_roles: write what has changed, compared with what was read.
EditRolesCommits(s) ==
    LET id      == web[s].id
        current == CurrentRoles(web[s].held)
        added   == web[s].selected \ current
        removed == current \ web[s].selected
    IN  /\ web[s].at = "edit"
        /\ IF LinksCanGo(LinksOf(id, removed)) /\ web[s].missing \intersect roles = {}
           THEN /\ roles' = roles \union web[s].missing
                /\ links' = WithLinks(WithoutLinks(links, LinksOf(id, removed)), LinksOf(id, added))
                /\ Writes(s, Rows({}, NameOf(id) \X (added \union removed), web[s].missing)) /\ UNCHANGED users
           ELSE WritesNothing(s)
        /\ Answer(s) /\ Continues /\ UNCHANGED terminal

\* delete_user: find the user by its name, then read its roles, then write.
WebDeleteUser(s) ==
    /\ web[s].at = "idle" /\ Starts
    /\ \E id \in Ids : SetRequest(s, [NoRequest EXCEPT !.at = "delete", !.id = id, !.email = users[id].email])
    /\ WritesNothing(s) /\ UNCHANGED <<terminal, input>>
WebDeleteReads(s) ==
    /\ web[s].at = "delete"
    /\ SetRequest(s, [web[s] EXCEPT !.at = "flush", !.held = RolesOf(web[s].id)])
    /\ Continues /\ UNCHANGED <<users, links, roles, terminal, written>>
WebDeleteCommits(s) ==
    /\ web[s].at = "flush"
    /\ IF LinksCanGo(LinksOf(web[s].id, web[s].held)) THEN DeleteUser(s, web[s].id, web[s].held) ELSE WritesNothing(s)
    /\ Answer(s) /\ Continues /\ UNCHANGED terminal

UsersNext ==
    \/ InitialiseRoles \/ PromptLoop \/ Interrupt \/ TerminalCreateUser \/ TerminalDeleteUser \/ TerminalDeleteReads \/ TerminalDeleteCommits
    \/ CreateRole \/ CreateRoleCommits \/ AddRoleToUser \/ AddRoleCommits \/ RemoveRoleFromUser \/ RemoveRoleCommits \/ GetApikeyForUser
    \/ \E s \in Sessions :
        \/ AddUser(s) \/ AddUserCommits(s) \/ ShowUser(s) \/ ChangeUserPassword(s) \/ ChangePasswordCommits(s) \/ EditRoles(s) \/ EditRolesCommits(s)
        \/ WebDeleteUser(s) \/ WebDeleteReads(s) \/ WebDeleteCommits(s)

UsersSpec == input = Nothing /\ UsersInit /\ [][PickUserDatabase \/ UsersNext]_<<input, userVars>>

--------------------------------------------------------------------------------
(* What the two ways to manage users promise.                                         *)
\* Someone else wrote the user or its roles, the user itself, or one of the roles, since
\* client c read them.
Interfered(c, email) == \E w \in written[c] : w[1] # "role" /\ w[2][1] = email
UserWritten(c, email) == <<"user", <<email>>>> \in written[c]
RolesWritten(c, rs) == \E r \in rs : <<"role", <<r>>>> \in written[c]
Duplicated(email) == \E l \in DOMAIN links : links[l] > 1 /\ l[1] \in FindUser(email)

\* FACTUM ends with an error only if the user it works on, or the role it creates, was
\* written by someone else after it had read the table, or if the user holds a role twice:
\* the validators of manage_users.py exclude everything else.
TerminalEndsOnlyWhenRaced ==
    [][terminal.at # "failed" /\ terminal'.at = "failed" =>
        \/ Interfered("terminal", terminal'.user) \/ Duplicated(terminal'.user)
        \/ terminal.at \in {"new_role", "initialise"} /\ RolesWritten("terminal", terminal.roles)]_userVars

\* When nobody else touches the user or the new roles meanwhile, _edit_roles leaves it with
\* the selected roles and with the roles outside ROLES that it had.
EditsGiveTheSelection ==
    [][\A s \in Sessions :
        web[s].at = "edit" /\ web'[s].at = "idle" /\ ~Interfered(s, web[s].email) /\ ~Duplicated(web[s].email) /\ ~RolesWritten(s, web[s].missing)
            => {r \in AllRoles : <<web[s].id, r>> \in DOMAIN links'} = web[s].selected \union (RolesOf(web[s].id) \ RoleNames)]_userVars

LinksAreClean == \A l \in DOMAIN links : links[l] = 1 /\ l[1] \in Ids

\* The steps that write by what was read of the roles of a user, of FACTUM and of a request.
WritesLinks == {"link", "edit", "flush"}

\* A user holds a role once, and only users hold roles. Only a client that gives roles
\* (add_role_to_user, _edit_roles) or that deletes a user breaks this, and only if another
\* one wrote the user or its roles between its read and its commit. Then the role cannot be
\* taken away, nor the user be deleted, or the next user that gets the id holds the role.
LinksStayClean ==
    [][LinksAreClean /\ ~LinksAreClean' =>
        \/ terminal.at \in WritesLinks /\ terminal'.at = "menu" /\ Interfered("terminal", terminal.user)
        \/ \E s \in Sessions : web[s].at \in WritesLinks /\ web'[s].at = "idle" /\ Interfered(s, web[s].email)]_userVars

\* A password that is changed on the page of a user is the one of that user, unless the
\* user was deleted while the page was shown: then another one may have got its id.
PageEditsItsUser ==
    [][\A s \in Sessions, id \in Ids :
        web[s].at = "password" /\ web'[s].at = "idle" /\ id \in Ids' /\ users'[id] # users[id]
            => users[id].email = web[s].email \/ UserWritten(s, web[s].email)]_userVars

\* A user that goes is the one that was named, unless someone else deleted that one between
\* the read and the commit: then the user that has got its id goes.
NamedUsersGo ==
    [][\A i \in Ids \ Ids' :
        \/ terminal.at = "flush" /\ terminal'.at = "menu" /\ (users[i].email = terminal.user \/ UserWritten("terminal", terminal.user))
        \/ \E s \in Sessions : web[s].at = "flush" /\ web'[s].at = "idle" /\ (users[i].email = web[s].email \/ UserWritten(s, web[s].email))]_userVars

\* FACTUM and the web pages leave users and roles consistent as far as nobody else wrote
\* between what they read and what they write (manage_users.py, user_management_routes.py).
AccountsAreConsistent ==
    /\ TerminalEndsOnlyWhenRaced
    /\ EditsGiveTheSelection
    /\ LinksStayClean
    /\ PageEditsItsUser
    /\ NamedUsersGo

--------------------------------------------------------------------------------
(* PRIVILEGES, and the roles on the page of a user: sorted by the number of their         *)
(* privileges. A role that appears in none, as FACTUM can create one, is a KeyError.      *)
Roles == <<"guest", "guest_analyst", "analyst", "senior_analyst", "superuser">>
From(n) == {Roles[i] : i \in n .. 5}
Privileges ==
    [status |-> From(1), basic_search |-> From(2), view_analysis |-> From(2), comment |-> From(3), compare |-> From(3), advanced_search |-> From(3),
     pattern_search |-> From(3), view_profile |-> From(3), submit_analysis |-> From(4), cancel_analysis |-> From(4), download |-> From(4),
     delete |-> From(5), manage_users |-> From(5), view_logs |-> From(5)]
InvertedPrivileges(role) == {p \in DOMAIN Privileges : role \in Privileges[p]}
SortFails(rs) == \E r \in rs : InvertedPrivileges(r) = {}
SortRolesByNumberOfPrivileges(rs) == SetToSortSeq(rs, LAMBDA r, s : Cardinality(InvertedPrivileges(r)) < Cardinality(InvertedPrivileges(s)))

PickRoles == Choose("roles", RolesInDatabase)

\* The roles on the page of a user come in the order of their power: whatever a role may do,
\* the ones after it may do as well. The page fails if there is a role without privileges.
RolesAreAHierarchy ==
    Given("roles") =>
        IF input.arg \subseteq ToSet(Roles)
        THEN LET sorted == SortRolesByNumberOfPrivileges(input.arg)
             IN  ~SortFails(input.arg) /\ \A i, j \in DOMAIN sorted : i < j => InvertedPrivileges(sorted[i]) \subseteq InvertedPrivileges(sorted[j])
        ELSE SortFails(input.arg)
================================================================================
