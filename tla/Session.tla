---- MODULE Session ----
(***************************************************************************)
(* Who the browser is: lib/api.ts keeps the token and the user in           *)
(* localStorage, which all tabs share; LoginPage.tsx stores both, Shell.tsx *)
(* (the frame of every page) asks /auth/me once when it is mounted and      *)
(* stores the answer, and clears both when the call fails.  Nothing cancels *)
(* a call whose Shell is gone: an answer to an earlier session is taken in  *)
(* like any other.  The server decides by the token alone: /auth/me answers *)
(* with the token's payload, RolesGuard looks at the roles written into it  *)
(* at login.                                                                *)
(***************************************************************************)
EXTENDS Naturals, Sequences, FiniteSets

CONSTANTS
    Tabs,          \* tabs of one browser
    RolesOfUser,   \* the people who log in, with their roles
    MaxSessions,   \* bound: logins
    MaxMeCalls     \* bound: /auth/me calls of a tab under way

ASSUME SessionAssumption == MaxSessions \in Nat /\ MaxMeCalls \in Nat

VARIABLES
    token,     \* the stored token: number of the login that issued it, 0 for none
    user,      \* the stored user, Nobody for none
    owner,     \* the users of the tokens issued so far
    expired,   \* tokens older than eight hours
    tab,       \* page, the user in the frame's header, and calls under way
    late       \* history: an answer to another session than the stored one was taken in

sessionVars == <<token, user, owner, expired, tab, late>>

People == DOMAIN RolesOfUser

Nobody == "nobody"

ClosedTab == [page |-> "closed", header |-> Nobody, login |-> Nobody, calls |-> <<>>,
              crossed |-> FALSE]

SessionInit ==
    /\ token = 0 /\ user = Nobody
    /\ owner = <<>> /\ expired = {}
    /\ tab = [t \in Tabs |-> ClosedTab]
    /\ late = FALSE

----
\* JwtStrategy: the token must be one that AuthService signed, and not be too old.
Valid(s) == s # 0 /\ s \notin expired

\* api() puts the token into the call, the guard takes its payload: the user the
\* server sees, Nobody without a valid token.
SeenBy(s) == IF Valid(s) THEN owner[s] ELSE Nobody

\* AuthService.login signs a token that names the user and his roles.
Signed(u) == Append(owner, u)

\* hasRole(): the controls a page shows, by the stored user.
HasRole(u, roles) ==
    u # Nobody /\ ("ADMIN" \in RolesOfUser[u] \/ RolesOfUser[u] \cap roles # {})

\* RolesGuard: what the server lets the payload's roles do.
CanActivate(u, required) ==
    required = {} \/ (u # Nobody /\ ("ADMIN" \in RolesOfUser[u]
                                     \/ \E r \in required : r \in RolesOfUser[u]))

\* Mounting the frame: the header starts with the stored user, /auth/me is called
\* with the stored token.
MountShell(view, s, u) ==
    [view EXCEPT !.page = "app", !.header = u, !.crossed = FALSE,
                 !.calls = Append(view.calls, [session |-> s, mounted |-> TRUE])]

\* The token changes under the tabs that show a page.
Cross(views, t) ==
    [o \in Tabs |-> IF o # t /\ views[o].page = "app" THEN [views[o] EXCEPT !.crossed = TRUE]
                    ELSE views[o]]

\* An address is opened: the login page, or a private page.  PrivateRoute lets in
\* with a token and sends to the login page without one; the frame of a tab stays
\* mounted while its pages change.
Visit(t) ==
    /\ tab[t].page # "app" /\ Len(tab[t].calls) < MaxMeCalls
    /\ \/ tab' = [tab EXCEPT ![t].page = "login"]
       \/ token # 0 /\ tab' = [tab EXCEPT ![t] = MountShell(@, token, user)]
    /\ UNCHANGED <<token, user, owner, expired, late>>

\* The form of LoginPage: one call at a time, its button is off meanwhile.
SubmitLogin(t, u) ==
    /\ tab[t].page = "login" /\ tab[t].login = Nobody
    /\ tab' = [tab EXCEPT ![t].login = u]
    /\ UNCHANGED <<token, user, owner, expired, late>>

\* Variant with a defect: only the token is stored.
LoginKeepsUser(t) ==
    /\ tab[t].login # Nobody /\ Len(owner) < MaxSessions /\ Len(tab[t].calls) < MaxMeCalls
    /\ owner' = Signed(tab[t].login)
    /\ token' = Len(owner) + 1 /\ UNCHANGED user
    /\ tab' = Cross([tab EXCEPT ![t] = MountShell([@ EXCEPT !.login = Nobody], token', user)], t)
    /\ UNCHANGED <<expired, late>>

\* AuthService.login found the user: the answer is stored and the pages open.
LoginAnswer(t) ==
    /\ tab[t].login # Nobody /\ Len(owner) < MaxSessions /\ Len(tab[t].calls) < MaxMeCalls
    /\ owner' = Signed(tab[t].login)
    /\ token' = Len(owner) + 1 /\ user' = tab[t].login
    /\ tab' = Cross([tab EXCEPT ![t] = MountShell([@ EXCEPT !.login = Nobody], token', user')], t)
    /\ UNCHANGED <<expired, late>>

\* A wrong password, or the call fails: the form stays.
LoginRefused(t) ==
    /\ tab[t].login # Nobody
    /\ tab' = [tab EXCEPT ![t].login = Nobody]
    /\ UNCHANGED <<token, user, owner, expired, late>>

WithoutCall(view, i) ==
    [view EXCEPT !.calls = SubSeq(view.calls, 1, i - 1) \o SubSeq(view.calls, i + 1, Len(view.calls))]

\* The answer goes to localStorage, and to the header of the frame that asked if it
\* is still there.
MeAnswer(t, i) ==
    LET s == tab[t].calls[i].session
    IN  /\ SeenBy(s) # Nobody
        /\ user' = owner[s]
        /\ late' = (late \/ s # token)
        /\ tab' = [tab EXCEPT ![t] =
             [WithoutCall(tab[t], i) EXCEPT !.header =
                IF tab[t].calls[i].mounted THEN owner[s] ELSE tab[t].header]]
        /\ UNCHANGED <<token, owner, expired>>

\* The login page in place of the frame, whose calls go on.
Unmount(view) ==
    [view EXCEPT !.page = "login", !.header = Nobody,
                 !.calls = [i \in DOMAIN view.calls |-> [view.calls[i] EXCEPT !.mounted = FALSE]]]

\* Back to the login page by the browser's history: the session is kept.
Leave(t) ==
    /\ tab[t].page = "app"
    /\ tab' = [tab EXCEPT ![t] = Unmount(@)]
    /\ UNCHANGED <<token, user, owner, expired, late>>

\* clearToken() and the login page, on a refused or failed /auth/me (any error will
\* do, in any frame the tab ever had) and by the button.
SignOut(t, view) ==
    /\ token' = 0 /\ user' = Nobody
    /\ tab' = Cross([tab EXCEPT ![t] = Unmount(view)], t)
    /\ UNCHANGED <<owner, expired>>

MeFails(t, i) ==
    /\ SignOut(t, WithoutCall(tab[t], i))
    /\ late' = (late \/ (token # 0 /\ tab[t].calls[i].session # token))

Logout(t) ==
    /\ tab[t].page = "app"
    /\ SignOut(t, tab[t])
    /\ UNCHANGED late

Expire(s) ==
    /\ s \notin expired
    /\ expired' = expired \cup {s}
    /\ UNCHANGED <<token, user, owner, tab, late>>

SessionNext ==
    \/ \E t \in Tabs :
         \/ Visit(t) \/ LoginAnswer(t) \/ LoginRefused(t) \/ Leave(t) \/ Logout(t)
         \/ \E u \in People : SubmitLogin(t, u)
         \/ \E i \in DOMAIN tab[t].calls : MeAnswer(t, i) \/ MeFails(t, i)
    \/ \E s \in DOMAIN owner : Expire(s)

SessionSpec == SessionInit /\ [][SessionNext]_sessionVars

----
SessionTypeOK ==
    /\ token \in 0..Len(owner)
    /\ user \in People \cup {Nobody}
    /\ owner \in Seq(People) /\ Len(owner) <= MaxSessions
    /\ expired \subseteq DOMAIN owner
    /\ \A t \in Tabs :
         /\ tab[t].page \in {"closed", "login", "app"}
         /\ {tab[t].header, tab[t].login} \subseteq People \cup {Nobody}
         /\ tab[t].calls \in Seq([session : DOMAIN owner, mounted : BOOLEAN]) /\ Len(tab[t].calls) <= MaxMeCalls
         /\ tab[t].crossed \in BOOLEAN
    /\ late \in BOOLEAN

\* What the frame says and what the server does agree: the person in the header is
\* the one the token names, and the controls the stored user gets are those the
\* server permits.  An answer to an earlier session may break it, and so may
\* another tab that logs in or out; nothing else, in whatever order people log in
\* and out and their answers come.
ActsAsShown ==
    ~late => \A t \in Tabs : tab[t].page = "app" /\ ~tab[t].crossed =>
        /\ token # 0 /\ tab[t].header = owner[token]
        /\ token \notin expired =>
             \A roles \in (SUBSET UNION {RolesOfUser[u] : u \in People}) \ {{}} :
                 HasRole(user, roles) = CanActivate(SeenBy(token), roles)
====
