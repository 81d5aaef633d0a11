---------------------------- MODULE EditorSession ----------------------------
(***************************************************************************)
(* The editor's side of a session (editor/src/lib/api.ts and the routes    *)
(* under editor/src/app/api), over the engine's side in Sessions.          *)
(*                                                                         *)
(* The tabs of one browser share the refresh cookie; each keeps an access  *)
(* token in memory.  A Caller is one thing a tab does: signing in, or a    *)
(* call to the engine that may have to renew the session first.  Waiting   *)
(* callers of a tab share the renewal one of them asked for.               *)
(***************************************************************************)
EXTENDS Sessions, FiniteSets

CONSTANTS
  Tab,
  TabOf       \* the tab each caller belongs to

ASSUME EditorAssumption == TabOf \in [Caller -> Tab] /\ None \notin {"good", "old"}

VARIABLES
  cookie,     \* the refresh token the browser holds
  access,     \* each tab's access token: None, "good" or "old"
  job,        \* what each caller is doing
  excuse      \* auxiliary: something happened that may end a session

engineVars == <<rowVars, handlerVars, worldVars>>
editorVars == <<cookie, access, job, excuse>>
allVars == <<vars, editorVars>>

AtRestJob == {"idle", "signed_out"}

EditorInit ==
  /\ Init
  /\ cookie = None
  /\ access = [b \in Tab |-> None]
  /\ job = [c \in Caller |-> "idle"]
  /\ excuse = FALSE

SetJob(c, j) == job' = [job EXCEPT ![c] = j]
SetAccess(b, a) == access' = [access EXCEPT ![b] = a]
CallersOf(b) == {c \in Caller : TabOf[c] = b}

(* refreshInFlight: the caller whose renewal the others of its tab await. *)
Refreshing(b) == {c \in CallersOf(b) : job[c] \in {"asks", "asks_bare"}}
Awaiting(b) == Refreshing(b) \cup {c \in CallersOf(b) : job[c] = "waits"}

Answered(c) == phase[c] = "idle" /\ reply[c] # None
-----------------------------------------------------------------------------
(* signIn, from the login page, and the engine's part of it begins. *)
Login(c, a) ==
  /\ job[c] \in AtRestJob /\ access[TabOf[c]] = None
  /\ SignIn(c, a)
  /\ SetJob(c, "login")
  /\ UNCHANGED <<cookie, access, excuse>>

(* The login route sets the cookie only when the engine signed in. *)
LoginAnswer(c) ==
  /\ job[c] = "login" /\ Answered(c)
  /\ SetJob(c, "idle")
  /\ \/ /\ reply[c] \in Token
        /\ cookie' = reply[c]
        /\ SetAccess(TabOf[c], "good")
     \/ /\ reply[c] \notin Token
        /\ UNCHANGED <<cookie, access>>
  /\ UNCHANGED <<engineVars, excuse>>

(* apiFetch with the token in memory; what it says settles the answer. *)
Fetch(c) ==
  /\ job[c] \in AtRestJob /\ access[TabOf[c]] # None
  /\ SetJob(c, IF access[TabOf[c]] = "good" THEN "sent" ELSE "sent_old")
  /\ UNCHANGED <<engineVars, cookie, access, excuse>>

FetchAnswer(c) ==
  /\ job[c] = "sent"
  /\ SetJob(c, "idle")
  /\ UNCHANGED <<engineVars, cookie, access, excuse>>

(* POST /api/refresh: the route presents the cookie to the engine, or says *)
(* there is no session when there is no cookie.                            *)
AskRenewal(c) ==
  \/ cookie # None /\ Present(c, cookie) /\ SetJob(c, "asks")
  \/ cookie = None /\ SetJob(c, "asks_bare") /\ UNCHANGED engineVars

(* Mutant: refreshInFlight is assigned instead of kept when there is one. *)
AwaitRenewal_Alone(c) == AskRenewal(c)

AwaitRenewal(c) ==
  \/ Refreshing(TabOf[c]) = {} /\ AskRenewal(c)
  \/ /\ Refreshing(TabOf[c]) # {}
     /\ SetJob(c, "waits")
     /\ UNCHANGED engineVars

(* The answer was 401. *)
Renew(c) ==
  /\ job[c] = "sent_old"
  /\ AwaitRenewal(c)
  /\ UNCHANGED <<cookie, access, excuse>>

(* restoreSession: a page loads with the cookie and no access token. *)
Restore(c) ==
  /\ job[c] \in AtRestJob /\ access[TabOf[c]] = None /\ cookie # None
  /\ AwaitRenewal(c)
  /\ UNCHANGED <<cookie, access, excuse>>

(* Everyone who awaited the renewal goes on. *)
Resume(b, j) ==
  job' = [c \in Caller |-> IF c \in Awaiting(b) THEN j ELSE job[c]]

(* Mutant: the route returns the access token and forgets the cookie. *)
Renewed_CookieForgotten(c) ==
  /\ reply[c] \in Token
  /\ cookie' = cookie
  /\ SetAccess(TabOf[c], "good")
  /\ Resume(TabOf[c], "retry")

(* The new cookie replaces the old, and the new access token too. *)
Renewed(c) ==
  /\ reply[c] \in Token
  /\ cookie' = reply[c]
  /\ SetAccess(TabOf[c], "good")
  /\ Resume(TabOf[c], "retry")

(* No new pair: memory is cleared, and the browser is left with this cookie. *)
NotRenewed(c, left) ==
  /\ cookie' = left
  /\ SetAccess(TabOf[c], None)
  /\ Resume(TabOf[c], "signed_out")

(* Mutant: when the fetch throws, nobody who awaited it is told. *)
RenewalThrew_Silent(c) ==
  /\ reply[c] = Lost
  /\ SetJob(c, "idle")
  /\ UNCHANGED <<cookie, access>>

(* The fetch itself failed: an error like any other, and the session stays. *)
RenewalThrew(c) ==
  /\ reply[c] = Lost
  /\ Resume(TabOf[c], "idle")
  /\ UNCHANGED <<cookie, access>>

(* A 401 and a 500 from the engine are alike to the route, which clears the *)
(* cookie; a route that fails itself, or does not answer, leaves it.        *)
RenewalAnswer(c) ==
  /\ \/ job[c] = "asks_bare" /\ NotRenewed(c, cookie)
     \/ /\ job[c] = "asks" /\ Answered(c)
        /\ \/ Renewed(c)
           \/ reply[c] = Refused /\ NotRenewed(c, None)
           \/ reply[c] = Lost /\ \E left \in {None, cookie} : NotRenewed(c, left)
           \/ RenewalThrew(c)
  /\ UNCHANGED <<engineVars, excuse>>

RetryAnswer(c) ==
  /\ job[c] = "retry"
  /\ SetJob(c, "idle")
  /\ UNCHANGED <<engineVars, cookie, access, excuse>>

(* 401 with a token minted a moment ago: no second retry. *)
RetryRefused(c) ==
  /\ job[c] = "retry"
  /\ SetJob(c, "signed_out")
  /\ SetAccess(TabOf[c], None)
  /\ excuse' = TRUE
  /\ UNCHANGED <<engineVars, cookie>>

(* signOut: POST /api/logout clears the cookie, then memory is cleared. *)
SignOut(b) ==
  /\ access[b] # None
  /\ cookie' = None
  /\ SetAccess(b, None)
  /\ excuse' = TRUE
  /\ UNCHANGED <<engineVars, job>>

AccessExpires(b) ==
  /\ access[b] = "good"
  /\ SetAccess(b, "old")
  /\ UNCHANGED <<engineVars, cookie, job, excuse>>
-----------------------------------------------------------------------------
(* The engine's steps.  An answer that is lost, a token that runs out, an   *)
(* account switched off: each is a reason for a session to end.             *)
Serve(c) ==
  /\ Handle(c)
  /\ excuse' = (excuse \/ reply'[c] = Lost)
  /\ UNCHANGED <<cookie, access, job>>

ServeFails(c) ==
  /\ Fail(c)
  /\ excuse' = TRUE
  /\ UNCHANGED <<cookie, access, job>>

SessionRunsOut ==
  /\ \/ \E t \in Token : Expire(t)
     \/ \E a \in Account : Disable(a)
  /\ excuse' = TRUE
  /\ UNCHANGED <<cookie, access, job>>

Act(c) ==
  \/ LoginAnswer(c) \/ FetchAnswer(c) \/ Renew(c)
  \/ RenewalAnswer(c) \/ RetryAnswer(c) \/ RetryRefused(c)

EditorNext ==
  \/ \E c \in Caller : \/ \E a \in Account : Login(c, a)
                       \/ Fetch(c) \/ Restore(c) \/ Act(c)
                       \/ Serve(c) \/ ServeFails(c)
  \/ \E b \in Tab : SignOut(b) \/ AccessExpires(b)
  \/ SessionRunsOut

EditorSpec == EditorInit /\ [][EditorNext]_allVars
-----------------------------------------------------------------------------
(* "Concurrent calls share a single refresh. Without that ... the session   *)
(* dies": as long as nothing happens that ends a session, no call is ever   *)
(* told it is signed out, however many find the access token expired.       *)
NoNeedlessSignOut == ~excuse => \A c \in Caller : job[c] # "signed_out"

(* "That only holds if the new one actually replaces the old cookie": with  *)
(* no renewal under way, the cookie the browser holds is a live session.    *)
CookieIsLive ==
  ~excuse /\ (\A c \in Caller : job[c] \notin {"login", "asks", "asks_bare"}) =>
    cookie = None \/ store[cookie] = "live"

(* Whatever fails, a call that awaits a renewal has one to wait for: one    *)
(* caller of its tab is renewing, and its answer frees all of them.         *)
NobodyWaitsAlone ==
  \A b \in Tab : Cardinality(Refreshing(b)) <= 1 /\ (Awaiting(b) # {} => Refreshing(b) # {})
=============================================================================
