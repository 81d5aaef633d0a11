---------------------------- MODULE Editor_proofs ----------------------------
(***************************************************************************)
(* Sessions, on both sides of the wire.                                    *)
(*                                                                         *)
(* The engine's: a renewal spends the token it was given, for any number   *)
(* of callers, accounts and tokens.  Of two renewals of one token each may *)
(* issue a session (Sessions, OneHeir), but neither leaves the token       *)
(* usable, and nothing brings it back.  What carries the proof is          *)
(* LocksAreRevocations: a transaction that commits can only turn rows into *)
(* revoked ones.                                                           *)
(*                                                                         *)
(* The editor's, of a browser with one tab (api.ts): calls that find the   *)
(* access token expired share one renewal, so as long as nothing ends the  *)
(* session nobody is told that it has ended.  The engine ends an account's *)
(* sessions when a revoked token comes back.  So what carries the proof is *)
(* that the cookie is live whenever somebody may present it: there is one  *)
(* renewal at a time, it is the only one to revoke anything, it revokes    *)
(* only the token it was given, and its caller replaces the cookie before  *)
(* another can ask.  With two tabs there may be two renewals at a time,    *)
(* and then it is not true (EditorTwoTabs.cfg).                            *)
(***************************************************************************)
EXTENDS Editor, Numbers

Inv == TypeOK /\ LocksAreRevocations /\ RotatedIsRevoked

(* What every step is shown to do: it brings no revoked row back. *)
NoRevival == \A t \in Token : store[t] = "revoked" => store'[t] = "revoked"

LEMMA InitInv == Init => Inv
BY SessionsAssumption
   DEF Init, AtRest, Key, Inv, TypeOK, LocksAreRevocations, RotatedIsRevoked

(* Handlers that only move on, and the world: no row is touched. *)
LEMMA SignInInv ==
  ASSUME Inv, NEW c \in Caller, NEW a \in Account, SignIn(c, a)
  PROVE  Inv' /\ NoRevival
<1> USE SessionsAssumption DEF SignIn, Goto, Answer, rowVars, worldVars
<1>1. TypeOK'
  BY DEF Inv, TypeOK
<1>2. LocksAreRevocations'
  BY DEF Inv, TypeOK, LocksAreRevocations
<1> QED
  BY <1>1, <1>2 DEF Inv, RotatedIsRevoked, NoRevival

LEMMA PresentInv ==
  ASSUME Inv, NEW c \in Caller, NEW t \in Token, Present(c, t)
  PROVE  Inv' /\ NoRevival
<1> USE SessionsAssumption DEF Present, Goto, rowVars, worldVars
<1>0. store[t] # Absent /\ owner[t] \in Account
  BY DEF Inv, LocksAreRevocations, TypeOK
<1>1. TypeOK'
  BY <1>0 DEF Inv, TypeOK
<1>2. LocksAreRevocations'
  BY <1>0 DEF Inv, TypeOK, LocksAreRevocations
<1> QED
  BY <1>1, <1>2 DEF Inv, RotatedIsRevoked, NoRevival

LEMMA ReadTokenInv ==
  ASSUME Inv, NEW c \in Caller, ReadToken(c)
  PROVE  Inv' /\ NoRevival
<1> USE SessionsAssumption DEF ReadToken, Goto, Answer, rowVars, worldVars
<1>1. TypeOK'
  BY DEF Inv, TypeOK
<1>2. LocksAreRevocations'
  BY DEF Inv, TypeOK, LocksAreRevocations
<1> QED
  BY <1>1, <1>2 DEF Inv, RotatedIsRevoked, NoRevival

LEMMA FindLiveInv ==
  ASSUME Inv, NEW c \in Caller, FindLive(c)
  PROVE  Inv' /\ NoRevival
<1> USE SessionsAssumption
    DEF FindLive, Goto, rowVars, worldVars, LiveSessionsOf, SessionsOf
<1>1. TypeOK'
  BY DEF Inv, TypeOK
<1>2. LocksAreRevocations'
  BY DEF Inv, TypeOK, LocksAreRevocations
<1> QED
  BY <1>1, <1>2 DEF Inv, RotatedIsRevoked, NoRevival

LEMMA WorldInv ==
  ASSUME Inv,
         (\E t \in Token : Expire(t)) \/ (\E a \in Account : Disable(a))
  PROVE  Inv' /\ NoRevival
<1> USE DEF Expire, Disable, rowVars, handlerVars
<1>1. TypeOK'
  BY DEF Inv, TypeOK
<1>2. LocksAreRevocations'
  BY DEF Inv, LocksAreRevocations
<1> QED
  BY <1>1, <1>2 DEF Inv, RotatedIsRevoked, NoRevival

(* A row is locked to be revoked. *)
LEMMA RotateInv ==
  ASSUME Inv, NEW c \in Caller, Rotate(c)
  PROVE  Inv' /\ NoRevival
<1> USE SessionsAssumption
    DEF Rotate, Goto, Lockable, WriteRow, worldVars
<1>0. presented[c] \in Token /\ store[presented[c]] # Absent
  BY DEF Inv, TypeOK, LocksAreRevocations
<1>1. TypeOK'
  BY <1>0 DEF Inv, TypeOK
<1>2. LocksAreRevocations'
  BY <1>0 DEF Inv, TypeOK, LocksAreRevocations
<1> QED
  BY <1>1, <1>2 DEF Inv, RotatedIsRevoked, NoRevival

LEMMA RevokeRowInv ==
  ASSUME Inv, NEW c \in Caller, RevokeRow(c)
  PROVE  Inv' /\ NoRevival
<1> USE SessionsAssumption
    DEF RevokeRow, Lockable, WriteRow, worldVars, handlerVars
<1>0. PICK t \in targets[c] :
        holder[t] # c /\ Lockable(c, t) /\ WriteRow(c, t, "revoked")
  OBVIOUS
<1>1. t \in Token /\ store[t] # Absent
  BY DEF Inv, TypeOK, LocksAreRevocations
<1>2. TypeOK'
  BY <1>0, <1>1 DEF Inv, TypeOK
<1>3. LocksAreRevocations'
  BY <1>0, <1>1 DEF Inv, TypeOK, LocksAreRevocations
<1> QED
  BY <1>2, <1>3 DEF Inv, RotatedIsRevoked, NoRevival

(* The locks are given up, and what was written under them stays or goes.  *)
LEMMA FailInv ==
  ASSUME Inv, NEW c \in Caller, Fail(c)
  PROVE  Inv' /\ NoRevival
<1> USE SessionsAssumption
    DEF Fail, Answer, RollbackRows, Released, Key, worldVars
<1>1. TypeOK'
  BY DEF Inv, TypeOK
<1>2. LocksAreRevocations'
  BY DEF Inv, TypeOK, LocksAreRevocations
<1> QED
  BY <1>1, <1>2 DEF Inv, RotatedIsRevoked, NoRevival

LEMMA CheckAccountInv ==
  ASSUME Inv, NEW c \in Caller, CheckAccount(c)
  PROVE  Inv' /\ NoRevival
<1> USE SessionsAssumption
    DEF CheckAccount, Goto, Answer, CommitRows, Released, Key, rowVars, worldVars
<1>1. NoRevival
  BY DEF Inv, TypeOK, LocksAreRevocations, NoRevival
<1>2. TypeOK'
  <2>1. CASE account[c] \in enabled
    BY <2>1 DEF Inv, TypeOK
  <2>2. CASE account[c] \notin enabled
    <3>1. /\ store' \in [Token -> {Absent, "live", "revoked"}]
          /\ \A t \in Token : store'[t] # Absent => store[t] # Absent
      BY <2>2 DEF Inv, TypeOK, LocksAreRevocations
    <3>2. draft' = draft /\ holder' \in [Token -> Caller \cup {Nobody}]
      BY <2>2 DEF Inv, TypeOK
    <3> QED
      BY <2>2, <3>1, <3>2 DEF Inv, TypeOK
  <2> QED
    BY <2>1, <2>2
<1>3. LocksAreRevocations'
  BY DEF Inv, TypeOK, LocksAreRevocations
<1> QED
  BY <1>1, <1>2, <1>3 DEF Inv, TypeOK, RotatedIsRevoked, NoRevival

LEMMA CommitEndingInv ==
  ASSUME Inv, NEW c \in Caller, CommitEnding(c)
  PROVE  Inv' /\ NoRevival
<1> USE SessionsAssumption
    DEF CommitEnding, Answer, CommitRows, Released, Key
<1>1. NoRevival
  BY DEF Inv, TypeOK, LocksAreRevocations, NoRevival
<1>2. TypeOK'
  BY DEF Inv, TypeOK, LocksAreRevocations
<1>3. LocksAreRevocations'
  BY DEF Inv, TypeOK, LocksAreRevocations
<1> QED
  BY <1>1, <1>2, <1>3 DEF Inv, TypeOK, RotatedIsRevoked, NoRevival

(* The new row is one that nobody holds, and the token it was bought with   *)
(* is under c's lock, so this commit revokes it.                            *)
LEMMA IssueInv ==
  ASSUME Inv, NEW c \in Caller, Issue(c)
  PROVE  Inv' /\ NoRevival
<1> USE SessionsAssumption DEF Answer, Released, Key
<1>0. PICK t \in Token :
        /\ store[t] = Absent
        /\ store' = [u \in Token |-> IF u = t THEN "live"
                                     ELSE IF holder[u] = c THEN draft[u] ELSE store[u]]
        /\ draft' = [draft EXCEPT ![t] = "live"]
        /\ holder' = Released(c)
        /\ owner' = [owner EXCEPT ![t] = account[c]]
        /\ heirOf' = [heirOf EXCEPT ![t] = presented[c]]
        /\ \/ Answer(c, t) /\ known' = known \cup {t}
           \/ Answer(c, Lost) /\ known' = known
  BY DEF Issue
<1>1. phase[c] = "issue" /\ UNCHANGED <<expired, enabled, ended>>
  BY DEF Issue
<1>2. holder[t] = Nobody /\ draft[t] = Absent
  BY <1>0 DEF Inv, LocksAreRevocations
<1>3. NoRevival
  BY <1>0, <1>2 DEF Inv, TypeOK, LocksAreRevocations, NoRevival
<1>4. TypeOK'
  <2>1. /\ account[c] \in Account /\ presented[c] \in Token \cup {None}
        /\ store \in [Token -> {Absent, "live", "revoked"}]
        /\ draft \in [Token -> {Absent, "live", "revoked"}]
        /\ holder \in [Token -> Caller \cup {Nobody}]
        /\ owner \in [Token -> Account \cup {None}]
        /\ heirOf \in [Token -> Token \cup {None}]
    BY <1>1 DEF Inv, TypeOK
  <2>2. /\ store' \in [Token -> {Absent, "live", "revoked"}]
        /\ \A u \in Token : store'[u] # Absent => u = t \/ store[u] # Absent
    BY <1>0, <2>1 DEF Inv, LocksAreRevocations
  <2>3. /\ draft' \in [Token -> {Absent, "live", "revoked"}]
        /\ holder' \in [Token -> Caller \cup {Nobody}]
        /\ owner' \in [Token -> Account \cup {None}]
        /\ heirOf' \in [Token -> Token \cup {None}]
    BY <1>0, <2>1
  <2>4. \A u \in Token : store'[u] # Absent => owner'[u] \in Account
    BY <1>0, <2>1, <2>2 DEF Inv, TypeOK
  <2>5. /\ phase' = [phase EXCEPT ![c] = "idle"]
        /\ presented' = [presented EXCEPT ![c] = None]
        /\ account' = [account EXCEPT ![c] = None]
        /\ targets' = [targets EXCEPT ![c] = {}]
        /\ reply' = [reply EXCEPT ![c] = t] \/ reply' = [reply EXCEPT ![c] = Lost]
        /\ known' \in SUBSET Token
    BY <1>0 DEF Inv, TypeOK
  <2> QED
    BY <1>1, <2>2, <2>3, <2>4, <2>5 DEF Inv, TypeOK
<1>5. LocksAreRevocations'
  BY <1>0, <1>1, <1>2 DEF Inv, TypeOK, LocksAreRevocations
<1>6. presented[c] # None => store'[presented[c]] = "revoked"
  <2>1. CASE presented[c] # None
    <3>1. presented[c] \in Token /\ holder[presented[c]] = c
      BY <1>1, <2>1 DEF Inv, TypeOK, LocksAreRevocations
    <3> QED
      BY <1>0, <1>2, <3>1 DEF Inv, LocksAreRevocations
  <2> QED
    BY <2>1
<1>7. RotatedIsRevoked'
  BY <1>0, <1>3, <1>6 DEF Inv, TypeOK, RotatedIsRevoked, NoRevival
<1> QED
  BY <1>3, <1>4, <1>5, <1>7 DEF Inv

LEMMA NextInv == Inv /\ [Next]_vars => Inv' /\ (NoRevival \/ UNCHANGED vars)
<1> SUFFICES ASSUME Inv, [Next]_vars
             PROVE  Inv' /\ (NoRevival \/ UNCHANGED vars)
  OBVIOUS
<1>1. CASE UNCHANGED vars
  BY <1>1 DEF vars, Inv, TypeOK, LocksAreRevocations, RotatedIsRevoked
<1>2. ASSUME NEW c \in Caller, NEW a \in Account, SignIn(c, a)
      PROVE  Inv' /\ NoRevival
  BY <1>2, SignInInv
<1>3. ASSUME NEW c \in Caller, NEW t \in Token, Present(c, t)
      PROVE  Inv' /\ NoRevival
  BY <1>3, PresentInv
<1>4. ASSUME NEW c \in Caller, Handle(c) \/ Fail(c)
      PROVE  Inv' /\ NoRevival
  BY <1>4, ReadTokenInv, RotateInv, CheckAccountInv, IssueInv, FindLiveInv,
     RevokeRowInv, CommitEndingInv, FailInv DEF Handle
<1> QED
  BY <1>1, <1>2, <1>3, <1>4, WorldInv DEF Next

LEMMA Invariance == Spec => []Inv
<1>1. Inv /\ [Next]_vars => Inv'
  BY NextInv
<1> QED
  BY <1>1, InitInv, PTL DEF Spec

(* The variables keep their types; in particular every token belongs to an *)
(* account, and so does every request that has got past its first step.    *)
THEOREM SessionTypes == Spec => []TypeOK
<1>1. Inv => TypeOK
  BY DEF Inv
<1> QED
  BY <1>1, Invariance, PTL

(* A row is only ever locked to be revoked, and a renewal keeps the lock   *)
(* of the token it spends until its own commit.                            *)
THEOREM LocksRevoke == Spec => []LocksAreRevocations
<1>1. Inv => LocksAreRevocations
  BY DEF Inv
<1> QED
  BY <1>1, Invariance, PTL

(* "Every refresh revokes the token it was given": a token that bought a   *)
(* session is revoked, whatever overlaps and whatever fails.               *)
THEOREM SpentTokens == Spec => []RotatedIsRevoked
<1>1. Inv => RotatedIsRevoked
  BY DEF Inv
<1> QED
  BY <1>1, Invariance, PTL

(* No step of anybody's turns a revoked row back into a live one. *)
THEOREM NothingRevives == Spec => RevokedForGood
<1>1. Inv /\ [Next]_vars => [\A t \in Token : store[t] = "revoked" => store'[t] = "revoked"]_vars
  BY NextInv DEF NoRevival
<1> QED
  BY <1>1, Invariance, PTL DEF Spec, RevokedForGood
-----------------------------------------------------------------------------
AllInOneTab == \A c, d \in Caller : TabOf[c] = TabOf[d]

Jobs == {"idle", "login", "sent", "sent_old", "asks", "asks_bare", "waits", "retry", "signed_out"}
Asks(c) == job[c] \in {"asks", "asks_bare"}

JobsTyped == job \in [Caller -> Jobs] /\ access \in [Tab -> {None, "good", "old"}]

(* Whoever asks is alone in its tab, and whoever waits waits for one. *)
OneAsks == \A c, d \in Caller : TabOf[c] = TabOf[d] /\ Asks(c) /\ Asks(d) => c = d
SomeoneAsks == \A c \in Caller : job[c] = "waits" => \E d \in Caller : TabOf[d] = TabOf[c] /\ Asks(d)

WaitInv == JobsTyped /\ OneAsks /\ SomeoneAsks
-----------------------------------------------------------------------------
(* A request that the engine has answered, as the caller has yet to see. *)
Pending == {c \in Caller : job[c] \in {"login", "asks"} /\ phase[c] = "idle"}

(* Nothing has ended a session: no token has run out, no account is off.   *)
NothingEnded ==
  /\ expired = {} /\ enabled = Account
  /\ \A c \in Caller : job[c] \notin {"signed_out", "asks_bare"}

(* The engine is signing in, or renewing what the caller presented; a row is *)
(* locked by the one who presented it; and what is read is live.            *)
EngineRenews ==
  /\ \A c \in Caller : phase[c] # "idle" =>
       \/ job[c] = "login" /\ phase[c] = "issue" /\ presented[c] = None
       \/ job[c] = "asks" /\ phase[c] \in {"read", "rotate", "account", "issue"}
          /\ presented[c] # None
  /\ \A t \in Token : holder[t] # Nobody => presented[holder[t]] = t
  /\ \A c \in Caller : phase[c] \in {"read", "rotate"} => store[presented[c]] = "live"

(* Every answer is a live token, and nobody has it but the one it is for. *)
AnswersAreLive ==
  \A c \in Pending :
    /\ reply[c] \in Token /\ store[reply[c]] = "live" /\ reply[c] # cookie
    /\ \A d \in Caller : presented[d] # reply[c]
    /\ \A d \in Pending : reply[d] = reply[c] => d = c

(* The cookie is live, but for when it is being renewed; and who has an     *)
(* access token has a cookie.                                              *)
CookieIsGood ==
  /\ cookie # None =>
       cookie \in Token /\ store[cookie] # Absent
       /\ (store[cookie] = "live" \/ \E c \in Caller : job[c] = "asks")
  /\ cookie = None => (\A b \in Tab : access[b] = None) /\ \A c \in Caller : job[c] # "sent_old"

Calm == NothingEnded /\ EngineRenews /\ AnswersAreLive /\ CookieIsGood

CalmInv == ~excuse => Calm
-----------------------------------------------------------------------------
(* Steps that move callers which neither ask nor wait. *)
LEMMA PlainJob ==
  ASSUME WaitInv, NEW c \in Caller, NEW j \in {"idle", "login", "sent", "sent_old", "retry", "signed_out"},
         job[c] \notin {"asks", "asks_bare", "waits"}, SetJob(c, j),
         access' \in [Tab -> {None, "good", "old"}]
  PROVE  WaitInv'
<1>1. job'[c] = j /\ \A d \in Caller \ {c} : job'[d] = job[d]
  BY DEF WaitInv, JobsTyped, SetJob
<1>2. \A d \in Caller : Asks(d)' <=> Asks(d)
  BY <1>1 DEF Asks
<1>3. JobsTyped'
  BY DEF WaitInv, JobsTyped, SetJob, Jobs
<1> QED
  BY <1>1, <1>2, <1>3 DEF WaitInv, OneAsks, SomeoneAsks

LEMMA AwaitWaits ==
  ASSUME WaitInv, EditorAssumption, NEW c \in Caller, job[c] \notin {"asks", "asks_bare", "waits"},
         AwaitRenewal(c), access' = access
  PROVE  WaitInv'
<1>1. CASE Refreshing(TabOf[c]) = {} /\ \E j \in {"asks", "asks_bare"} : SetJob(c, j)
  <2>1. PICK j \in {"asks", "asks_bare"} : SetJob(c, j)
    BY <1>1
  <2>2. job'[c] = j /\ \A d \in Caller \ {c} : job'[d] = job[d]
    BY <2>1 DEF WaitInv, JobsTyped, SetJob
  <2>3. \A d \in Caller : TabOf[d] = TabOf[c] => ~Asks(d)
    BY <1>1 DEF Refreshing, CallersOf, Asks
  <2>4. \A d \in Caller : Asks(d)' <=> d = c \/ Asks(d)
    BY <2>2 DEF Asks
  <2>5. JobsTyped'
    BY <2>1 DEF WaitInv, JobsTyped, SetJob, Jobs
  <2> QED
    BY <2>2, <2>3, <2>4, <2>5 DEF WaitInv, OneAsks, SomeoneAsks
<1>2. CASE Refreshing(TabOf[c]) # {} /\ SetJob(c, "waits")
  <2>1. job'[c] = "waits" /\ \A d \in Caller \ {c} : job'[d] = job[d]
    BY <1>2 DEF WaitInv, JobsTyped, SetJob
  <2>2. \A d \in Caller : Asks(d)' <=> Asks(d)
    BY <2>1 DEF Asks
  <2>3. PICK d \in Caller : TabOf[d] = TabOf[c] /\ Asks(d)
    BY <1>2 DEF Refreshing, CallersOf, Asks
  <2>4. JobsTyped'
    BY <1>2 DEF WaitInv, JobsTyped, SetJob, Jobs
  <2> QED
    BY <2>1, <2>2, <2>3, <2>4 DEF WaitInv, OneAsks, SomeoneAsks
<1> QED
  BY <1>1, <1>2 DEF AwaitRenewal, AskRenewal

(* The answer frees everyone who waits for it. *)
LEMMA ResumeWaits ==
  ASSUME WaitInv, EditorAssumption, NEW b \in Tab, NEW j \in {"idle", "retry", "signed_out"},
         Resume(b, j), access' \in [Tab -> {None, "good", "old"}]
  PROVE  WaitInv'
<1>1. \A c \in Caller : job'[c] = IF c \in Awaiting(b) THEN j ELSE job[c]
  BY DEF Resume
<1>2. \A c \in Caller : TabOf[c] = b =>
        (c \in Awaiting(b) <=> job[c] \in {"asks", "asks_bare", "waits"})
  BY DEF Awaiting, Refreshing, CallersOf
<1>3. \A c \in Caller : TabOf[c] # b => c \notin Awaiting(b)
  BY DEF Awaiting, Refreshing, CallersOf
<1>4. \A c \in Caller : Asks(c)' <=> Asks(c) /\ TabOf[c] # b
  BY <1>1, <1>2, <1>3 DEF Asks
<1>5. \A c \in Caller : job'[c] = "waits" <=> job[c] = "waits" /\ TabOf[c] # b
  BY <1>1, <1>2, <1>3
<1>6. JobsTyped'
  BY <1>1 DEF WaitInv, JobsTyped, Jobs, Resume
<1> QED
  BY <1>4, <1>5, <1>6 DEF WaitInv, OneAsks, SomeoneAsks

LEMMA WaitInvInit == ASSUME EditorInit PROVE WaitInv
BY DEF EditorInit, WaitInv, JobsTyped, Jobs, OneAsks, SomeoneAsks, Asks

LEMMA ActWaits ==
  ASSUME WaitInv, EditorAssumption, NEW c \in Caller, Act(c)
  PROVE  WaitInv'
<1>1. TabOf[c] \in Tab /\ access \in [Tab -> {None, "good", "old"}]
  BY DEF EditorAssumption, WaitInv, JobsTyped
<1>2. \A v \in {None, "good", "old"} :
        SetAccess(TabOf[c], v) => access' \in [Tab -> {None, "good", "old"}]
  BY <1>1 DEF SetAccess
<1>3. CASE LoginAnswer(c)
  BY <1>1, <1>2, <1>3, PlainJob DEF LoginAnswer
<1>4. CASE FetchAnswer(c) \/ RetryAnswer(c) \/ RetryRefused(c)
  BY <1>1, <1>2, <1>4, PlainJob DEF FetchAnswer, RetryAnswer, RetryRefused
<1>5. CASE Renew(c)
  BY <1>5, AwaitWaits DEF Renew
<1>6. CASE RenewalAnswer(c)
  BY <1>1, <1>2, <1>6, ResumeWaits DEF RenewalAnswer, Renewed, NotRenewed, RenewalThrew
<1> QED
  BY <1>3, <1>4, <1>5, <1>6 DEF Act

LEMMA WaitInvNext ==
  ASSUME WaitInv, EditorAssumption, [EditorNext]_allVars
  PROVE  WaitInv'
<1>1. ASSUME NEW c \in Caller, NEW a \in Account, Login(c, a) PROVE WaitInv'
  BY <1>1, PlainJob DEF Login, AtRestJob, WaitInv, JobsTyped
<1>2. ASSUME NEW c \in Caller, Fetch(c) PROVE WaitInv'
  BY <1>2, PlainJob DEF Fetch, AtRestJob, WaitInv, JobsTyped
<1>3. ASSUME NEW c \in Caller, Restore(c) PROVE WaitInv'
  BY <1>3, AwaitWaits DEF Restore, AtRestJob
<1>4. ASSUME NEW c \in Caller, Act(c) PROVE WaitInv'
  BY <1>4, ActWaits
<1>5. ASSUME job' = job, access' \in [Tab -> {None, "good", "old"}] PROVE WaitInv'
  BY <1>5 DEF WaitInv, JobsTyped, OneAsks, SomeoneAsks, Asks
<1>6. ASSUME NEW c \in Caller, Serve(c) \/ ServeFails(c) PROVE WaitInv'
  BY <1>5, <1>6 DEF Serve, ServeFails, WaitInv, JobsTyped
<1>7. ASSUME NEW b \in Tab, SignOut(b) \/ AccessExpires(b) PROVE WaitInv'
  BY <1>5, <1>7 DEF SignOut, AccessExpires, SetAccess, WaitInv, JobsTyped
<1>8. CASE SessionRunsOut \/ UNCHANGED allVars
  BY <1>5, <1>8 DEF SessionRunsOut, allVars, editorVars, WaitInv, JobsTyped
<1> QED
  BY <1>1, <1>2, <1>3, <1>4, <1>6, <1>7, <1>8 DEF EditorNext

LEMMA NoneWaitsAlone == WaitInv => NobodyWaitsAlone
<1> SUFFICES ASSUME WaitInv, NEW b \in Tab
             PROVE  Cardinality(Refreshing(b)) <= 1 /\ (Awaiting(b) # {} => Refreshing(b) # {})
  BY DEF NobodyWaitsAlone
<1>1. \A c, d \in Refreshing(b) : c = d
  BY DEF WaitInv, OneAsks, Refreshing, CallersOf, Asks
<1>2. Cardinality(Refreshing(b)) <= 1
  <2>1. CASE Refreshing(b) = {}
    BY <2>1, FS_EmptySet
  <2>2. CASE Refreshing(b) # {}
    <3>1. PICK c : c \in Refreshing(b)
      BY <2>2
    <3>2. Refreshing(b) = {c}
      BY <1>1, <3>1
    <3>3. Cardinality({c}) = 1
      BY FS_Singleton
    <3> QED
      BY <3>2, <3>3
  <2> QED
    BY <2>1, <2>2
<1>3. Awaiting(b) # {} => Refreshing(b) # {}
  BY DEF WaitInv, SomeoneAsks, Awaiting, Refreshing, CallersOf, Asks
<1> QED
  BY <1>2, <1>3

(***************************************************************************)
(* Whatever fails, and however many tabs and calls there are, a call that  *)
(* awaits a renewal has one to wait for, and a tab renews once at a time   *)
(* (refreshInFlight, set before the fetch and cleared in its finally).     *)
(***************************************************************************)
THEOREM SomeoneRenews == EditorSpec => []NobodyWaitsAlone
<1>1. WaitInv /\ [EditorNext]_allVars => WaitInv'
  BY WaitInvNext, EditorAssumption
<1> QED
  BY <1>1, WaitInvInit, NoneWaitsAlone, PTL DEF EditorSpec
-----------------------------------------------------------------------------
(* The browser's steps are steps of the engine's clients, or none. *)
LEMMA EngineStep ==
  ASSUME Inv, [EditorNext]_allVars
  PROVE  [Next]_vars
<1>1. ASSUME NEW c \in Caller, cookie # None, Present(c, cookie) PROVE Next
  <2>1. cookie \in Token
    BY <1>1 DEF Present, Inv, TypeOK
  <2> QED
    BY <1>1, <2>1 DEF Next
<1>2. ASSUME UNCHANGED engineVars PROVE UNCHANGED vars
  BY <1>2 DEF engineVars, rowVars, handlerVars, worldVars, vars
<1>3. ASSUME NEW c \in Caller, AwaitRenewal(c) PROVE [Next]_vars
  BY <1>1, <1>2, <1>3 DEF AwaitRenewal, AskRenewal
<1>4. ASSUME NEW c \in Caller, Act(c) PROVE [Next]_vars
  BY <1>2, <1>3, <1>4
     DEF Act, LoginAnswer, FetchAnswer, Renew, RenewalAnswer, RetryAnswer, RetryRefused
<1>5. ASSUME NEW c \in Caller, NEW a \in Account, Login(c, a) PROVE Next
  BY <1>5 DEF Login, Next
<1>6. ASSUME NEW c \in Caller, Fetch(c) \/ Restore(c) PROVE [Next]_vars
  BY <1>2, <1>3, <1>6 DEF Fetch, Restore
<1>7. ASSUME NEW c \in Caller, Serve(c) \/ ServeFails(c) PROVE Next
  BY <1>7 DEF Serve, ServeFails, Next
<1>8. ASSUME NEW b \in Tab, SignOut(b) \/ AccessExpires(b) PROVE UNCHANGED vars
  BY <1>2, <1>8 DEF SignOut, AccessExpires
<1>9. CASE SessionRunsOut
  BY <1>9 DEF SessionRunsOut, Next
<1>10. CASE UNCHANGED allVars
  BY <1>10 DEF allVars
<1> QED
  BY <1>4, <1>5, <1>6, <1>7, <1>8, <1>9, <1>10 DEF EditorNext

LEMMA EngineInv == EditorSpec => []Inv
<1>1. EditorInit => Inv
  BY InitInv DEF EditorInit
<1>2. Inv /\ [EditorNext]_allVars => Inv'
  BY EngineStep, NextInv
<1> QED
  BY <1>1, <1>2, PTL DEF EditorSpec

(***************************************************************************)
(* The editor asks nothing of the engine but what Sessions describes, so   *)
(* every property of Sessions holds for the browser as well, the forks it  *)
(* does not exclude among them.                                            *)
(***************************************************************************)
THEOREM EditorUsesSessions == EditorSpec => Spec
<1>1. Inv /\ [EditorNext]_allVars => [Next]_vars
  BY EngineStep
<1>2. EditorInit => Init
  BY DEF EditorInit
<1> QED
  BY <1>1, <1>2, EngineInv, PTL DEF EditorSpec, Spec
-----------------------------------------------------------------------------
LEMMA CalmInit == ASSUME EditorInit PROVE Calm
BY DEF EditorInit, Init, AtRest, Key, Calm, NothingEnded, EngineRenews, AnswersAreLive,
   CookieIsGood,
       Pending

(* Steps of a caller the engine is not working for, and which asks nothing. *)
LEMMA PlainCalm ==
  ASSUME Calm, WaitInv, Inv, NEW c \in Caller, UNCHANGED engineVars, cookie' = cookie,
         job[c] \notin {"login", "asks", "asks_bare"},
         NEW j \in {"idle", "sent", "sent_old", "waits", "retry"}, SetJob(c, j),
         j = "sent_old" => cookie # None,
         cookie = None => access' = access
  PROVE  Calm'
<1>1. job'[c] = j /\ \A d \in Caller \ {c} : job'[d] = job[d]
  BY DEF WaitInv, JobsTyped, SetJob
<1>2. Pending' = Pending
  BY <1>1 DEF Pending, engineVars, handlerVars
<1>3. \A d \in Caller : job'[d] \in {"login", "asks"} <=> job[d] \in {"login", "asks"}
  BY <1>1
<1>4. NothingEnded'
  BY <1>1 DEF Calm, NothingEnded, engineVars, worldVars
<1>5. EngineRenews'
  BY <1>1 DEF Calm, EngineRenews, engineVars, handlerVars, rowVars
<1>6. AnswersAreLive'
  BY <1>2 DEF Calm, AnswersAreLive, engineVars, handlerVars, rowVars
<1>7. CookieIsGood'
  BY <1>1 DEF Calm, CookieIsGood, engineVars, rowVars
<1> QED
  BY <1>4, <1>5, <1>6, <1>7 DEF Calm

LEMMA LoginCalm ==
  ASSUME Calm, WaitInv, Inv, NEW c \in Caller, NEW a \in Account, Login(c, a)
  PROVE  Calm'
<1>1. /\ job[c] \in AtRestJob /\ job' = [job EXCEPT ![c] = "login"]
      /\ phase[c] = "idle" /\ phase' = [phase EXCEPT ![c] = "issue"]
      /\ UNCHANGED <<rowVars, worldVars, presented, cookie, access>>
      /\ reply' = [reply EXCEPT ![c] = None]
  BY DEF Login, SetJob, SignIn, Goto, Calm, NothingEnded
<1>2. job'[c] = "login" /\ \A d \in Caller \ {c} : job'[d] = job[d]
  BY <1>1 DEF WaitInv, JobsTyped
<1>3. phase'[c] = "issue" /\ \A d \in Caller \ {c} : phase'[d] = phase[d] /\ reply'[d] = reply[d]
  BY <1>1 DEF Inv, TypeOK
<1>4. presented[c] = None
  BY <1>1 DEF Inv, LocksAreRevocations
<1>5. Pending' = Pending /\ c \notin Pending
  BY <1>1, <1>2, <1>3 DEF Pending, AtRestJob
<1>6. NothingEnded'
  BY <1>1, <1>2 DEF Calm, NothingEnded, worldVars
<1>7. EngineRenews'
  BY <1>1, <1>2, <1>3, <1>4 DEF Calm, EngineRenews, rowVars
<1>8. AnswersAreLive'
  BY <1>1, <1>3, <1>5 DEF Calm, AnswersAreLive, rowVars, Pending
<1>9. CookieIsGood'
  BY <1>1, <1>2 DEF Calm, CookieIsGood, rowVars, AtRestJob
<1> QED
  BY <1>6, <1>7, <1>8, <1>9 DEF Calm

(* A token that arrives is the browser's cookie from now on. *)
LEMMA ArrivalCalm ==
  ASSUME Calm, WaitInv, Inv, NEW c \in Caller, c \in Pending, UNCHANGED engineVars,
         cookie' = reply[c], job'[c] \in {"idle", "retry"},
         \A d \in Caller :
           IF phase[d] = "idle" THEN job'[d] = job[d] \/ job'[d] \in {"idle", "retry"}
           ELSE job'[d] = job[d]
  PROVE  Calm'
<1>1. /\ reply[c] \in Token /\ store[reply[c]] = "live"
      /\ \A d \in Caller : presented[d] # reply[c]
      /\ \A d \in Pending : reply[c] = reply[d] => c = d
  <2>1. \A d \in Pending : reply[d] = reply[c] => d = c
    BY DEF Calm, AnswersAreLive
  <2> QED
    BY <2>1 DEF Calm, AnswersAreLive
<1>2. Pending' \subseteq Pending /\ c \notin Pending'
  BY DEF Pending, engineVars, handlerVars
<1>3. NothingEnded'
  BY DEF Calm, NothingEnded, engineVars, worldVars
<1>4. EngineRenews'
  BY DEF Calm, EngineRenews, engineVars, handlerVars, rowVars
<1>5. AnswersAreLive'
  BY <1>1, <1>2 DEF Calm, AnswersAreLive, engineVars, handlerVars, rowVars, Pending
<1>6. CookieIsGood'
  BY <1>1, SessionsAssumption DEF Calm, CookieIsGood, engineVars, rowVars
<1> QED
  BY <1>3, <1>4, <1>5, <1>6 DEF Calm

LEMMA LoginAnswerCalm ==
  ASSUME Calm, WaitInv, Inv, NEW c \in Caller, LoginAnswer(c)
  PROVE  Calm'
<1>1. c \in Pending /\ UNCHANGED engineVars /\ job' = [job EXCEPT ![c] = "idle"]
  BY DEF LoginAnswer, Answered, Pending, SetJob
<1>2. reply[c] \in Token
  BY <1>1 DEF Calm, AnswersAreLive
<1>3. cookie' = reply[c]
  BY <1>2 DEF LoginAnswer
<1>4. phase[c] = "idle" /\ job'[c] = "idle" /\ \A d \in Caller \ {c} : job'[d] = job[d]
  BY <1>1 DEF Pending, WaitInv, JobsTyped
<1> QED
  BY <1>1, <1>3, <1>4, ArrivalCalm

(* One tab: whoever asks is the only one to. *)
LEMMA OneRenewal ==
  ASSUME WaitInv, AllInOneTab, NEW c \in Caller, NEW d \in Caller, Asks(c), Asks(d)
  PROVE  c = d
BY DEF WaitInv, OneAsks, AllInOneTab

LEMMA RenewalAnswerCalm ==
  ASSUME Calm, WaitInv, Inv, EditorAssumption, AllInOneTab, NEW c \in Caller, RenewalAnswer(c)
  PROVE  Calm'
<1>1. job[c] = "asks" /\ Answered(c) /\ UNCHANGED engineVars
  BY DEF RenewalAnswer, Calm, NothingEnded
<1>2. c \in Pending
  BY <1>1 DEF Answered, Pending
<1>3. reply[c] \in Token /\ reply[c] \notin {Refused, Lost}
  BY <1>2, SessionsAssumption DEF Calm, AnswersAreLive
<1>4. Renewed(c)
  BY <1>1, <1>3 DEF RenewalAnswer, RenewalThrew
<1>5. cookie' = reply[c] /\ Resume(TabOf[c], "retry")
  BY <1>4 DEF Renewed
<1>6. \A d \in Caller : job'[d] = IF d \in Awaiting(TabOf[c]) THEN "retry" ELSE job[d]
  BY <1>5 DEF Resume
<1>7. c \in Awaiting(TabOf[c])
  BY <1>1 DEF Awaiting, Refreshing, CallersOf
<1>8. ASSUME NEW d \in Caller, phase[d] # "idle" PROVE d \notin Awaiting(TabOf[c])
  <2>1. d # c
    BY <1>1, <1>8 DEF Answered
  <2>2. ~Asks(d)
    BY <1>1, <2>1, OneRenewal DEF Asks
  <2>3. job[d] # "waits"
    BY <1>8 DEF Calm, EngineRenews
  <2> QED
    BY <2>2, <2>3 DEF Asks, Awaiting, Refreshing, CallersOf
<1>9. \A d \in Caller :
        IF phase[d] = "idle" THEN job'[d] = job[d] \/ job'[d] \in {"idle", "retry"}
        ELSE job'[d] = job[d]
  BY <1>6, <1>8
<1> QED
  BY <1>1, <1>2, <1>5, <1>6, <1>7, <1>9, ArrivalCalm

(* A caller that finds nobody else renewing presents the cookie. *)
LEMMA AwaitCalm ==
  ASSUME Calm, WaitInv, Inv, AllInOneTab, NEW c \in Caller, UNCHANGED <<cookie, access>>,
         job[c] \notin {"login", "asks", "asks_bare", "waits"}, AwaitRenewal(c), cookie # None
  PROVE  Calm'
<1>1. CASE SetJob(c, "waits") /\ UNCHANGED engineVars
  BY <1>1, PlainCalm
<1>2. CASE Refreshing(TabOf[c]) = {} /\ Present(c, cookie) /\ SetJob(c, "asks")
  <2>1. \A d \in Caller : job[d] # "asks"
    BY <1>2 DEF Refreshing, CallersOf, AllInOneTab
  <2>2. cookie \in Token /\ store[cookie] = "live"
    BY <2>1 DEF Calm, CookieIsGood
  <2>3. /\ phase[c] = "idle" /\ phase' = [phase EXCEPT ![c] = "read"]
        /\ presented' = [presented EXCEPT ![c] = cookie]
        /\ reply' = [reply EXCEPT ![c] = None] /\ UNCHANGED <<rowVars, worldVars>>
        /\ job' = [job EXCEPT ![c] = "asks"]
    BY <1>2 DEF Present, Goto, SetJob
  <2>4. job'[c] = "asks" /\ phase'[c] = "read" /\ presented'[c] = cookie
        /\ \A d \in Caller \ {c} : /\ job'[d] = job[d] /\ phase'[d] = phase[d]
                                   /\ presented'[d] = presented[d] /\ reply'[d] = reply[d]
    BY <2>3 DEF WaitInv, JobsTyped, Inv, TypeOK
  <2>5. presented[c] = None
    BY <2>3 DEF Inv, LocksAreRevocations
  <2>6. Pending' = Pending /\ c \notin Pending
    BY <2>4 DEF Pending
  <2>7. NothingEnded'
    BY <2>3, <2>4 DEF Calm, NothingEnded, worldVars
  <2>8. EngineRenews'
    <3>1. \A t \in Token : holder[t] # c
      <4>1. None \notin Token /\ c # Nobody
        BY SessionsAssumption
      <4> QED
        BY <2>5, <4>1 DEF Calm, EngineRenews
    <3>2. \A t \in Token : holder[t] \in Caller \cup {Nobody}
      BY DEF Inv, TypeOK
    <3>3. \A t \in Token : holder'[t] # Nobody => presented'[holder'[t]] = t
      BY <2>3, <2>4, <3>1, <3>2 DEF Calm, EngineRenews, rowVars
    <3> QED
      BY <2>2, <2>3, <2>4, <3>3 DEF Calm, EngineRenews, rowVars
  <2>9. AnswersAreLive'
    BY <2>3, <2>4, <2>6 DEF Calm, AnswersAreLive, rowVars, Pending
  <2>10. CookieIsGood'
    BY <2>2, <2>3 DEF Calm, CookieIsGood, rowVars
  <2> QED
    BY <2>7, <2>8, <2>9, <2>10 DEF Calm
<1> QED
  BY <1>1, <1>2 DEF AwaitRenewal, AskRenewal

(* The engine moves on: it reads a live token, or finds the account on. *)
LEMMA ReadCalm ==
  ASSUME Calm, Inv, NEW c \in Caller, ReadToken(c) \/ (CheckAccount(c) /\ UNCHANGED rowVars),
         UNCHANGED <<cookie, access, job>>
  PROVE  Calm'
<1>1. /\ phase[c] # "idle"
      /\ \E p \in {"rotate", "issue"} : phase' = [phase EXCEPT ![c] = p]
      /\ phase[c] = "read" => phase' = [phase EXCEPT ![c] = "rotate"]
      /\ phase[c] # "read" => phase' = [phase EXCEPT ![c] = "issue"]
      /\ UNCHANGED <<rowVars, worldVars, presented, reply>>
  <2>1. CASE ReadToken(c)
    <3>1. phase[c] = "read" /\ store[presented[c]] = "live" /\ expired = {}
      BY <2>1 DEF ReadToken, Calm, EngineRenews, NothingEnded
    <3> QED
      BY <2>1, <3>1 DEF ReadToken, Goto
  <2>2. CASE CheckAccount(c) /\ UNCHANGED rowVars
    <3>1. phase[c] = "account" /\ account[c] \in enabled
      BY <2>2 DEF CheckAccount, Inv, TypeOK, Calm, NothingEnded
    <3> QED
      BY <2>2, <3>1 DEF CheckAccount, Goto
  <2> QED
    BY <2>1, <2>2
<1>2. phase'[c] \in {"rotate", "issue"} /\ (phase'[c] = "rotate" => phase[c] = "read")
      /\ \A d \in Caller \ {c} : phase'[d] = phase[d]
  BY <1>1 DEF Inv, TypeOK
<1>3. Pending' = Pending
  BY <1>1, <1>2 DEF Pending
<1>4. NothingEnded' /\ CookieIsGood'
  BY <1>1 DEF Calm, NothingEnded, CookieIsGood, worldVars, rowVars
<1>5. EngineRenews'
  BY <1>1, <1>2 DEF Calm, EngineRenews, rowVars
<1>6. AnswersAreLive'
  BY <1>1, <1>3 DEF Calm, AnswersAreLive, rowVars
<1> QED
  BY <1>4, <1>5, <1>6 DEF Calm

LEMMA RotateCalm ==
  ASSUME Calm, Inv, NEW c \in Caller, Rotate(c), UNCHANGED <<cookie, access, job>>
  PROVE  Calm'
<1>1. /\ phase[c] = "rotate" /\ phase' = [phase EXCEPT ![c] = "account"]
      /\ holder' = [holder EXCEPT ![presented[c]] = c] /\ store' = store
      /\ UNCHANGED <<worldVars, presented, reply>>
  BY DEF Rotate, Goto, WriteRow
<1>2. phase'[c] = "account" /\ \A d \in Caller \ {c} : phase'[d] = phase[d]
  BY <1>1 DEF Inv, TypeOK
<1>3. Pending' = Pending
  BY <1>1, <1>2 DEF Pending
<1>4. NothingEnded' /\ CookieIsGood'
  BY <1>1 DEF Calm, NothingEnded, CookieIsGood, worldVars
<1>5. \A t \in Token : holder'[t] # Nobody => presented[holder'[t]] = t
  BY <1>1 DEF Calm, EngineRenews, Inv, TypeOK
<1>6. EngineRenews'
  BY <1>1, <1>2, <1>5 DEF Calm, EngineRenews
<1>7. AnswersAreLive'
  BY <1>1, <1>3 DEF Calm, AnswersAreLive
<1> QED
  BY <1>4, <1>6, <1>7 DEF Calm

(* The new token is live and nobody else's; of the others only the one that *)
(* was presented changes, and the caller who has it is still to be answered.*)
LEMMA IssueCalm ==
  ASSUME Calm, WaitInv, Inv, AllInOneTab, NEW c \in Caller, Issue(c), reply'[c] # Lost,
         UNCHANGED <<cookie, access, job>>
  PROVE  Calm'
<1>1. PICK t \in Token :
        /\ store[t] = Absent
        /\ store' = [u \in Token |-> IF u = t THEN "live"
                                     ELSE IF holder[u] = c THEN draft[u] ELSE store[u]]
        /\ holder' = Released(c) /\ (Answer(c, t) \/ Answer(c, Lost))
  BY DEF Issue
<1>2. /\ phase[c] = "issue" /\ phase' = [phase EXCEPT ![c] = "idle"]
      /\ presented' = [presented EXCEPT ![c] = None] /\ reply' = [reply EXCEPT ![c] = t]
      /\ UNCHANGED <<expired, enabled>>
  <2>1. reply \in [Caller -> Token \cup {None, Refused, Lost}]
    BY DEF Inv, TypeOK
  <2>2. Answer(c, t)
    BY <1>1, <2>1 DEF Answer
  <2> QED
    BY <2>2 DEF Issue, Answer
<1>3. /\ phase'[c] = "idle" /\ presented'[c] = None /\ reply'[c] = t
      /\ \A d \in Caller \ {c} : /\ phase'[d] = phase[d] /\ presented'[d] = presented[d]
                                 /\ reply'[d] = reply[d]
  BY <1>2 DEF Inv, TypeOK
<1>4. \A u \in Token : holder'[u] = IF holder[u] = c THEN Nobody ELSE holder[u]
  BY <1>1 DEF Released, Key
<1>5. \A u \in Token : u # t /\ holder[u] # c => store'[u] = store[u]
  BY <1>1
<1>6. store'[t] = "live" /\ Absent \notin {"live", "revoked"}
      /\ None \notin Token /\ Nobody \notin Caller
  BY <1>1, SessionsAssumption
<1>7. \A u \in Token : holder[u] = c => u = presented[c]
  BY <1>6 DEF Calm, EngineRenews
<1>8. Pending' = Pending \cup {c} /\ c \notin Pending
  BY <1>2, <1>3 DEF Pending, Calm, EngineRenews
<1>9. t # cookie /\ \A d \in Caller : presented[d] # t
  BY <1>1, <1>6 DEF Calm, CookieIsGood, Inv, LocksAreRevocations
<1>10. \A d \in Pending : reply[d] # t /\ store'[reply[d]] = "live" /\ reply[d] \in Token
  BY <1>1, <1>5, <1>6, <1>7 DEF Calm, AnswersAreLive
<1>11. NothingEnded'
  BY <1>2 DEF Calm, NothingEnded
<1>12. EngineRenews'
  <2>1. ASSUME NEW u \in Token, holder'[u] # Nobody PROVE presented'[holder'[u]] = u
    <3>1. holder[u] # c /\ holder'[u] = holder[u] /\ holder[u] \in Caller
      BY <1>4, <2>1 DEF Inv, TypeOK
    <3> QED
      BY <1>3, <2>1, <3>1 DEF Calm, EngineRenews
  <2>2. ASSUME NEW d \in Caller, phase'[d] \in {"read", "rotate"}
        PROVE  store'[presented'[d]] = "live"
    <3>1. d # c /\ phase[d] \in {"read", "rotate"} /\ presented'[d] = presented[d]
      BY <1>3, <2>2
    <3>2. store[presented[d]] = "live" /\ job[d] = "asks" /\ presented[d] # None
      BY <3>1 DEF Calm, EngineRenews
    <3>3. presented[d] \in Token
      BY <3>2 DEF Inv, TypeOK
    <3>4. job[c] # "asks"
      BY <3>1, <3>2, OneRenewal DEF Asks
    <3>5. presented[c] = None
      BY <1>2, <3>4 DEF Calm, EngineRenews
    <3>6. holder[presented[d]] # c
      BY <1>6, <1>7, <3>3, <3>5
    <3> QED
      BY <1>5, <1>9, <3>1, <3>2, <3>3, <3>6
  <2>3. \A d \in Caller : phase'[d] # "idle" =>
          \/ job'[d] = "login" /\ phase'[d] = "issue" /\ presented'[d] = None
          \/ job'[d] = "asks" /\ phase'[d] \in {"read", "rotate", "account", "issue"}
             /\ presented'[d] # None
    BY <1>3 DEF Calm, EngineRenews
  <2> QED
    BY <2>1, <2>2, <2>3 DEF EngineRenews
<1>13. AnswersAreLive'
  <2> SUFFICES ASSUME NEW d \in Pending'
               PROVE  /\ reply'[d] \in Token /\ store'[reply'[d]] = "live" /\ reply'[d] # cookie
                      /\ \A e \in Caller : presented'[e] # reply'[d]
                      /\ \A e \in Pending' : reply'[e] = reply'[d] => e = d
    BY DEF AnswersAreLive
  <2>1. CASE d = c
    BY <1>3, <1>6, <1>8, <1>9, <1>10, <2>1 DEF Pending
  <2>2. CASE d # c
    <3>1. d \in Pending /\ reply'[d] = reply[d] /\ d \in Caller
      BY <1>3, <1>8, <2>2 DEF Pending
    <3>2. \A e \in Pending : e \in Caller /\ (reply[e] = reply[d] => e = d)
      BY <3>1 DEF Calm, AnswersAreLive, Pending
    <3>3. reply[d] # cookie /\ \A e \in Caller : presented[e] # reply[d]
      BY <3>1 DEF Calm, AnswersAreLive
    <3> QED
      BY <1>3, <1>6, <1>8, <1>10, <3>1, <3>2, <3>3
  <2> QED
    BY <2>1, <2>2
<1>14. CookieIsGood'
  <2>1. ASSUME cookie # None
        PROVE  store'[cookie] # Absent /\ (store'[cookie] = "live" \/ \E d \in Caller : job[d] = "asks")
    <3>1. cookie \in Token /\ store[cookie] # Absent
          /\ (store[cookie] = "live" \/ \E d \in Caller : job[d] = "asks")
      BY <2>1 DEF Calm, CookieIsGood
    <3>2. CASE holder[cookie] = c
      <4>1. job[c] = "asks"
        BY <1>2, <1>7, <2>1, <3>1, <3>2 DEF Calm, EngineRenews
      <4>2. draft[cookie] = "revoked"
        BY <1>6, <3>1, <3>2 DEF Inv, LocksAreRevocations
      <4> QED
        BY <1>1, <1>6, <1>9, <3>1, <3>2, <4>1, <4>2
    <3>3. CASE holder[cookie] # c
      BY <1>5, <1>9, <3>1, <3>3
    <3> QED
      BY <3>2, <3>3
  <2> QED
    BY <2>1 DEF Calm, CookieIsGood
<1> QED
  BY <1>11, <1>12, <1>13, <1>14 DEF Calm

LEMMA ServeCalm ==
  ASSUME Calm, WaitInv, Inv, AllInOneTab, NEW c \in Caller, Serve(c), ~excuse'
  PROVE  Calm'
<1>1. Handle(c) /\ reply'[c] # Lost /\ UNCHANGED <<cookie, access, job>>
  BY DEF Serve
<1>2. CASE ReadToken(c)
  BY <1>1, <1>2, ReadCalm
<1>3. CASE Rotate(c)
  BY <1>1, <1>3, RotateCalm
<1>4. CASE CheckAccount(c)
  <2>1. account[c] \in enabled
    BY <1>4 DEF CheckAccount, Inv, TypeOK, Calm, NothingEnded
  <2>2. UNCHANGED rowVars
    BY <1>4, <2>1 DEF CheckAccount
  <2> QED
    BY <1>1, <1>4, <2>2, ReadCalm
<1>5. CASE Issue(c)
  BY <1>1, <1>5, IssueCalm
<1>6. phase[c] \notin {"end_all", "ending"}
  BY DEF Calm, EngineRenews
<1>7. ~FindLive(c) /\ ~RevokeRow(c) /\ ~CommitEnding(c)
  BY <1>6 DEF FindLive, Goto, RevokeRow, CommitEnding
<1> QED
  BY <1>1, <1>2, <1>3, <1>4, <1>5, <1>7 DEF Handle

LEMMA ActCalm ==
  ASSUME Calm, WaitInv, Inv, EditorAssumption, AllInOneTab, NEW c \in Caller, Act(c), ~excuse'
  PROVE  Calm'
<1>1. CASE LoginAnswer(c)
  BY <1>1, LoginAnswerCalm
<1>2. CASE FetchAnswer(c) \/ RetryAnswer(c)
  BY <1>2, PlainCalm DEF FetchAnswer, RetryAnswer
<1>3. CASE Renew(c)
  <2>1. job[c] = "sent_old" /\ cookie # None
    BY <1>3 DEF Renew, Calm, CookieIsGood
  <2> QED
    BY <1>3, <2>1, AwaitCalm DEF Renew
<1>4. CASE RenewalAnswer(c)
  BY <1>4, RenewalAnswerCalm
<1>5. CASE RetryRefused(c)
  BY <1>5 DEF RetryRefused
<1> QED
  BY <1>1, <1>2, <1>3, <1>4, <1>5 DEF Act

LEMMA CalmNext ==
  ASSUME Calm, WaitInv, Inv, EditorAssumption, AllInOneTab, [EditorNext]_allVars, ~excuse'
  PROVE  Calm'
<1>1. ASSUME NEW c \in Caller, NEW a \in Account, Login(c, a) PROVE Calm'
  BY <1>1, LoginCalm
<1>2. ASSUME NEW c \in Caller, Fetch(c) PROVE Calm'
  <2>1. cookie # None
    BY <1>2 DEF Fetch, EditorAssumption, Calm, CookieIsGood
  <2> QED
    BY <1>2, <2>1, PlainCalm DEF Fetch, AtRestJob
<1>3. ASSUME NEW c \in Caller, Restore(c) PROVE Calm'
  BY <1>3, AwaitCalm DEF Restore, AtRestJob
<1>4. ASSUME NEW c \in Caller, Act(c) PROVE Calm'
  BY <1>4, ActCalm
<1>5. ASSUME NEW c \in Caller, Serve(c) PROVE Calm'
  BY <1>5, ServeCalm
<1>6. ASSUME NEW c \in Caller PROVE ~ServeFails(c)
  BY DEF ServeFails
<1>7. ASSUME NEW b \in Tab, AccessExpires(b) PROVE Calm'
  <2>1. access[b] # None /\ cookie # None
    BY <1>7 DEF AccessExpires, EditorAssumption, Calm, CookieIsGood
  <2>2. Pending' = Pending /\ UNCHANGED <<engineVars, cookie, job>>
    BY <1>7 DEF AccessExpires, Pending, engineVars, handlerVars
  <2> QED
    BY <2>1, <2>2
       DEF Calm, NothingEnded, EngineRenews, AnswersAreLive, CookieIsGood, engineVars,
                      rowVars, handlerVars, worldVars
<1>8. \A b \in Tab : ~SignOut(b)
  BY DEF SignOut
<1>9. ~SessionRunsOut
  BY DEF SessionRunsOut
<1>10. CASE UNCHANGED allVars
  <2>1. Pending' = Pending
    BY <1>10 DEF allVars, vars, editorVars, Pending
  <2> QED
    BY <1>10, <2>1
       DEF allVars, vars, editorVars, Calm, NothingEnded, EngineRenews, AnswersAreLive,
                       CookieIsGood
<1> QED
  BY <1>1, <1>2, <1>3, <1>4, <1>5, <1>6, <1>7, <1>8, <1>9, <1>10 DEF EditorNext

LEMMA ExcuseStays == ASSUME [EditorNext]_allVars, ~excuse' PROVE ~excuse
BY DEF EditorNext, Login, Fetch, Restore, Act, LoginAnswer, FetchAnswer, Renew,
   RenewalAnswer,
       RetryAnswer, RetryRefused, Serve, ServeFails, SignOut, AccessExpires, SessionRunsOut,
       allVars, editorVars

LEMMA CalmInvariance == ASSUME AllInOneTab PROVE EditorSpec => [](WaitInv /\ CalmInv)
<1>1. EditorInit => WaitInv /\ CalmInv
  BY WaitInvInit, CalmInit DEF CalmInv
<1>2. Inv /\ WaitInv /\ CalmInv /\ [EditorNext]_allVars => (WaitInv /\ CalmInv)'
  <2> SUFFICES ASSUME Inv, WaitInv, CalmInv, [EditorNext]_allVars
               PROVE  WaitInv' /\ CalmInv'
    OBVIOUS
  <2>1. WaitInv'
    BY WaitInvNext, EditorAssumption
  <2>2. ASSUME ~excuse' PROVE Calm'
    BY <2>2, ExcuseStays, CalmNext, EditorAssumption DEF CalmInv
  <2> QED
    BY <2>1, <2>2 DEF CalmInv
<1> QED
  BY <1>1, <1>2, EngineInv, PTL DEF EditorSpec

(***************************************************************************)
(* "Concurrent calls share a single refresh": in a browser with one tab,   *)
(* however many calls find the access token expired, none is ever told     *)
(* that it is signed out, unless something happened that ends a session.   *)
(***************************************************************************)
THEOREM OneTabStaysSignedIn ==
  ASSUME AllInOneTab
  PROVE  EditorSpec => []NoNeedlessSignOut
<1>1. CalmInv => NoNeedlessSignOut
  BY DEF CalmInv, Calm, NothingEnded, NoNeedlessSignOut
<1> QED
  BY <1>1, CalmInvariance, PTL

(***************************************************************************)
(* "The new one actually replaces the old cookie": with no renewal under   *)
(* way the cookie such a browser holds is a live session (refresh route).  *)
(***************************************************************************)
THEOREM OneTabKeepsLiveCookie ==
  ASSUME AllInOneTab
  PROVE  EditorSpec => []CookieIsLive
<1>1. CalmInv => CookieIsLive
  BY DEF CalmInv, Calm, CookieIsGood, CookieIsLive
<1> QED
  BY <1>1, CalmInvariance, PTL
-----------------------------------------------------------------------------
(* What the engine has, or has had, of a wave is that wave. *)
OwnDocument(w, d) == d # Absent => d.id = w
StoredAreOwn ==
  /\ stored \in [Wave -> {stored[w] : w \in Wave}]
  /\ \A w \in Wave : OwnDocument(w, stored[w])

LEMMA StoresOwn ==
  ASSUME StoredAreOwn, NEW w, NEW d, d.id = w, waves!Stores(w, d)
  PROVE  StoredAreOwn'
BY DEF StoredAreOwn, OwnDocument, waves!Stores

LEMMA ServeSaveOwn ==
  ASSUME StoredAreOwn, NEW c, waves!ServeSave(c)
  PROVE  StoredAreOwn'
<1>1. CASE waves!Accepted(c.document) /\ c.document.id = c.id
  BY <1>1, StoresOwn DEF waves!ServeSave
<1>2. CASE ~(waves!Accepted(c.document) /\ c.document.id = c.id)
  BY <1>2 DEF waves!ServeSave, StoredAreOwn, OwnDocument
<1> QED
  BY <1>1, <1>2

LEMMA OtherAuthorOwn ==
  ASSUME StoredAreOwn, NEW w \in Wave, waves!OtherAuthor(w)
  PROVE  StoredAreOwn'
<1>1. ASSUME NEW t \in Text, waves!Stores(w, waves!DocumentOf(w, t)) PROVE StoredAreOwn'
  BY <1>1, StoresOwn DEF waves!DocumentOf
<1>2. ASSUME stored' = [stored EXCEPT ![w] = Absent] PROVE StoredAreOwn'
  BY <1>2 DEF StoredAreOwn, OwnDocument
<1> QED
  BY <1>1, <1>2 DEF waves!OtherAuthor

LEMMA ScreenOwn ==
  ASSUME StoredAreOwn, [waves!Next]_(waves!vars)
  PROVE  StoredAreOwn'
<1>1. ASSUME UNCHANGED stored PROVE StoredAreOwn'
  BY <1>1 DEF StoredAreOwn, OwnDocument
<1>2. ASSUME NEW c \in calls,
             \/ waves!ServeOpen(c) \/ waves!ServeSave(c) \/ waves!Refuse(c)
             \/ waves!Opened(c) \/ waves!Saved(c) \/ waves!Failed(c)
      PROVE  StoredAreOwn'
  BY <1>1, <1>2, ServeSaveOwn
     DEF waves!ServeOpen, waves!Refuse, waves!Opened, waves!Saved,
     waves!Failed, waves!Done
<1>3. CASE waves!Author
  <2>1. \A blocks : waves!Edit(blocks) => UNCHANGED stored
    BY DEF waves!Edit
  <2> QED
    BY <1>1, <1>3, <2>1
       DEF waves!Author, waves!selectRule, waves!addBlock, waves!removeBlock,
       waves!moveBlock, waves!resizeBlock, waves!updateBlockConfig
<1>4. CASE waves!save \/ waves!Leave \/ waves!Reload \/ UNCHANGED waves!vars
  BY <1>1, <1>4 DEF waves!save, waves!Leave, waves!Reload, waves!vars
<1>5. ASSUME NEW w \in Wave, waves!Show(w) \/ waves!OtherAuthor(w) PROVE StoredAreOwn'
  BY <1>1, <1>5, OtherAuthorOwn DEF waves!Show
<1> QED
  BY <1>2, <1>3, <1>4, <1>5 DEF waves!Next

(***************************************************************************)
(* No document is ever stored under another wave's id, however many screens*)
(* open on a page, whatever the store holds when one saves, and whenever   *)
(* the answers come (replace_wave compares the id with the path's).        *)
(***************************************************************************)
THEOREM WavesKeepTheirNames == PageSpec => []NoWaveUnderAnothersName
<1>1. PageInit => StoredAreOwn
  BY DEF PageInit, waves!Init, StoredAreOwn, OwnDocument
<1>2. StoredAreOwn /\ [PageNext]_pageVars => StoredAreOwn'
  <2>1. [PageNext]_pageVars => [waves!Next]_(waves!vars)
    BY DEF PageNext, SessionStep, ScreenStep, pageVars, waveVars, waves!vars,
       waves!storeVars
  <2> QED
    BY <2>1, ScreenOwn
<1>3. StoredAreOwn => NoWaveUnderAnothersName
  BY DEF StoredAreOwn, OwnDocument, NoWaveUnderAnothersName, waves!NoWaveUnderAnothersName
<1> QED
  BY <1>1, <1>2, <1>3, PTL DEF PageSpec
-----------------------------------------------------------------------------
(***************************************************************************)
(* What the store shows.  A store that is not dirty was loaded from a      *)
(* document of the engine's and not edited since: the invariant says that  *)
(* its rows are such a document as it was drawn (CleanIsDrawn), and follows*)
(* the documents there through the calls (AnswersAreHeld).  That a sequence*)
(* still plays the same once drawn and written out again is a fact about   *)
(* lists (PlaysTheSame): what comes out is the sequence without the jumps  *)
(* that another overtakes, in its order, and the jump before a block is    *)
(* written anew, so what is left out is what does not play.                *)
(***************************************************************************)

(* What is written part by part. *)
Parts(m, S, parts, g) ==
  /\ g \in [0..m -> Seq(S)] /\ g[0] = <<>>
  /\ \A k \in 1..m : g[k] = g[k - 1] \o parts[k]

(* FlattenSeq writes its parts one after the other. *)
LEMMA Flattened ==
  ASSUME NEW m \in Nat, NEW S, NEW parts \in [1..m -> Seq(S)]
  PROVE  \E g : Parts(m, S, parts, g) /\ waves!FlattenSeq(parts) = g[m]
<1> DEFINE step == [k \in 1..m |-> [s \in Seq(S) |-> s \o parts[k]]]
<1>1. step \in [1..m -> [Seq(S) -> Seq(S)]] /\ <<>> \in Seq(S)
  OBVIOUS
<1>2. \A k \in 1..m : \A s \in Seq(S) : step[k][s] = s \o parts[k]
  OBVIOUS
<1> HIDE DEF step
<1>3. Recurs(m, Seq(S), <<>>, step)
  BY <1>1, Recursion
<1>4. PICK g \in [0..m -> Seq(S)] : g[0] = <<>> /\ \A k \in 1..m : g[k] = step[k][g[k - 1]]
  BY <1>3 DEF Recurs
<1>5. Parts(m, S, parts, g)
  <2>1. \A k \in 1..m : k - 1 \in 0..m
    OBVIOUS
  <2> QED
    BY <1>2, <1>4, <2>1 DEF Parts
<1> DEFINE F(f) == f = [i \in 1..Len(parts) |-> IF i = 1 THEN parts[i] ELSE f[i - 1] \o parts[i]]
           flatten == CHOOSE f : F(f)
           h == [i \in 1..m |-> g[i]]
<1>6. Len(parts) = m /\ parts \in Seq(Seq(S))
  <2>1. parts \in Seq(Seq(S))
    BY SeqDef
  <2> QED
    BY <2>1
<1>6a. \A i \in 1..m : <<>> \o parts[i] = parts[i]
  <2> SUFFICES ASSUME NEW i \in 1..m PROVE <<>> \o parts[i] = parts[i]
    OBVIOUS
  <2>1. parts[i] \in Seq(S)
    OBVIOUS
  <2> QED
    BY <2>1
<1>7. F(h)
  <2>1. ASSUME NEW i \in 1..m PROVE h[i] = IF i = 1 THEN parts[i] ELSE h[i - 1] \o parts[i]
    <3>1. h[i] = g[i] /\ g[i] = g[i - 1] \o parts[i]
      BY <1>5 DEF Parts
    <3>2. i = 1 => g[i - 1] \o parts[i] = parts[i]
      <4> SUFFICES ASSUME i = 1 PROVE g[i - 1] \o parts[i] = parts[i]
        OBVIOUS
      <4>1. i - 1 = 0
        OBVIOUS
      <4>2. g[i - 1] = <<>>
        BY <1>4, <4>1
      <4> QED
        BY <1>6a, <4>2
    <3>3. i # 1 => h[i - 1] = g[i - 1]
      OBVIOUS
    <3> QED
      BY <3>1, <3>2, <3>3
  <2> HIDE DEF h
  <2>2. h = [i \in 1..m |-> h[i]]
    BY DEF h
  <2> QED
    BY <1>6, <2>1, <2>2
<1> HIDE DEF F
<1>8. F(flatten)
  BY <1>7
<1> HIDE DEF flatten, h
<1>9. \A i \in 1..m : flatten[i] = IF i = 1 THEN parts[i] ELSE flatten[i - 1] \o parts[i]
  <2>1. flatten = [i \in 1..Len(parts) |-> IF i = 1 THEN parts[i] ELSE flatten[i - 1] \o parts[i]]
    BY <1>8 DEF F
  <2> QED
    BY <1>6, <2>1
<1>10. \A i \in 0..m : i = 0 \/ flatten[i] = g[i]
  <2> DEFINE T == {i \in 0..m : i = 0 \/ flatten[i] = g[i]}
  <2>1. ASSUME NEW i \in 1..m, i - 1 \in T PROVE i \in T
    <3>1. g[i] = g[i - 1] \o parts[i]
      BY <1>5 DEF Parts
    <3>2. CASE i = 1
      <4>1. flatten[i] = parts[i]
        BY <1>9, <3>2
      <4>2. g[i] = parts[i]
        <5>1. i - 1 = 0
          BY <3>2
        <5> QED
          BY <1>4, <1>6a, <3>1, <5>1
      <4> QED
        BY <4>1, <4>2
    <3>3. CASE i # 1
      <4>1. flatten[i] = flatten[i - 1] \o parts[i]
        BY <1>9, <3>3
      <4>2. flatten[i - 1] = g[i - 1]
        <5>1. i - 1 # 0 /\ i - 1 \in T
          BY <2>1, <3>3
        <5> QED
          BY <5>1
      <4>3. flatten[i] = g[i]
        BY <3>1, <4>1, <4>2, Zenon
      <4> QED
        BY <4>3
    <3> QED
      BY <3>2, <3>3
  <2>2. 0 \in T
    OBVIOUS
  <2> HIDE DEF T
  <2>3. \A i \in 0..m : i \in T
    BY <2>1, <2>2, UpTo
  <2> QED
    BY <2>3 DEF T
<1>11. waves!FlattenSeq(parts) = IF Len(parts) = 0 THEN parts ELSE flatten[Len(parts)]
  BY Zenon DEF waves!FlattenSeq, flatten, F
<1>12. waves!FlattenSeq(parts) = g[m]
  <2>1. CASE m = 0
    <3>1. parts = <<>>
      BY <1>6, <2>1
    <3> QED
      BY <1>4, <1>6, <1>11, <2>1, <3>1
  <2>2. CASE m # 0
    BY <1>6, <1>10, <1>11, <2>2
  <2> QED
    BY <2>1, <2>2
<1> QED
  BY <1>5, <1>12

(* Every jump of a sequence leads somewhere. *)
Directed(s) == \A i \in DOMAIN s : s[i].type = "jump" => s[i].config # Absent

(* The steps a timeline keeps something of: those drawn, and the jumps     *)
(* folded into the next block.  A jump before another is lost.             *)
Shown(s) == {i \in DOMAIN s : i \in waves!Drawn(s) \/ i + 1 \in waves!Drawn(s)}
Shows(s) == [i \in Shown(s) |-> IF i \in waves!Drawn(s) THEN s[i] ELSE waves!Jump(s[i].config)]

(* A jump written anew is a step. *)
LEMMA JumpIsStep ==
  ASSUME waves!WaveEditorAssumption, NEW c \in Configured \cup {Absent}
  PROVE  waves!Jump(c) \in waves!Step
<1>1. "jump" \in STRING
  BY DEF waves!WaveEditorAssumption
<1>2. 0 \in Nat /\ FALSE \in BOOLEAN
  OBVIOUS
<1> QED
  BY <1>1, <1>2 DEF waves!Jump, waves!Step

(* The lists of the wave screen's module are those of Listing. *)
LEMMA SameClosed ==
  ASSUME NEW placed PROVE waves!Closed(placed) = Closed(placed)
BY Zenon DEF waves!Closed, Closed, waves!NthOf, NthOf, waves!Cardinality,
             Cardinality, waves!IsFiniteSet, IsFiniteSet

(* What is drawn and what is shown of a sequence are positions of it. *)
LEMMA DrawnSteps ==
  ASSUME NEW s \in Seq(waves!Step)
  PROVE  /\ DOMAIN s = 1..Len(s) /\ Len(s) \in Nat
         /\ waves!Drawn(s) \in SUBSET (1..Len(s)) /\ waves!Drawn(s) \in SUBSET Nat
         /\ Shown(s) \in SUBSET (1..Len(s)) /\ Shown(s) \in SUBSET Nat
         /\ IsFiniteSet(waves!Drawn(s)) /\ IsFiniteSet(Shown(s))
         /\ waves!Drawn(s) \subseteq Shown(s)
         /\ \A i \in Shown(s) \ waves!Drawn(s) :
              waves!isFoldableJump(s[i]) /\ i + 1 \in waves!Drawn(s)
         /\ \A i \in 1..Len(s) : waves!isFoldableJump(s[i]) /\ i < Len(s) => i \notin waves!Drawn(s)
<1>1. DOMAIN s = 1..Len(s) /\ Len(s) \in Nat
  OBVIOUS
<1>2. IsFiniteSet(1..Len(s))
  BY <1>1, FS_Interval
<1>3. waves!Drawn(s) \in SUBSET (1..Len(s)) /\ Shown(s) \in SUBSET (1..Len(s))
  BY <1>1 DEF waves!Drawn, Shown
<1>4. IsFiniteSet(waves!Drawn(s)) /\ IsFiniteSet(Shown(s))
  BY <1>2, <1>3, FS_Subset
<1>5. waves!Drawn(s) \subseteq Shown(s)
  BY DEF waves!Drawn, Shown
<1>6. \A i \in Shown(s) \ waves!Drawn(s) :
         waves!isFoldableJump(s[i]) /\ i + 1 \in waves!Drawn(s)
  BY DEF waves!Drawn, Shown
<1>7. ASSUME NEW i \in 1..Len(s), waves!isFoldableJump(s[i]), i < Len(s)
      PROVE  i \notin waves!Drawn(s)
  <2>1. i # Len(s)
    <3> DEFINE n == Len(s)
    <3>1. n \in Nat /\ i < n
      BY <1>1, <1>7
    <3> HIDE DEF n
    <3>2. i # n
      BY <3>1
    <3> QED
      BY <3>2 DEF n
  <2> QED
    BY <1>7, <2>1 DEF waves!Drawn
<1>8. 1..Len(s) \subseteq Nat
  BY <1>1
<1> QED
  BY <1>1, <1>3, <1>4, <1>5, <1>6, <1>7, <1>8

(* Block k of a row is the k-th drawn step. *)
LEMMA TimelineIs ==
  ASSUME NEW s \in Seq(waves!Step)
  PROVE  /\ waves!toTimeline(s) \in Seq([step : waves!Step, jumpTo : Configured \cup {Absent}])
         /\ DOMAIN waves!toTimeline(s) = 1..Cardinality(waves!Drawn(s))
         /\ \A k \in 1..Cardinality(waves!Drawn(s)) :
              waves!toTimeline(s)[k] = waves!BlockOf(s, NthOf(waves!Drawn(s), k))
<1> DEFINE D == waves!Drawn(s)
           Block == [step : waves!Step, jumpTo : Configured \cup {Absent}]
           f == [i \in D |-> waves!BlockOf(s, i)]
<1>1. D \in SUBSET (1..Len(s)) /\ D \in SUBSET Nat /\ IsFiniteSet(D) /\ DOMAIN s = 1..Len(s)
  BY DrawnSteps
<1>2. waves!toTimeline(s) = Closed(f)
  BY SameClosed DEF waves!toTimeline
<1>3. ASSUME NEW i \in D PROVE waves!BlockOf(s, i) \in Block
  <2>1. s[i] \in waves!Step
    BY <1>1
  <2>2. waves!JumpTo(s, i) \in Configured \cup {Absent}
    <3>1. i > 1 => s[i - 1] \in waves!Step
      BY <1>1
    <3> QED
      BY <3>1 DEF waves!JumpTo, waves!Step
  <2> QED
    BY <2>1, <2>2 DEF waves!BlockOf
<1> HIDE DEF D, Block
<1>4. f \in [D -> Block]
  BY <1>3
<1>5. \A i \in D : f[i] = waves!BlockOf(s, i)
  OBVIOUS
<1> HIDE DEF f
<1>6. Closed(f) \in Seq(Block)
  BY <1>1, <1>4, ClosedIsList
<1>7. Closed(f) \in [1..Cardinality(D) -> Block]
  BY <1>1, <1>4, ClosedIsList
<1>8. \A k \in 1..Cardinality(D) : Closed(f)[k] = f[NthOf(D, k)]
  BY <1>4, ClosedAt
<1>9. \A k \in 1..Cardinality(D) : NthOf(D, k) \in D
  BY <1>1, Nth
<1> QED
  BY <1>2, <1>5, <1>6, <1>7, <1>8, <1>9 DEF D, Block

(* The part of a sequence that a block is written as. *)
PartOf(block) ==
  IF block.jumpTo = Absent THEN <<block.step>>
  ELSE <<waves!Jump(block.jumpTo), block.step>>

(* How far into a sequence its first k blocks go. *)
Bound(D, k) == IF k = 0 THEN 0 ELSE NthOf(D, k)

(* A block shows its own step and the jump before it, and these follow all *)
(* that the blocks before it show.                                         *)
LEMMA BlockShows ==
  ASSUME NEW s \in Seq(waves!Step), NEW k \in 1..Cardinality(waves!Drawn(s)),
         NEW last, last = NthOf(waves!Drawn(s), k),
         NEW before, before = Bound(waves!Drawn(s), k - 1)
  PROVE  /\ last \in waves!Drawn(s) /\ last \in Nat /\ before \in Nat /\ before < last
         /\ \A i \in Shown(s) : before < i /\ i <= last =>
              i = last \/ (i = last - 1 /\ i \notin waves!Drawn(s))
         /\ last - 1 \in Shown(s) \ waves!Drawn(s)
              <=> last > 1 /\ waves!isFoldableJump(s[last - 1])
         /\ last - 1 \in Shown(s) \ waves!Drawn(s) => before < last - 1
<1> DEFINE D == waves!Drawn(s)
           m == Cardinality(D)
<1>1. /\ D \in SUBSET (1..Len(s)) /\ D \in SUBSET Nat /\ IsFiniteSet(D)
      /\ Shown(s) \in SUBSET Nat /\ Shown(s) \in SUBSET (1..Len(s))
      /\ DOMAIN s = 1..Len(s) /\ Len(s) \in Nat /\ D \subseteq Shown(s)
  BY DrawnSteps
<1>2. \A i \in Shown(s) \ D : waves!isFoldableJump(s[i]) /\ i + 1 \in D
  BY DrawnSteps
<1>3. \A i \in 1..Len(s) : waves!isFoldableJump(s[i]) /\ i < Len(s) => i \notin D
  BY DrawnSteps
<1>4. \A i \in DOMAIN s : i + 1 \in D => i \in Shown(s)
  BY DEF Shown
<1> HIDE DEF D
<1>5. /\ m \in Nat /\ \A n \in 1..m : NthOf(D, n) \in D
      /\ \A t \in D : /\ Cardinality(UpToNumber(D, t)) \in 1..m
                      /\ NthOf(D, Cardinality(UpToNumber(D, t))) = t
  BY <1>1, Nth
<1>6. \A i, j \in 1..m : i < j => NthOf(D, i) < NthOf(D, j)
  BY <1>1, Nth
<1> HIDE DEF m
<1>7. k \in 1..m /\ last \in D /\ last \in Nat
  BY <1>1, <1>5 DEF m, D
<1>8. \/ k = 1 /\ before = 0
      \/ k - 1 \in 1..m /\ before = NthOf(D, k - 1) /\ before \in D
  <2>1. CASE k = 1
    BY <2>1 DEF Bound
  <2>2. CASE k # 1
    <3>1. k - 1 \in 1..m /\ k - 1 # 0
      BY <1>5, <1>7, <2>2
    <3> QED
      BY <1>5, <3>1 DEF Bound, D
  <2> QED
    BY <2>1, <2>2
<1>9. before \in Nat /\ before < last /\ before \notin {last}
  <2>1. CASE k = 1 /\ before = 0
    <3>1. last # 0
      BY <1>1, <1>7
    <3> QED
      BY <1>7, <2>1, <3>1
  <2>2. CASE k - 1 \in 1..m /\ before = NthOf(D, k - 1) /\ before \in D
    <3>1. k - 1 < k
      BY <1>7
    <3>2. before < last
      BY <1>6, <1>7, <2>2, <3>1 DEF D
    <3> QED
      BY <1>1, <1>7, <2>2, <3>2
  <2> QED
    BY <1>8, <2>1, <2>2
(* Nothing is drawn between. *)
<1>10. \A t \in D : before < t /\ t <= last => t = last
  <2> SUFFICES ASSUME NEW t \in D, before < t, t <= last PROVE t = last
    OBVIOUS
  <2>1. PICK n \in 1..m : NthOf(D, n) = t
    BY <1>5
  <2>2. t \in Nat
    BY <1>1
  <2>3. ~(k < n)
    <3>1. k < n => last < t
      BY <1>6, <1>7, <2>1 DEF D
    <3> QED
      BY <1>7, <2>2, <3>1
  <2>4. n \in Nat /\ k \in Nat
    BY <1>5, <1>7, <2>1
  <2>5. CASE n = k
    BY <2>1, <2>5 DEF D
  <2>6. CASE n < k
    <3>1. k - 1 \in 1..m /\ before = NthOf(D, k - 1)
      BY <1>8, <2>1, <2>4, <2>6
    <3>2. n = k - 1 \/ n < k - 1
      BY <2>4, <2>6
    <3>3. t = before \/ t < before
      BY <1>6, <2>1, <3>1, <3>2
    <3> QED
      BY <1>9, <2>2, <3>3
  <2> QED
    BY <2>3, <2>4, <2>5, <2>6
<1>11. ASSUME NEW i \in Shown(s), before < i, i <= last
       PROVE  i = last \/ (i = last - 1 /\ i \notin D)
  <2>1. CASE i \in D
    BY <1>10, <1>11, <2>1
  <2>2. CASE i \notin D
    <3>1. i + 1 \in D /\ i \in Nat
      BY <1>1, <1>2, <2>2
    <3>2. i # last
      BY <1>7, <2>2
    <3>3. before < i + 1 /\ i + 1 <= last
      BY <1>7, <1>9, <1>11, <3>1, <3>2
    <3>4. i + 1 = last
      BY <1>10, <3>1, <3>3
    <3> QED
      BY <1>7, <2>2, <3>1, <3>4
  <2> QED
    BY <2>1, <2>2
<1>12. last - 1 \in Shown(s) \ D <=> last > 1 /\ waves!isFoldableJump(s[last - 1])
  <2>1. ASSUME last - 1 \in Shown(s) \ D PROVE last > 1 /\ waves!isFoldableJump(s[last - 1])
    <3>1. last - 1 \in 1..Len(s)
      BY <1>1, <2>1
    <3>2. last > 1
      BY <1>1, <1>7, <3>1
    <3> QED
      BY <1>2, <2>1, <3>2
  <2>2. ASSUME last > 1, waves!isFoldableJump(s[last - 1]) PROVE last - 1 \in Shown(s) \ D
    <3>1. last \in 1..Len(s)
      BY <1>1, <1>7
    <3> DEFINE n == Len(s)
    <3>2. n \in Nat /\ last \in 1..n
      BY <1>1, <3>1
    <3> HIDE DEF n
    <3>3. last - 1 \in 1..n /\ last - 1 < n /\ (last - 1) + 1 = last
      BY <1>7, <2>2, <3>2
    <3>4. last - 1 \notin D
      BY <1>3, <2>2, <3>3 DEF n
    <3>5. last - 1 \in Shown(s)
      BY <1>1, <1>4, <1>7, <3>3 DEF n
    <3> QED
      BY <3>4, <3>5
  <2> QED
    BY <2>1, <2>2 DEF waves!isFoldableJump
<1>13. last - 1 \in Shown(s) \ D => before < last - 1
  <2> SUFFICES ASSUME last - 1 \in Shown(s) \ D PROVE before < last - 1
    OBVIOUS
  <2>1. last - 1 \in Nat /\ last - 1 \notin D
    BY <1>1
  <2>2. before # last - 1
    <3>1. CASE before \in D
      BY <2>1, <3>1
    <3>2. CASE before = 0
      <4>1. last - 1 \in 1..Len(s)
        BY <1>1
      <4>2. last - 1 # 0
        BY <1>1, <4>1
      <4> QED
        BY <3>2, <4>2
    <3> QED
      BY <1>8, <3>1, <3>2
  <2> QED
    BY <1>7, <1>9, <2>1, <2>2
<1> QED
  BY <1>7, <1>9, <1>11, <1>12, <1>13 DEF D

(* Lists written one and two at a time. *)
LEMMA WrittenOn ==
  ASSUME NEW S, NEW list \in Seq(S), NEW a \in S, NEW b \in S
  PROVE  /\ list \o <<a>> = Append(list, a)
         /\ list \o <<a, b>> = Append(Append(list, a), b)
<1>1. list \o <<a>> = Append(list, a)
  BY AppendIsConcat
<1>2. list \o <<a, b>> = Append(Append(list, a), b)
  OBVIOUS
<1> QED
  BY <1>1, <1>2

(* What a sequence shows up to some step of it. *)
ShownTo(s, bound) == {i \in Shown(s) : i <= bound}

(* The first blocks write what the sequence shows up to the last of them. *)
LEMMA PartShows ==
  ASSUME waves!WaveEditorAssumption, NEW s \in Seq(waves!Step), Directed(s),
         NEW k \in 1..Cardinality(waves!Drawn(s))
  PROVE  Closed(Restrict(Shows(s), ShownTo(s, NthOf(waves!Drawn(s), k)))) =
           Closed(Restrict(Shows(s), ShownTo(s, Bound(waves!Drawn(s), k - 1))))
             \o PartOf(waves!BlockOf(s, NthOf(waves!Drawn(s), k)))
<1> DEFINE D == waves!Drawn(s)
           last == NthOf(D, k)
           before == Bound(D, k - 1)
           upTo == ShownTo(s, last)
           upToLast == ShownTo(s, before)
           block == waves!BlockOf(s, last)
           f == Shows(s)
<1>1. /\ last \in D /\ last \in Nat /\ before \in Nat /\ before < last
      /\ \A i \in Shown(s) : before < i /\ i <= last => i = last \/ (i = last - 1 /\ i \notin D)
      /\ last - 1 \in Shown(s) \ D <=> last > 1 /\ waves!isFoldableJump(s[last - 1])
      /\ last - 1 \in Shown(s) \ D => before < last - 1
  BY BlockShows
<1>2. /\ Shown(s) \in SUBSET Nat /\ IsFiniteSet(Shown(s)) /\ D \subseteq Shown(s)
      /\ DOMAIN s = 1..Len(s) /\ Shown(s) \in SUBSET (1..Len(s))
  BY DrawnSteps
<1>3. f \in [Shown(s) -> waves!Step]
  <2>1. ASSUME NEW i \in Shown(s) PROVE s[i] \in waves!Step /\ s[i].config \in Configured \cup {Absent}
    <3>1. s[i] \in waves!Step
      BY <1>2
    <3> QED
      BY <3>1 DEF waves!Step
  <2>2. ASSUME NEW i \in Shown(s) PROVE waves!Jump(s[i].config) \in waves!Step
    BY <2>1, JumpIsStep
  <2> QED
    BY <2>1, <2>2 DEF Shows
<1>4. f[last] = s[last] /\ s[last] \in waves!Step
  BY <1>1, <1>2 DEF Shows
<1>5. block = [step |-> s[last], jumpTo |-> waves!JumpTo(s, last)]
  BY DEF waves!BlockOf, block
<1>6. /\ upTo \subseteq Shown(s) /\ upToLast \subseteq Shown(s)
      /\ upTo = {i \in Shown(s) : i <= last} /\ upToLast = {i \in Shown(s) : i <= before}
  BY DEF ShownTo
<1> HIDE DEF upTo, upToLast, block
<1> DEFINE rest == upTo \ {last}
<1>7. /\ upTo \in SUBSET Nat /\ IsFiniteSet(upTo) /\ last \in upTo /\ \A t \in upTo : t <= last
      /\ upToLast \in SUBSET Nat /\ IsFiniteSet(upToLast)
      /\ rest \in SUBSET Nat /\ IsFiniteSet(rest)
  BY <1>1, <1>2, <1>6, FS_Subset
<1>8. /\ Restrict(f, upTo) \in [upTo -> waves!Step] /\ Restrict(f, upTo)[last] = s[last]
      /\ Restrict(Restrict(f, upTo), rest) = Restrict(f, rest)
      /\ Restrict(f, rest) \in [rest -> waves!Step]
      /\ Restrict(f, upToLast) \in [upToLast -> waves!Step]
  BY <1>3, <1>4, <1>6, <1>7 DEF Restrict
<1> HIDE DEF D, last, before, f, rest
<1>9. Closed(Restrict(f, upTo)) = Append(Closed(Restrict(f, rest)), s[last])
  <2> DEFINE g == Restrict(f, upTo)
  <2>0. /\ upTo \in SUBSET Nat /\ IsFiniteSet(upTo) /\ g \in [upTo -> waves!Step]
        /\ last \in upTo /\ \A t \in upTo : t <= last
    BY <1>7, <1>8
  <2> HIDE DEF g
  <2>1. Closed(g) = Append(Closed(Restrict(g, upTo \ {last})), g[last])
    BY <2>0, ClosedLast
  <2> QED
    BY <1>8, <2>1 DEF g, rest
<1>10. Closed(Restrict(f, upToLast)) \in Seq(waves!Step)
  BY <1>7, <1>8, ClosedIsList
<1> DEFINE Goal == Closed(Restrict(f, upTo)) = Closed(Restrict(f, upToLast)) \o PartOf(block)
<1>11. ASSUME ~(last > 1 /\ waves!isFoldableJump(s[last - 1])) PROVE Goal
  <2>1. rest = upToLast
    <3>1. ASSUME NEW i \in rest PROVE i \in upToLast
      <4>1. i \in Shown(s) /\ i <= last /\ i # last /\ i \in Nat
        BY <1>2, <1>6 DEF rest
      <4>2. ~(i = last - 1 /\ i \notin D)
        BY <1>1, <1>11, <4>1
      <4>3. ~(before < i)
        BY <1>1, <4>1, <4>2
      <4> QED
        BY <1>1, <1>6, <4>1, <4>3
    <3>2. ASSUME NEW i \in upToLast PROVE i \in rest
      <4>1. i \in Nat /\ i <= before /\ i \in Shown(s)
        BY <1>2, <1>6
      <4>2. i <= last /\ i # last
        BY <1>1, <4>1
      <4> QED
        BY <1>6, <4>1, <4>2 DEF rest
    <3> QED
      BY <3>1, <3>2
  <2>2. PartOf(block) = <<s[last]>>
    <3>1. waves!JumpTo(s, last) = Absent
      BY <1>11 DEF waves!JumpTo
    <3> QED
      BY <1>5, <3>1 DEF PartOf
  <2>3. Closed(Restrict(f, upToLast)) \o <<s[last]>> = Append(Closed(Restrict(f, upToLast)), s[last])
    BY <1>4, <1>10, WrittenOn
  <2> QED
    BY <1>9, <2>1, <2>2, <2>3
<1>12. ASSUME last > 1, waves!isFoldableJump(s[last - 1]) PROVE Goal
  <2> DEFINE jump == last - 1
             target == s[jump].config
  <2>1. jump \in Shown(s) \ D /\ before < jump /\ jump \in Nat /\ jump < last /\ jump <= last
    BY <1>1, <1>2, <1>12
  <2>2. target # Absent /\ f[jump] = waves!Jump(target) /\ f[jump] \in waves!Step
    <3>1. jump \in DOMAIN s /\ s[jump].type = "jump"
      BY <1>2, <1>12, <2>1 DEF waves!isFoldableJump
    <3>2. target # Absent
      BY <3>1 DEF Directed
    <3>3. f[jump] = waves!Jump(target)
      BY <2>1 DEF f, Shows, D
    <3> QED
      BY <1>3, <2>1, <3>2, <3>3
  <2>3. PartOf(block) = <<waves!Jump(target), s[last]>>
    <3>1. waves!JumpTo(s, last) = target
      BY <1>12 DEF waves!JumpTo
    <3> QED
      BY <1>5, <2>2, <3>1 DEF PartOf
  <2> HIDE DEF target, jump
  <2>4. jump \in rest /\ \A t \in rest : t <= jump
    <3>1. jump \in rest
      BY <1>1, <1>6, <2>1 DEF rest
    <3>2. ASSUME NEW t \in rest PROVE t <= jump
      <4>1. t \in Nat /\ t <= last /\ t # last
        BY <1>2, <1>6 DEF rest
      <4> QED
        BY <1>1, <4>1 DEF jump
    <3> QED
      BY <3>1, <3>2
  <2>5. rest \ {jump} = upToLast
    <3>1. ASSUME NEW i \in rest, i # jump PROVE i \in upToLast
      <4>1. i \in Shown(s) /\ i <= last /\ i # last /\ i \in Nat
        BY <1>2, <1>6 DEF rest
      <4>2. ~(before < i)
        BY <1>1, <3>1, <4>1 DEF jump
      <4> QED
        BY <1>1, <1>6, <4>1, <4>2
    <3>2. ASSUME NEW i \in upToLast PROVE i \in rest /\ i # jump
      <4>1. i \in Nat /\ i <= before /\ i \in Shown(s)
        BY <1>2, <1>6
      <4>2. i <= last /\ i # last /\ i # jump
        BY <1>1, <2>1, <4>1
      <4> QED
        BY <1>6, <4>1, <4>2 DEF rest
    <3> QED
      BY <3>1, <3>2
  <2>6. /\ Restrict(f, rest)[jump] = waves!Jump(target)
        /\ Restrict(Restrict(f, rest), rest \ {jump}) = Restrict(f, upToLast)
    BY <2>2, <2>4, <2>5 DEF Restrict
  <2>7. Closed(Restrict(f, rest)) =
          Append(Closed(Restrict(Restrict(f, rest), rest \ {jump})), Restrict(f, rest)[jump])
    BY <1>7, <1>8, <2>4, ClosedLast
  <2>8. Closed(Restrict(f, rest)) = Append(Closed(Restrict(f, upToLast)), waves!Jump(target))
    BY <2>6, <2>7
  <2>9. Closed(Restrict(f, upToLast)) \o <<waves!Jump(target), s[last]>> =
          Append(Append(Closed(Restrict(f, upToLast)), waves!Jump(target)), s[last])
    BY <1>4, <1>10, <2>2, WrittenOn
  <2> QED
    BY <1>9, <2>3, <2>8, <2>9
<1>13. Goal
  BY <1>11, <1>12 DEF waves!isFoldableJump
<1> QED
  BY <1>13 DEF f, upTo, upToLast, block, last, before, D

Block == [step : waves!Step, jumpTo : Configured \cup {Absent}]

(* A block is written as one step or two. *)
LEMMA PartIsList ==
  ASSUME waves!WaveEditorAssumption, NEW block \in Block
  PROVE  PartOf(block) \in Seq(waves!Step)
<1>1. block.step \in waves!Step /\ waves!Jump(block.jumpTo) \in waves!Step
  BY JumpIsStep DEF Block
<1> QED
  BY <1>1 DEF PartOf

(* toSequence writes a row block by block. *)
LEMMA WrittenIs ==
  ASSUME waves!WaveEditorAssumption, NEW blocks \in Seq(Block)
  PROVE  \E g : /\ g \in [0..Len(blocks) -> Seq(waves!Step)] /\ g[0] = <<>>
                /\ \A k \in 1..Len(blocks) : g[k] = g[k - 1] \o PartOf(blocks[k])
                /\ waves!toSequence(blocks) = g[Len(blocks)]
<1> DEFINE m == Len(blocks)
           parts == [k \in DOMAIN blocks |-> PartOf(blocks[k])]
<1>1. m \in Nat /\ DOMAIN blocks = 1..m /\ \A k \in 1..m : blocks[k] \in Block
  OBVIOUS
<1>2. waves!toSequence(blocks) = waves!FlattenSeq(parts)
  BY DEF waves!toSequence, PartOf
<1>3. parts \in [1..m -> Seq(waves!Step)] /\ \A k \in 1..m : parts[k] = PartOf(blocks[k])
  BY <1>1, PartIsList
<1> HIDE DEF parts, m
<1>4. PICK g : Parts(m, waves!Step, parts, g) /\ waves!FlattenSeq(parts) = g[m]
  BY <1>1, <1>3, Flattened
<1>5. /\ g \in [0..m -> Seq(waves!Step)] /\ g[0] = <<>>
      /\ \A k \in 1..m : g[k] = g[k - 1] \o PartOf(blocks[k])
  BY <1>3, <1>4 DEF Parts
<1> QED
  BY <1>2, <1>4, <1>5 DEF m

(* What is written of a row is a sequence of steps. *)
LEMMA WrittenIsList ==
  ASSUME waves!WaveEditorAssumption, NEW blocks \in Seq(Block)
  PROVE  waves!toSequence(blocks) \in Seq(waves!Step)
<1>1. PICK g : /\ g \in [0..Len(blocks) -> Seq(waves!Step)]
               /\ waves!toSequence(blocks) = g[Len(blocks)]
  BY WrittenIs
<1>2. Len(blocks) \in Nat
  OBVIOUS
<1>3. Len(blocks) \in 0..Len(blocks)
  <2> DEFINE m == Len(blocks)
  <2>1. m \in Nat
    BY <1>2
  <2> HIDE DEF m
  <2>2. m \in 0..m
    BY <2>1
  <2> QED
    BY <2>2 DEF m
<1> QED
  BY <1>1, <1>3

(* Nothing closes up to the empty list. *)
LEMMA ClosedNothing == ASSUME NEW f, DOMAIN f = {} PROVE Closed(f) = <<>>
<1>1. Cardinality({}) = 0
  BY FS_EmptySet
<1>2. Closed(f) = [n \in 1..0 |-> f[NthOf({}, n)]]
  BY <1>1 DEF Closed
<1> QED
  BY <1>2

(* What is drawn and written again is what the timeline shows. *)
LEMMA Rewritten ==
  ASSUME waves!WaveEditorAssumption, NEW s \in Seq(waves!Step), Directed(s)
  PROVE  waves!toSequence(waves!toTimeline(s)) = Closed(Shows(s))
<1> DEFINE blocks == waves!toTimeline(s)
           D == waves!Drawn(s)
           m == Cardinality(D)
           Q(k) == ShownTo(s, Bound(D, k))
<1>1. /\ blocks \in Seq(Block) /\ DOMAIN blocks = 1..m
      /\ \A k \in 1..m : blocks[k] = waves!BlockOf(s, NthOf(D, k))
  BY TimelineIs DEF Block
<1>2. /\ D \in SUBSET Nat /\ IsFiniteSet(D) /\ Shown(s) \in SUBSET (1..Len(s))
      /\ D \subseteq Shown(s) /\ Shown(s) \in SUBSET Nat
      /\ \A i \in Shown(s) \ D : i + 1 \in D
  BY DrawnSteps
<1>3. m \in Nat
  BY <1>2, Nth
<1>4. Len(blocks) = m
  BY <1>1, <1>3
<1>5. PICK g : /\ g[0] = <<>>
               /\ \A k \in 1..m : g[k] = g[k - 1] \o PartOf(blocks[k])
               /\ waves!toSequence(blocks) = g[m]
  BY <1>1, <1>4, WrittenIs
<1> DEFINE T == {k \in 0..m : g[k] = Closed(Restrict(Shows(s), Q(k)))}
<1>6. 0 \in T
  <2>1. Q(0) = {}
    BY <1>2 DEF Bound, ShownTo
  <2>2. Closed(Restrict(Shows(s), {})) = <<>>
    BY ClosedNothing DEF Restrict
  <2> DEFINE q == Q(0)
  <2>3. q = {}
    BY <2>1
  <2> HIDE DEF q
  <2>4. g[0] = Closed(Restrict(Shows(s), q))
    BY <1>5, <2>2, <2>3
  <2> QED
    BY <1>3, <2>4 DEF q
<1>7. ASSUME NEW k \in 1..m, k - 1 \in T PROVE k \in T
  <2>1. g[k] = g[k - 1] \o PartOf(blocks[k]) /\ g[k - 1] = Closed(Restrict(Shows(s), Q(k - 1)))
    BY <1>5, <1>7
  <2>2. Bound(D, k) = NthOf(D, k)
    BY DEF Bound
  <2>3. blocks[k] = waves!BlockOf(s, NthOf(D, k))
    BY <1>1
  <2>4. k \in 1..Cardinality(waves!Drawn(s))
    OBVIOUS
  <2>5. Closed(Restrict(Shows(s), ShownTo(s, NthOf(D, k)))) =
          Closed(Restrict(Shows(s), Q(k - 1))) \o PartOf(waves!BlockOf(s, NthOf(D, k)))
    BY <2>4, PartShows
  <2>6. g[k] = Closed(Restrict(Shows(s), Q(k)))
    BY <2>1, <2>2, <2>3, <2>5
  <2>7. k \in 0..m
    BY <1>3
  <2> QED
    BY <2>6, <2>7
<1> HIDE DEF T
<1>8. \A k \in 0..m : k \in T
  BY <1>3, <1>6, <1>7, UpTo
<1>9. g[m] = Closed(Restrict(Shows(s), Q(m)))
  <2>1. m \in 0..m
    BY <1>3
  <2> QED
    BY <1>8, <2>1 DEF T
<1>10. Q(m) = Shown(s)
  <2> SUFFICES ASSUME NEW i \in Shown(s) PROVE i <= Bound(D, m)
    BY DEF ShownTo
  <2>1. \A t \in D : t <= Bound(D, m) /\ Bound(D, m) \in Nat
    <3> SUFFICES ASSUME NEW t \in D PROVE t <= Bound(D, m) /\ Bound(D, m) \in Nat
      OBVIOUS
    <3>1. PICK n \in 1..m : NthOf(D, n) = t
      BY <1>2, Nth
    <3>2. m \in 1..m /\ m # 0 /\ (n = m \/ n < m)
      BY <1>3, <3>1
    <3>3. n < m => NthOf(D, n) < NthOf(D, m)
      BY <1>2, <3>2, Nth
    <3>4. NthOf(D, m) \in D
      BY <1>2, <3>2, Nth
    <3>5. NthOf(D, m) \in Nat /\ t \in Nat
      BY <1>2, <3>4
    <3>6. Bound(D, m) = NthOf(D, m)
      BY <3>2 DEF Bound
    <3> HIDE DEF m
    <3> QED
      BY <3>1, <3>2, <3>3, <3>5, <3>6
  <2>2. i \in D \/ i + 1 \in D
    BY <1>2
  <2>3. i \in Nat
    BY <1>2
  <2> HIDE DEF m, D
  <2> QED
    BY <2>1, <2>2, <2>3
<1>11. Restrict(Shows(s), Shown(s)) = Shows(s)
  BY DEF Restrict, Shows
<1> QED
  BY <1>5, <1>9, <1>10, <1>11

(* A jump written anew takes no time, so it folds. *)
LEMMA JumpFolds ==
  ASSUME NEW c
  PROVE  waves!isFoldableJump(waves!Jump(c)) /\ waves!Jump(c).config = c
BY DEF waves!isFoldableJump, waves!Jump

(* Drawing a sequence and writing it out again changes nothing that plays. *)
LEMMA PlaysTheSame ==
  ASSUME waves!WaveEditorAssumption, NEW s \in Seq(waves!Step), Directed(s)
  PROVE  waves!Played(waves!toSequence(waves!toTimeline(s))) = waves!Played(s)
<1> DEFINE D == waves!Drawn(s)
           Q == Shown(s)
           f == Shows(s)
           list == Closed(f)
           m == Cardinality(Q)
           U == waves!Playing(s)
           stay == {n \in 1..m : NthOf(Q, n) \in U}
           h == [i \in Q |-> waves!AsPlayed(s[i])]
           S == waves!Step
<1>1. /\ Q \in SUBSET (1..Len(s)) /\ Q \in SUBSET Nat /\ IsFiniteSet(Q) /\ D \subseteq Q
      /\ DOMAIN s = 1..Len(s) /\ Len(s) \in Nat
      /\ D \in SUBSET (1..Len(s))
      /\ \A i \in Q \ D : waves!isFoldableJump(s[i]) /\ i + 1 \in D
      /\ \A i \in 1..Len(s) : waves!isFoldableJump(s[i]) /\ i < Len(s) => i \notin D
  BY DrawnSteps
<1>2. \A i \in 1..Len(s) : ~waves!isFoldableJump(s[i]) \/ i = Len(s) => i \in D
  BY <1>1 DEF waves!Drawn
<1>3. \A i \in DOMAIN s : i + 1 \in D => i \in Q
  BY DEF Shown
<1>4. \A i \in Q : f[i] = IF i \in D THEN s[i] ELSE waves!Jump(s[i].config)
  BY DEF Shows
<1>5. \A i \in Q : /\ waves!isFoldableJump(f[i]) <=> waves!isFoldableJump(s[i])
                   /\ waves!AsPlayed(f[i]) = waves!AsPlayed(s[i])
  <2> SUFFICES ASSUME NEW i \in Q
               PROVE  /\ waves!isFoldableJump(f[i]) <=> waves!isFoldableJump(s[i])
                      /\ waves!AsPlayed(f[i]) = waves!AsPlayed(s[i])
    OBVIOUS
  <2> HIDE DEF f, D, Q
  <2>1. CASE i \in D
    <3>1. f[i] = s[i]
      BY <1>4, <2>1
    <3> QED
      BY <3>1 DEF waves!isFoldableJump
  <2>2. CASE i \notin D
    <3>1. f[i] = waves!Jump(s[i].config) /\ waves!isFoldableJump(s[i])
      BY <1>1, <1>4, <2>2
    <3>2. waves!isFoldableJump(f[i]) /\ f[i].config = s[i].config
      BY <3>1, JumpFolds
    <3> QED
      BY <3>1, <3>2 DEF waves!AsPlayed, waves!isFoldableJump
  <2> QED
    BY <2>1, <2>2
<1>6. U = {i \in 1..Len(s) : waves!isFoldableJump(s[i]) /\ i < Len(s)
                               => ~waves!isFoldableJump(s[i + 1])}
  BY <1>1 DEF waves!Playing
<1>7. U \in SUBSET Q
  <2> SUFFICES ASSUME NEW i \in U PROVE i \in Q
    OBVIOUS
  <2>1. i \in 1..Len(s) /\ (waves!isFoldableJump(s[i]) /\ i < Len(s) => ~waves!isFoldableJump(s[i + 1]))
    BY <1>6
  <2>2. CASE ~waves!isFoldableJump(s[i]) \/ i = Len(s)
    BY <1>1, <1>2, <2>1, <2>2
  <2>3. CASE waves!isFoldableJump(s[i]) /\ i # Len(s)
    <3> DEFINE n == Len(s)
    <3>1. n \in Nat /\ i \in 1..n /\ i # n
      BY <1>1, <2>1, <2>3
    <3> HIDE DEF n
    <3>2. i < n /\ i + 1 \in 1..n
      BY <3>1
    <3>3. i + 1 \in D
      BY <1>2, <2>1, <2>3, <3>2 DEF n
    <3> QED
      BY <1>1, <1>3, <2>1, <3>3
  <2> QED
    BY <2>2, <2>3
<1>8. f \in [Q -> S]
  <2>1. ASSUME NEW i \in Q PROVE s[i] \in S /\ waves!Jump(s[i].config) \in S
    <3>1. s[i] \in S
      BY <1>1
    <3>2. s[i].config \in Configured \cup {Absent}
      BY <3>1 DEF waves!Step
    <3> QED
      BY <3>1, <3>2, JumpIsStep
  <2> QED
    BY <2>1 DEF Shows
<1> HIDE DEF f, Q, U, S, D
<1>9. list \in Seq(S)
  BY <1>1, <1>8, ClosedIsList
<1>10. list \in [1..m -> S]
  BY <1>1, <1>8, ClosedIsList
<1>11. \A n \in 1..m : list[n] = f[NthOf(Q, n)]
  BY <1>8, ClosedAt
<1>12. m \in Nat /\ \A n \in 1..m : NthOf(Q, n) \in Q
  BY <1>1, Nth
<1>13. \A i, j \in 1..m : i < j => NthOf(Q, i) < NthOf(Q, j)
  BY <1>1, Nth
<1>14. \A i \in Q : \E n \in 1..m : NthOf(Q, n) = i
  BY <1>1, Nth
<1> HIDE DEF list, m
<1>15. DOMAIN list = 1..m /\ Len(list) = m
  BY <1>9, <1>10, <1>12
<1>16. ASSUME NEW n \in 1..m PROVE n < m <=> NthOf(Q, n) < Len(s)
  <2> DEFINE l == Len(s)
  <2>1. l \in Nat /\ NthOf(Q, n) \in 1..l /\ m \in 1..m /\ NthOf(Q, m) \in 1..l
    <3>1. m \in 1..m
      BY <1>12
    <3> QED
      BY <1>1, <1>12, <3>1
  <2>2. \E k \in 1..m : NthOf(Q, k) = l
    <3>1. l \in 1..Len(s)
      <4> HIDE DEF l
      <4>1. l \in 1..l
        BY <2>1
      <4> QED
        BY <4>1 DEF l
    <3>2. l \in Q
      BY <1>1, <1>2, <3>1
    <3> QED
      BY <1>14, <3>2
  <2> HIDE DEF l
  <2>3. PICK k \in 1..m : NthOf(Q, k) = l
    BY <2>2
  <2>4. k = m
    <3>1. k < m => l < NthOf(Q, m)
      BY <1>13, <2>1, <2>3
    <3> QED
      BY <1>12, <2>1, <3>1
  <2>5. n < m => NthOf(Q, n) < l
    BY <1>13, <2>1, <2>3, <2>4
  <2>6. n = m => ~(NthOf(Q, n) < l)
    BY <2>1, <2>3, <2>4
  <2>7. n < m \/ n = m
    BY <1>12
  <2>8. n < m <=> NthOf(Q, n) < l
    BY <1>12, <2>5, <2>6, <2>7
  <2> QED
    BY <2>8 DEF l
(* After a jump that is shown comes what the jump was before. *)
<1>17. ASSUME NEW n \in 1..m, n < m, waves!isFoldableJump(s[NthOf(Q, n)])
       PROVE  n + 1 \in 1..m /\ NthOf(Q, n + 1) = NthOf(Q, n) + 1
  <2> DEFINE i == NthOf(Q, n)
  <2>1. n + 1 \in 1..m /\ n < n + 1
    BY <1>12, <1>17
  <2>2. i \in Q /\ i < Len(s) /\ i \in Nat /\ i \in 1..Len(s)
    BY <1>1, <1>12, <1>16, <1>17
  <2>3. i \notin D
    BY <1>1, <1>17, <2>2
  <2>4. i + 1 \in Q
    BY <1>1, <2>2, <2>3
  <2>5. PICK k \in 1..m : NthOf(Q, k) = i + 1
    BY <1>14, <2>4
  <2>6. NthOf(Q, n + 1) \in Nat /\ i < NthOf(Q, n + 1)
    BY <1>1, <1>12, <1>13, <2>1
  <2> HIDE DEF i
  <2>7. ~(k < n + 1)
    <3>1. k < n => NthOf(Q, k) < i
      BY <1>13, <2>5 DEF i
    <3>2. k # n
      BY <2>2, <2>5 DEF i
    <3> QED
      BY <1>12, <2>2, <2>5, <3>1, <3>2
  <2>8. ~(n + 1 < k)
    <3>1. n + 1 < k => NthOf(Q, n + 1) < i + 1
      BY <1>13, <2>1, <2>5
    <3> QED
      BY <2>2, <2>6, <3>1
  <2>9. k = n + 1
    BY <1>12, <2>7, <2>8
  <2> QED
    BY <2>1, <2>5, <2>9 DEF i
<1>18. waves!Playing(list) = stay
  <2>1. ASSUME NEW n \in 1..m
        PROVE  (waves!isFoldableJump(list[n]) /\ n < m => ~waves!isFoldableJump(list[n + 1]))
                 <=> NthOf(Q, n) \in U
    <3> DEFINE i == NthOf(Q, n)
    <3>1. i \in Q /\ i \in 1..Len(s) /\ list[n] = f[i]
      BY <1>1, <1>11, <1>12
    <3>2. waves!isFoldableJump(list[n]) <=> waves!isFoldableJump(s[i])
      BY <1>5, <3>1
    <3>3. n < m <=> i < Len(s)
      BY <1>16
    <3>4. CASE waves!isFoldableJump(s[i]) /\ n < m
      <4>1. n + 1 \in 1..m /\ NthOf(Q, n + 1) = i + 1
        BY <1>17, <3>4
      <4>2. i + 1 \in Q /\ list[n + 1] = f[i + 1]
        BY <1>11, <1>12, <4>1
      <4>3. waves!isFoldableJump(list[n + 1]) <=> waves!isFoldableJump(s[i + 1])
        BY <1>5, <4>2
      <4> QED
        BY <1>6, <3>1, <3>2, <3>3, <3>4, <4>3 DEF waves!isFoldableJump
    <3>5. CASE ~(waves!isFoldableJump(s[i]) /\ n < m)
      BY <1>6, <3>1, <3>2, <3>3, <3>5 DEF waves!isFoldableJump
    <3> QED
      BY <3>4, <3>5
  <2>2. waves!Playing(list) = {n \in 1..m : waves!isFoldableJump(list[n]) /\ n < m
                                            => ~waves!isFoldableJump(list[n + 1])}
    BY <1>15 DEF waves!Playing
  <2> QED
    BY <2>1, <2>2
<1>19. h \in [Q -> {waves!AsPlayed(s[i]) : i \in Q}]
  OBVIOUS
<1> DEFINE P == {waves!AsPlayed(s[i]) : i \in Q}
<1>20. \A i \in Q : h[i] = waves!AsPlayed(s[i])
  OBVIOUS
<1> HIDE DEF h, stay, P
<1>21. h \in [Q -> P]
  BY <1>19 DEF P
<1>22. \A n \in 1..m : Closed(h)[n] = waves!AsPlayed(list[n])
  <2>1. \A n \in 1..m : Closed(h)[n] = h[NthOf(Q, n)]
    BY <1>21, ClosedAt DEF m
  <2> QED
    BY <1>5, <1>11, <1>12, <1>20, <2>1
<1>23. Closed(Restrict(Closed(h), stay)) = Closed(Restrict(h, U))
  <2>1. stay = Staying(Q, U)
    BY DEF stay, m, Staying
  <2> QED
    <3>1. Q \in SUBSET Nat /\ IsFiniteSet(Q) /\ h \in [Q -> P] /\ U \in SUBSET Q
      BY <1>1, <1>7, <1>21
    <3> QED
      BY <2>1, <3>1, ClosedTwice
<1>24. waves!Played(list) = Closed(Restrict(Closed(h), stay))
  <2>1. [n \in stay |-> waves!AsPlayed(list[n])] = Restrict(Closed(h), stay)
    <3>1. stay \subseteq 1..m
      BY DEF stay
    <3> QED
      BY <1>22, <3>1 DEF Restrict
  <2>2. waves!Played(list) = Closed([n \in stay |-> waves!AsPlayed(list[n])])
    BY <1>18, SameClosed DEF waves!Played
  <2> QED
    BY <2>1, <2>2
<1>25. waves!Played(s) = Closed(Restrict(h, U))
  <2>1. [i \in U |-> waves!AsPlayed(s[i])] = Restrict(h, U)
    BY <1>7, <1>20 DEF Restrict
  <2>2. waves!Played(s) = Closed([i \in U |-> waves!AsPlayed(s[i])])
    BY SameClosed DEF waves!Played, U
  <2> QED
    BY <2>1, <2>2
<1>26. waves!toSequence(waves!toTimeline(s)) = list
  BY Rewritten DEF list, f
<1> QED
  BY <1>23, <1>24, <1>25, <1>26

Documents == [id : Wave, spawn_rules : Seq(Seq(waves!Step))]
Call == [kind : {"open", "save"}, screen : Nat, id : Wave, document : Documents \cup {Absent},
         status : {"sent", "ok", "refused"}]

ScreenTyped ==
  /\ stored \in [Wave -> Documents \cup {Absent}]
  /\ held \in [Wave -> SUBSET Documents]
  /\ wave \in Wave \cup {Absent}
  /\ timelines \in Seq(Seq(Block))
  /\ screen \in [number : Nat, id : Wave \cup {Absent}, saving : BOOLEAN]
  /\ calls \in SUBSET Call

(* What the engine has, or had, it accepted as that wave's. *)
StoredIsHeld ==
  \A w \in Wave : /\ stored[w] # Absent => stored[w] \in held[w]
                  /\ \A d \in held[w] : d.id = w /\ waves!Accepted(d)

(* What it answers with is what it has or had. *)
AnswersAreHeld ==
  \A c \in calls : /\ c.kind = "save" => c.document \in Documents
                   /\ c.status = "ok" => c.document \in held[c.id]

View(d) == [r \in DOMAIN d.spawn_rules |-> waves!toTimeline(d.spawn_rules[r])]

(* A clean store shows a document as it was drawn. *)
CleanIsDrawn == wave # Absent /\ ~dirty => \E d \in held[wave] : timelines = View(d)

PageInv == ScreenTyped /\ StoredIsHeld /\ AnswersAreHeld /\ CleanIsDrawn

LEMMA PageInitInv == ASSUME waves!WaveEditorAssumption, waves!Init PROVE PageInv
<1> DEFINE texts == {waves!DocumentOf(w, t) : w \in Wave, t \in Text}
<1>1. \A d \in texts : d \in Documents /\ waves!Accepted(d)
  <2> SUFFICES ASSUME NEW w \in Wave, NEW t \in Text
               PROVE  waves!DocumentOf(w, t) \in Documents /\ waves!Accepted(waves!DocumentOf(w, t))
    OBVIOUS
  <2>1. t \in Seq(Seq(waves!Step)) /\ waves!Accepted(waves!DocumentOf(w, t))
    BY DEF waves!WaveEditorAssumption
  <2> QED
    BY <2>1 DEF waves!DocumentOf, Documents
<1>2. stored \in [Wave -> {Absent} \cup texts] /\ \A w \in Wave : stored[w] # Absent => stored[w].id = w
  BY DEF waves!Init
<1>3. held = [w \in Wave |-> {stored[w]} \ {Absent}]
  BY DEF waves!Init
<1> HIDE DEF texts
<1>4. \A w \in Wave : stored[w] \in Documents \cup {Absent} /\ held[w] \in SUBSET Documents
  BY <1>1, <1>2, <1>3
<1>5. stored \in [Wave -> Documents \cup {Absent}] /\ held \in [Wave -> SUBSET Documents]
  BY <1>2, <1>3, <1>4
<1>6. wave = Absent /\ timelines = <<>> /\ calls = {} /\ screen = [number |-> 0, id |-> Absent, saving |-> FALSE]
  BY DEF waves!Init
<1>7. timelines \in Seq(Seq(Block))
  BY <1>6
<1>8. ScreenTyped
  BY <1>5, <1>6, <1>7 DEF ScreenTyped
<1>9. StoredIsHeld
  BY <1>1, <1>2, <1>3 DEF StoredIsHeld
<1> QED
  BY <1>6, <1>8, <1>9 DEF PageInv, AnswersAreHeld, CleanIsDrawn

-----------------------------------------------------------------------------
(* The edits of a row. *)
LEMMA RowEdits ==
  ASSUME waves!WaveEditorAssumption, NEW row \in Seq(Block)
  PROVE  /\ \A k \in DOMAIN row : waves!RemoveAt(row, k) \in Seq(Block)
         /\ \A k, l \in DOMAIN row :
              waves!InsertAt(waves!RemoveAt(row, k), l, row[k]) \in Seq(Block)
         /\ \A k \in DOMAIN row, x \in Duration :
              [row EXCEPT ![k].step.duration = x] \in Seq(Block)
         /\ \A k \in DOMAIN row, x \in Config :
              [row EXCEPT ![k].step.config = x] \in Seq(Block)
         /\ \A type \in MovementType :
              Append(row, [step |-> [type |-> type, duration |-> waves!DEFAULT_DURATION,
                                     config |-> Absent, fires |-> FALSE],
                           jumpTo |-> Absent]) \in Seq(Block)
<1>1. DOMAIN row = 1..Len(row) /\ Len(row) \in Nat
  OBVIOUS
<1>2. ASSUME NEW list \in Seq(Block), NEW i \in Int, NEW j \in Int, i >= 1, j <= Len(list)
      PROVE  SubSeq(list, i, j) \in Seq(Block)
  BY <1>2
<1>3. ASSUME NEW k \in DOMAIN row
      PROVE  waves!RemoveAt(row, k) \in Seq(Block) /\ Len(waves!RemoveAt(row, k)) = Len(row) - 1
  <2> DEFINE front == SubSeq(row, 1, k - 1)
             back == SubSeq(row, k + 1, Len(row))
  <2>1. k \in 1..Len(row)
    BY <1>1
  <2>2. front \in Seq(Block) /\ Len(front) = k - 1
    BY <1>1, <2>1
  <2>3. back \in Seq(Block) /\ Len(back) = Len(row) - k
    BY <1>1, <2>1
  <2>4. waves!RemoveAt(row, k) = front \o back
    BY DEF waves!RemoveAt
  <2> HIDE DEF front, back
  <2>5. Len(front \o back) = (k - 1) + (Len(row) - k)
    BY <2>2, <2>3
  <2> QED
    BY <1>1, <2>1, <2>2, <2>3, <2>4, <2>5
<1>4. ASSUME NEW k \in DOMAIN row, NEW l \in DOMAIN row
      PROVE  waves!InsertAt(waves!RemoveAt(row, k), l, row[k]) \in Seq(Block)
  <2> DEFINE list == waves!RemoveAt(row, k)
  <2>1. list \in Seq(Block) /\ Len(list) = Len(row) - 1 /\ l \in 1..Len(row) /\ row[k] \in Block
    <3>1. list \in Seq(Block) /\ Len(list) = Len(row) - 1
      BY <1>3
    <3>2. l \in 1..Len(row) /\ row[k] \in Block
      BY <1>1
    <3> QED
      BY <3>1, <3>2
  <2>2. waves!InsertAt(list, l, row[k]) =
          SubSeq(list, 1, l - 1) \o <<row[k]>> \o SubSeq(list, l, Len(list))
    BY DEF waves!InsertAt
  <2> HIDE DEF list
  <2>3. l - 1 <= Len(list) /\ l >= 1 /\ l \in Int /\ l - 1 \in Int /\ Len(list) \in Int
    BY <1>1, <2>1
  <2>4. SubSeq(list, 1, l - 1) \in Seq(Block) /\ SubSeq(list, l, Len(list)) \in Seq(Block)
    BY <1>2, <2>1, <2>3
  <2>5. <<row[k]>> \in Seq(Block)
    BY <2>1
  <2> QED
    BY <2>2, <2>4, <2>5 DEF list
<1>5. ASSUME NEW k \in DOMAIN row, NEW block \in Block
      PROVE  [row EXCEPT ![k] = block] \in Seq(Block)
  BY <1>1
<1>6. ASSUME NEW k \in DOMAIN row, NEW x \in Nat
      PROVE  [row EXCEPT ![k].step.duration = x] \in Seq(Block)
  <2>1. row[k] \in Block
    BY <1>1
  <2>2. [row[k] EXCEPT !.step = [row[k].step EXCEPT !.duration = x]] \in Block
    BY <2>1 DEF Block, waves!Step
  <2>3. [row EXCEPT ![k].step.duration = x] =
          [row EXCEPT ![k] = [row[k] EXCEPT !.step = [row[k].step EXCEPT !.duration = x]]]
    OBVIOUS
  <2> QED
    BY <1>5, <2>2, <2>3
<1>7. ASSUME NEW k \in DOMAIN row, NEW x \in Configured
      PROVE  [row EXCEPT ![k].step.config = x] \in Seq(Block)
  <2>1. row[k] \in Block
    BY <1>1
  <2>2. [row[k] EXCEPT !.step = [row[k].step EXCEPT !.config = x]] \in Block
    BY <2>1 DEF Block, waves!Step
  <2>3. [row EXCEPT ![k].step.config = x] =
          [row EXCEPT ![k] = [row[k] EXCEPT !.step = [row[k].step EXCEPT !.config = x]]]
    OBVIOUS
  <2> QED
    BY <1>5, <2>2, <2>3
<1>8. ASSUME NEW type \in MovementType
      PROVE  Append(row, [step |-> [type |-> type, duration |-> waves!DEFAULT_DURATION,
                                    config |-> Absent, fires |-> FALSE],
                          jumpTo |-> Absent]) \in Seq(Block)
  <2>1. type \in STRING /\ waves!DEFAULT_DURATION \in Nat
    BY DEF waves!WaveEditorAssumption, waves!DEFAULT_DURATION
  <2>2. [type |-> type, duration |-> waves!DEFAULT_DURATION, config |-> Absent, fires |-> FALSE]
          \in waves!Step
    BY <2>1 DEF waves!Step
  <2> QED
    BY <2>2 DEF Block
<1>9. Duration \subseteq Nat /\ Config \subseteq Configured
  BY DEF waves!WaveEditorAssumption
<1> QED
  BY <1>3, <1>4, <1>6, <1>7, <1>8, <1>9

(* An edit leaves rows of blocks, and a store that is dirty. *)
LEMMA EditInv ==
  ASSUME PageInv, NEW blocks, selectedRule \in DOMAIN timelines => blocks \in Seq(Block),
         waves!Edit(blocks)
  PROVE  PageInv'
<1>1. /\ timelines' = [timelines EXCEPT ![selectedRule] = blocks] /\ dirty'
      /\ UNCHANGED <<stored, wave, selectedRule, screen, calls, held>>
  BY DEF waves!Edit
<1>2. timelines \in Seq(Seq(Block))
  BY DEF PageInv, ScreenTyped
<1>3. timelines' \in Seq(Seq(Block))
  <2>1. CASE selectedRule \in DOMAIN timelines
    BY <1>1, <1>2, <2>1
  <2>2. CASE selectedRule \notin DOMAIN timelines
    <3>1. timelines' = timelines
      BY <1>1, <1>2, <2>2
    <3> QED
      BY <1>2, <3>1
  <2> QED
    BY <2>1, <2>2
<1>4. ScreenTyped'
  BY <1>1, <1>3 DEF PageInv, ScreenTyped
<1>5. StoredIsHeld' /\ AnswersAreHeld' /\ CleanIsDrawn'
  BY <1>1 DEF PageInv, StoredIsHeld, AnswersAreHeld, CleanIsDrawn
<1> QED
  BY <1>4, <1>5 DEF PageInv

LEMMA AuthorInv ==
  ASSUME waves!WaveEditorAssumption, PageInv, waves!Author
  PROVE  PageInv'
<1> DEFINE row == timelines[selectedRule]
<1>1. selectedRule \in DOMAIN timelines => row \in Seq(Block)
  <2>1. timelines \in Seq(Seq(Block))
    BY DEF PageInv, ScreenTyped
  <2> QED
    BY <2>1
<1>2. ASSUME NEW r, waves!selectRule(r) PROVE PageInv'
  BY <1>2 DEF waves!selectRule, PageInv, ScreenTyped, StoredIsHeld, AnswersAreHeld, CleanIsDrawn
<1>3. ASSUME NEW type \in MovementType, waves!addBlock(type) PROVE PageInv'
  <2> DEFINE blocks ==
               Append(row, [step |-> [type |-> type, duration |-> waves!DEFAULT_DURATION,
                                      config |-> Absent, fires |-> FALSE],
                            jumpTo |-> Absent])
  <2>1. waves!Edit(blocks)
    BY <1>3 DEF waves!addBlock, waves!Row
  <2>2. selectedRule \in DOMAIN timelines => blocks \in Seq(Block)
    BY <1>1, RowEdits
  <2> HIDE DEF blocks
  <2> QED
    BY <2>1, <2>2, EditInv
<1>4. ASSUME NEW k \in DOMAIN row, waves!removeBlock(k) PROVE PageInv'
  <2> DEFINE blocks == waves!RemoveAt(row, k)
  <2>1. waves!Edit(blocks)
    BY <1>4 DEF waves!removeBlock, waves!Row
  <2>2. selectedRule \in DOMAIN timelines => blocks \in Seq(Block)
    BY <1>1, RowEdits
  <2> HIDE DEF blocks
  <2> QED
    BY <2>1, <2>2, EditInv
<1>5. ASSUME NEW k \in DOMAIN row, NEW l \in DOMAIN row, waves!moveBlock(k, l) PROVE PageInv'
  <2> DEFINE blocks == waves!InsertAt(waves!RemoveAt(row, k), l, row[k])
  <2>1. waves!Edit(blocks)
    BY <1>5 DEF waves!moveBlock, waves!Row
  <2>2. selectedRule \in DOMAIN timelines => blocks \in Seq(Block)
    BY <1>1, RowEdits
  <2> HIDE DEF blocks
  <2> QED
    BY <2>1, <2>2, EditInv
<1>6. ASSUME NEW k \in DOMAIN row, NEW x \in Duration, waves!resizeBlock(k, x) PROVE PageInv'
  <2> DEFINE blocks == [row EXCEPT ![k].step.duration = x]
  <2>1. waves!Edit(blocks)
    BY <1>6 DEF waves!resizeBlock, waves!Row
  <2>2. selectedRule \in DOMAIN timelines => blocks \in Seq(Block)
    BY <1>1, RowEdits
  <2> HIDE DEF blocks
  <2> QED
    BY <2>1, <2>2, EditInv
<1>7. ASSUME NEW k \in DOMAIN row, NEW x \in Config, waves!updateBlockConfig(k, x) PROVE PageInv'
  <2> DEFINE blocks == [row EXCEPT ![k].step.config = x]
  <2>1. waves!Edit(blocks)
    BY <1>7 DEF waves!updateBlockConfig, waves!Row
  <2>2. selectedRule \in DOMAIN timelines => blocks \in Seq(Block)
    BY <1>1, RowEdits
  <2> HIDE DEF blocks
  <2> QED
    BY <2>1, <2>2, EditInv
<1> QED
  BY <1>2, <1>3, <1>4, <1>5, <1>6, <1>7 DEF waves!Author, waves!Row

-----------------------------------------------------------------------------
(* A document the engine has or had is drawn: whatever the store was, it is*)
(* clean, and shows that document.                                         *)
LEMMA LoadInv ==
  ASSUME PageInv, NEW c \in calls, c.status = "ok", waves!load(c.document), waves!Done(c)
  PROVE  PageInv'
<1> DEFINE d == c.document
<1>1. c \in Call /\ c.id \in Wave /\ d \in held[c.id]
  BY DEF PageInv, ScreenTyped, AnswersAreHeld, Call
<1>2. d \in Documents /\ d.id = c.id
  BY <1>1 DEF PageInv, ScreenTyped, StoredIsHeld
<1>3. wave' = d.id /\ timelines' = View(d)
  BY DEF waves!load, View
<1>4. /\ calls' = calls \ {c} /\ UNCHANGED <<stored, held>>
      /\ screen' \in {screen, [screen EXCEPT !.saving = FALSE]}
  BY DEF waves!Done
<1> HIDE DEF d
<1>5. View(d) \in Seq(Seq(Block))
  <2>1. d.spawn_rules \in Seq(Seq(waves!Step))
    BY <1>2 DEF Documents
  <2>2. \A r \in DOMAIN d.spawn_rules : waves!toTimeline(d.spawn_rules[r]) \in Seq(Block)
    <3>1. \A r \in DOMAIN d.spawn_rules : d.spawn_rules[r] \in Seq(waves!Step)
      BY <2>1
    <3> QED
      BY <3>1, TimelineIs DEF Block
  <2>3. DOMAIN d.spawn_rules = 1..Len(d.spawn_rules) /\ Len(d.spawn_rules) \in Nat
    BY <2>1
  <2>4. View(d) \in [1..Len(d.spawn_rules) -> Seq(Block)]
    BY <2>2, <2>3 DEF View
  <2> QED
    BY <2>3, <2>4, SeqDef
<1>6. screen' \in [number : Nat, id : Wave \cup {Absent}, saving : BOOLEAN]
  BY <1>4 DEF PageInv, ScreenTyped
<1>7. ScreenTyped'
  BY <1>1, <1>2, <1>3, <1>4, <1>5, <1>6 DEF PageInv, ScreenTyped
<1>8. StoredIsHeld' /\ AnswersAreHeld'
  BY <1>4 DEF PageInv, StoredIsHeld, AnswersAreHeld
<1>9. CleanIsDrawn'
  BY <1>1, <1>2, <1>3, <1>4 DEF CleanIsDrawn
<1> QED
  BY <1>7, <1>8, <1>9 DEF PageInv

(* The engine stores a document under the id it has. *)
LEMMA StoresInv ==
  ASSUME PageInv, NEW w \in Wave, NEW d \in Documents, d.id = w, waves!Accepted(d),
         waves!Stores(w, d), UNCHANGED <<wave, timelines, dirty, screen>>,
         NEW answered, answered \subseteq {c \in Call : c.id = w /\ c.document = d},
         calls' \subseteq calls \cup answered
  PROVE  PageInv'
<1>1. /\ stored' = [stored EXCEPT ![w] = d]
      /\ held' = [held EXCEPT ![w] = held[w] \cup {d}]
  BY DEF waves!Stores
<1>2. \A v \in Wave : held[v] \subseteq held'[v] /\ d \in held'[w]
  BY <1>1 DEF PageInv, ScreenTyped
<1>3. ScreenTyped'
  BY <1>1 DEF PageInv, ScreenTyped
<1>4. StoredIsHeld'
  BY <1>1 DEF PageInv, ScreenTyped, StoredIsHeld
<1>5. AnswersAreHeld'
  BY <1>2 DEF PageInv, ScreenTyped, AnswersAreHeld, Call
<1>6. CleanIsDrawn'
  BY <1>2 DEF PageInv, ScreenTyped, CleanIsDrawn
<1> QED
  BY <1>3, <1>4, <1>5, <1>6 DEF PageInv

(* What changes only calls, and knows what it answers with, is safe. *)
LEMMA CallsInv ==
  ASSUME PageInv, UNCHANGED <<stored, held, wave, timelines, dirty>>,
         screen' \in [number : Nat, id : Wave \cup {Absent}, saving : BOOLEAN],
         calls' \in SUBSET Call,
         \A c \in calls' \ calls : /\ c.kind = "save" => c.document \in Documents
                                   /\ c.status = "ok" => c.document \in held[c.id]
  PROVE  PageInv'
<1>1. ScreenTyped'
  BY DEF PageInv, ScreenTyped
<1>2. AnswersAreHeld'
  BY DEF PageInv, AnswersAreHeld
<1> QED
  BY <1>1, <1>2 DEF PageInv, StoredIsHeld, CleanIsDrawn

(* What the store would be saved as is a document. *)
LEMMA DocumentIs ==
  ASSUME waves!WaveEditorAssumption, timelines \in Seq(Seq(Block)), wave \in Wave
  PROVE  waves!document \in Documents
<1> DEFINE rules == [r \in DOMAIN timelines |-> waves!toSequence(timelines[r])]
           m == Len(timelines)
<1>1. DOMAIN timelines = 1..m /\ m \in Nat /\ \A r \in 1..m : timelines[r] \in Seq(Block)
  OBVIOUS
<1>2. \A r \in 1..m : waves!toSequence(timelines[r]) \in Seq(waves!Step)
  BY <1>1, WrittenIsList
<1> HIDE DEF m
<1>3. rules \in [1..m -> Seq(waves!Step)]
  BY <1>1, <1>2
<1>4. waves!document = [id |-> wave, spawn_rules |-> rules]
  BY DEF waves!document, waves!DocumentOf
<1> HIDE DEF rules
<1>5. rules \in Seq(Seq(waves!Step))
  BY <1>1, <1>3, SeqDef
<1> QED
  BY <1>4, <1>5 DEF Documents

LEMMA ScreenInv ==
  ASSUME waves!WaveEditorAssumption, PageInv, waves!save \/ waves!Leave \/ waves!Reload
  PROVE  PageInv'
<1>1. CASE waves!save
  <2> DEFINE c == [kind |-> "save", screen |-> screen.number, id |-> screen.id,
                   document |-> waves!document, status |-> "sent"]
  <2>1. /\ screen.id # Absent /\ wave # Absent /\ screen' = [screen EXCEPT !.saving = TRUE]
        /\ calls' = calls \cup {c} /\ UNCHANGED <<stored, wave, timelines, dirty, held>>
    BY <1>1 DEF waves!save, waves!storeVars
  <2>2. waves!document \in Documents
    BY <2>1, DocumentIs DEF PageInv, ScreenTyped
  <2>3. c \in Call /\ c.document \in Documents /\ c.status = "sent"
    BY <2>1, <2>2 DEF PageInv, ScreenTyped, Call
  <2> HIDE DEF c
  <2>4. screen' \in [number : Nat, id : Wave \cup {Absent}, saving : BOOLEAN]
    BY <2>1 DEF PageInv, ScreenTyped
  <2>5. calls' \in SUBSET Call
    BY <2>1, <2>3 DEF PageInv, ScreenTyped
  <2> QED
    BY <2>1, <2>3, <2>4, <2>5, CallsInv
<1>2. CASE waves!Leave
  <2>1. /\ screen' = [screen EXCEPT !.id = Absent]
        /\ UNCHANGED <<stored, wave, timelines, dirty, calls, held>>
    BY <1>2 DEF waves!Leave, waves!storeVars
  <2>2. screen' \in [number : Nat, id : Wave \cup {Absent}, saving : BOOLEAN]
    BY <2>1 DEF PageInv, ScreenTyped
  <2> QED
    BY <2>1, <2>2, CallsInv DEF PageInv, ScreenTyped
<1>3. CASE waves!Reload
  <2>1. /\ wave' = Absent /\ timelines' = <<>> /\ calls' = {} /\ UNCHANGED <<stored, held>>
        /\ screen' = [screen EXCEPT !.id = Absent, !.saving = FALSE]
    BY <1>3 DEF waves!Reload
  <2>2. screen' \in [number : Nat, id : Wave \cup {Absent}, saving : BOOLEAN]
    BY <2>1 DEF PageInv, ScreenTyped
  <2>3. timelines' \in Seq(Seq(Block))
    BY <2>1
  <2> QED
    BY <2>1, <2>2, <2>3 DEF PageInv, ScreenTyped, StoredIsHeld, AnswersAreHeld, CleanIsDrawn
<1> QED
  BY <1>1, <1>2, <1>3

LEMMA ShowInv ==
  ASSUME PageInv, NEW w \in Wave, waves!Show(w)
  PROVE  PageInv'
<1> DEFINE c == [kind |-> "open", screen |-> screen.number + 1, id |-> w,
                 document |-> Absent, status |-> "sent"]
<1>1. /\ screen' = [number |-> screen.number + 1, id |-> w, saving |-> FALSE]
      /\ calls' = calls \cup {c} /\ UNCHANGED <<stored, wave, timelines, dirty, held>>
  BY DEF waves!Show, waves!storeVars
<1>2. c \in Call /\ c.kind = "open" /\ c.status = "sent"
  BY DEF PageInv, ScreenTyped, Call
<1> HIDE DEF c
<1>3. screen' \in [number : Nat, id : Wave \cup {Absent}, saving : BOOLEAN]
  BY <1>1 DEF PageInv, ScreenTyped
<1>4. calls' \in SUBSET Call
  BY <1>1, <1>2 DEF PageInv, ScreenTyped
<1> QED
  BY <1>1, <1>2, <1>3, <1>4, CallsInv

LEMMA AnsweredInv ==
  ASSUME PageInv, NEW c \in calls, NEW answered \in Call,
         answered.kind = "save" => answered.document \in Documents,
         answered.status = "ok" => answered.document \in held[answered.id],
         waves!Answer(c, answered), UNCHANGED <<stored, held, wave, timelines, dirty, screen>>
  PROVE  PageInv'
<1>1. calls' = (calls \ {c}) \cup {answered}
  BY DEF waves!Answer
<1>2. calls' \in SUBSET Call /\ screen' \in [number : Nat, id : Wave \cup {Absent}, saving : BOOLEAN]
  BY <1>1 DEF PageInv, ScreenTyped
<1> QED
  BY <1>1, <1>2, CallsInv

LEMMA EngineAnswersInv ==
  ASSUME PageInv, NEW c \in calls, waves!ServeOpen(c) \/ waves!ServeSave(c) \/ waves!Refuse(c)
  PROVE  PageInv'
<1>1. c \in Call /\ (c.kind = "save" => c.document \in Documents)
  BY DEF PageInv, ScreenTyped, AnswersAreHeld
<1>2. waves!Denied(c) \in Call
  BY <1>1 DEF waves!Denied, Call
<1>3. waves!Denied(c).kind = c.kind /\ waves!Denied(c).document = c.document
      /\ waves!Denied(c).status = "refused"
  BY <1>1 DEF waves!Denied, Call
<1>4. ASSUME waves!Answer(c, waves!Denied(c)), UNCHANGED <<stored, held, wave, timelines, dirty, screen>>
      PROVE  PageInv'
  BY <1>1, <1>2, <1>3, <1>4, AnsweredInv
<1>5. CASE waves!Refuse(c)
  BY <1>4, <1>5 DEF waves!Refuse, waves!storeVars
<1>6. CASE waves!ServeOpen(c)
  <2>1. CASE stored[c.id] = Absent
    BY <1>4, <1>6, <2>1 DEF waves!ServeOpen, waves!storeVars
  <2>2. CASE stored[c.id] # Absent
    <3> DEFINE answered == [c EXCEPT !.status = "ok", !.document = stored[c.id]]
    <3>1. waves!Answer(c, answered) /\ UNCHANGED <<stored, held, wave, timelines, dirty, screen>>
      BY <1>6, <2>2 DEF waves!ServeOpen, waves!storeVars
    <3>2. c.id \in Wave /\ stored[c.id] \in Documents /\ stored[c.id] \in held[c.id]
      BY <1>1, <2>2 DEF PageInv, ScreenTyped, StoredIsHeld, Call
    <3>3. answered \in Call /\ answered.document = stored[c.id] /\ answered.id = c.id
      BY <1>1, <3>2 DEF Call
    <3> HIDE DEF answered
    <3> QED
      BY <3>1, <3>2, <3>3, AnsweredInv
  <2> QED
    BY <2>1, <2>2
<1>7. CASE waves!ServeSave(c)
  <2>1. CASE ~(waves!Accepted(c.document) /\ c.document.id = c.id)
    BY <1>4, <1>7, <2>1 DEF waves!ServeSave, waves!storeVars
  <2>2. CASE waves!Accepted(c.document) /\ c.document.id = c.id
    <3> DEFINE answered == [c EXCEPT !.status = "ok"]
    <3>1. /\ waves!Stores(c.id, c.document) /\ waves!Answer(c, answered) /\ c.kind = "save"
          /\ UNCHANGED <<wave, timelines, dirty, screen>>
      BY <1>7, <2>2 DEF waves!ServeSave, waves!storeVars
    <3>2. answered \in Call /\ answered.id = c.id /\ answered.document = c.document
      BY <1>1 DEF Call
    <3>3. c.id \in Wave /\ c.document \in Documents
      BY <1>1, <3>1 DEF Call
    <3> HIDE DEF answered
    <3>4. calls' \subseteq calls \cup {answered}
      BY <3>1 DEF waves!Answer
    <3>5. {answered} \subseteq {b \in Call : b.id = c.id /\ b.document = c.document}
      BY <3>2
    <3> QED
      BY <2>2, <3>1, <3>3, <3>4, <3>5, StoresInv
  <2> QED
    BY <2>1, <2>2
<1> QED
  BY <1>5, <1>6, <1>7

LEMMA OtherAuthorInv ==
  ASSUME waves!WaveEditorAssumption, PageInv, NEW w \in Wave, waves!OtherAuthor(w)
  PROVE  PageInv'
<1>1. UNCHANGED <<wave, timelines, dirty, screen, calls>>
  BY DEF waves!OtherAuthor, waves!storeVars
<1>2. ASSUME NEW t \in Text, waves!Stores(w, waves!DocumentOf(w, t)) PROVE PageInv'
  <2> DEFINE d == waves!DocumentOf(w, t)
  <2>1. t \in Seq(Seq(waves!Step)) /\ waves!Accepted(d)
    BY DEF waves!WaveEditorAssumption
  <2>2. d \in Documents /\ d.id = w
    BY <2>1 DEF waves!DocumentOf, Documents
  <2> HIDE DEF d
  <2>3. waves!Stores(w, d)
    BY <1>2 DEF d
  <2>4. {} \subseteq {b \in Call : b.id = w /\ b.document = d} /\ calls' \subseteq calls \cup {}
    BY <1>1
  <2> QED
    BY <1>1, <2>1, <2>2, <2>3, <2>4, StoresInv
<1>3. ASSUME stored' = [stored EXCEPT ![w] = Absent], UNCHANGED held PROVE PageInv'
  BY <1>1, <1>3 DEF PageInv, ScreenTyped, StoredIsHeld, AnswersAreHeld, CleanIsDrawn
<1> QED
  BY <1>2, <1>3 DEF waves!OtherAuthor

LEMMA AnswerReadInv ==
  ASSUME PageInv, NEW c \in calls, waves!Opened(c) \/ waves!Saved(c) \/ waves!Failed(c)
  PROVE  PageInv'
<1>1. CASE waves!Opened(c) \/ waves!Saved(c)
  BY <1>1, LoadInv DEF waves!Opened, waves!Saved
<1>2. CASE waves!Failed(c)
  <2>1. /\ calls' = calls \ {c} /\ UNCHANGED <<stored, held, wave, timelines, dirty>>
        /\ screen' \in {screen, [screen EXCEPT !.saving = FALSE]}
    BY <1>2 DEF waves!Failed, waves!Done, waves!storeVars
  <2>2. screen' \in [number : Nat, id : Wave \cup {Absent}, saving : BOOLEAN]
    BY <2>1 DEF PageInv, ScreenTyped
  <2>3. calls' \in SUBSET Call
    BY <2>1 DEF PageInv, ScreenTyped
  <2> QED
    BY <2>1, <2>2, <2>3, CallsInv
<1> QED
  BY <1>1, <1>2

LEMMA PageNextInv ==
  ASSUME waves!WaveEditorAssumption, PageInv, [waves!Next]_(waves!vars)
  PROVE  PageInv'
<1>1. CASE UNCHANGED waves!vars
  BY <1>1 DEF waves!vars, waves!storeVars, PageInv, ScreenTyped, StoredIsHeld, AnswersAreHeld,
              CleanIsDrawn
<1>2. CASE waves!Next
  BY <1>2, AuthorInv, ScreenInv, ShowInv, OtherAuthorInv, EngineAnswersInv, AnswerReadInv
     DEF waves!Next
<1> QED
  BY <1>1, <1>2

(* Whatever is edited, saved, refused, answered late or replaced by others *)
(* meanwhile, a store that is not dirty plays what the engine has or had of*)
(* its wave (the store's load and serialize, and lib/timeline.ts).         *)
THEOREM CleanStaysStored == ASSUME waves!WaveEditorAssumption PROVE PageSpec => []CleanIsStored
<1>1. PageInit => PageInv
  BY PageInitInv DEF PageInit
<1>2. PageInv /\ [PageNext]_pageVars => PageInv'
  <2>1. [PageNext]_pageVars => [waves!Next]_(waves!vars)
    BY DEF PageNext, SessionStep, ScreenStep, pageVars, waveVars, waves!vars,
       waves!storeVars
  <2> QED
    BY <2>1, PageNextInv
<1>3. PageInv => CleanIsStored
  <2> SUFFICES ASSUME PageInv, wave # Absent, ~dirty
               PROVE  \E d \in held[wave] : waves!PlayedBy(d) = waves!PlayedBy(waves!document)
    BY DEF CleanIsStored, waves!CleanIsStored
  <2>1. PICK d \in held[wave] : timelines = View(d)
    BY DEF PageInv, CleanIsDrawn
  <2> DEFINE texts == d.spawn_rules
             rules == DOMAIN texts
  <2>2. wave \in Wave /\ d \in Documents /\ waves!Accepted(d)
    BY DEF PageInv, ScreenTyped, StoredIsHeld
  <2>3. \A r \in rules : texts[r] \in Seq(waves!Step) /\ Directed(texts[r])
    <3>1. texts \in Seq(Seq(waves!Step))
      BY <2>2 DEF Documents
    <3> QED
      BY <2>2, <3>1 DEF waves!Accepted, Directed
  <2>4. DOMAIN timelines = rules /\ \A r \in rules : timelines[r] = waves!toTimeline(texts[r])
    BY <2>1 DEF View
  <2>5. waves!document.spawn_rules = [r \in rules |-> waves!toSequence(timelines[r])]
    BY <2>4 DEF waves!document, waves!DocumentOf
  <2> HIDE DEF texts, rules
  <2>6. /\ DOMAIN waves!document.spawn_rules = rules
        /\ \A r \in rules : waves!document.spawn_rules[r] = waves!toSequence(timelines[r])
    BY <2>5
  <2>7. \A r \in rules :
          waves!Played(waves!document.spawn_rules[r]) = waves!Played(texts[r])
    BY <2>3, <2>4, <2>6, PlaysTheSame
  <2>8. waves!PlayedBy(waves!document) = waves!PlayedBy(d)
    BY <2>6, <2>7 DEF waves!PlayedBy, texts, rules
  <2> QED
    BY <2>8
<1> QED
  BY <1>1, <1>2, <1>3, PTL DEF PageSpec
=============================================================================
