------------------------------- MODULE Sessions -------------------------------
(***************************************************************************)
(* Signing in and rotating a session (platform/identity/sessions.py).      *)
(*                                                                         *)
(* A refresh token is a row: live until revoked_at is set.  Renewing is a  *)
(* plain select of the row, an update of it, a select of the account and   *)
(* an insert of the next token, then a commit; presenting a token that is  *)
(* already revoked ends every live session of its account instead.  The    *)
(* routes are plain functions, so the service runs them in threads, each   *)
(* with a transaction of its own, and these steps interleave.              *)
(***************************************************************************)
EXTENDS Naturals

CONSTANTS
  Caller,     \* requests to /auth/token and /auth/refresh under way
  Account,
  Token,      \* refresh tokens that can be issued: bounds the model
  Refused, Lost,              \* answers without a token
  Absent, Nobody, None

ASSUME SessionsAssumption ==
  Absent \notin {"live", "revoked"} /\ Nobody \notin Caller /\ {None, Refused, Lost} \cap Token = {}

Key == Token

VARIABLES
  store, draft, holder,  \* the rows of refresh_token
  owner,      \* the account of each token
  heirOf,     \* auxiliary: the token presented to get this one; None: sign-in
  expired,    \* tokens past their expires_at
  enabled,    \* accounts that may sign in
  known,      \* tokens a client has been handed
  phase,      \* where each handler is
  presented,  \* the token each handler was given
  account,    \* the account each handler works for
  targets,    \* the live sessions a revoking update found
  reply,      \* the last answer: a token, Refused, or Lost on the way
  ended       \* auxiliary: sessions a caller was told are ended

INSTANCE Rows WITH Client <- Caller

rowVars == <<store, draft, holder>>
handlerVars == <<phase, presented, account, targets, reply>>
worldVars == <<owner, heirOf, expired, enabled, known, ended>>
vars == <<store, draft, holder, owner, heirOf, expired, enabled, known, ended,
          phase, presented, account, targets, reply>>

Init ==
  /\ AtRest([t \in Token |-> Absent])
  /\ owner = [t \in Token |-> None]
  /\ heirOf = [t \in Token |-> None]
  /\ expired = {}
  /\ enabled = Account
  /\ known = {}
  /\ ended = {}
  /\ phase = [c \in Caller |-> "idle"]
  /\ presented = [c \in Caller |-> None]
  /\ account = [c \in Caller |-> None]
  /\ targets = [c \in Caller |-> {}]
  /\ reply = [c \in Caller |-> None]

Goto(c, from, to) == phase[c] = from /\ phase' = [phase EXCEPT ![c] = to]

(* The handler is done, and its transaction with it. *)
Answer(c, r) ==
  /\ phase' = [phase EXCEPT ![c] = "idle"]
  /\ presented' = [presented EXCEPT ![c] = None]
  /\ account' = [account EXCEPT ![c] = None]
  /\ targets' = [targets EXCEPT ![c] = {}]
  /\ reply' = [reply EXCEPT ![c] = r]
-----------------------------------------------------------------------------
(* sign_in: the account is read and the password verified. *)
SignIn(c, a) ==
  /\ phase[c] = "idle"
  /\ \/ /\ a \in enabled
        /\ Goto(c, "idle", "issue")
        /\ account' = [account EXCEPT ![c] = a]
        /\ reply' = [reply EXCEPT ![c] = None]
        /\ UNCHANGED <<presented, targets>>
     \/ /\ a \notin enabled
        /\ Answer(c, Refused)
  /\ UNCHANGED <<rowVars, worldVars>>

(* A client presents a token it was handed, perhaps not for the first time. *)
Present(c, t) ==
  /\ t \in known
  /\ Goto(c, "idle", "read")
  /\ presented' = [presented EXCEPT ![c] = t]
  /\ account' = [account EXCEPT ![c] = owner[t]]
  /\ reply' = [reply EXCEPT ![c] = None]
  /\ UNCHANGED <<rowVars, worldVars, targets>>

(* The token's signature and expiry are read first, so an expired token is *)
(* refused whether it was revoked or not.  Then the select: no lock, so    *)
(* what it saw may be old news by the next step.                           *)
ReadToken(c) ==
  /\ phase[c] = "read"
  /\ \/ /\ presented[c] \in expired
        /\ Answer(c, Refused)
     \/ /\ presented[c] \notin expired
        /\ Goto(c, "read", IF store[presented[c]] = "revoked"
                             THEN "end_all" ELSE "rotate")
        /\ UNCHANGED <<presented, account, targets, reply>>
  /\ UNCHANGED <<rowVars, worldVars>>

(* Mutant: the next token is issued and the one presented is left alone. *)
Rotate_Forgotten(c) ==
  /\ Goto(c, "rotate", "account")
  /\ UNCHANGED <<rowVars, worldVars, presented, account, targets, reply>>

(* update refresh_token set revoked_at = :now where id = :id, whatever the *)
(* row has become since it was read.                                       *)
Rotate(c) ==
  /\ Goto(c, "rotate", "account")
  /\ Lockable(c, presented[c])
  /\ WriteRow(c, presented[c], "revoked")
  /\ UNCHANGED <<worldVars, presented, account, targets, reply>>

(* Mutant: an account that may not sign in gets its token back. *)
CheckAccount_Restoring(c) ==
  /\ phase[c] = "account"
  /\ \/ /\ account[c] \in enabled
        /\ Goto(c, "account", "issue")
        /\ UNCHANGED <<rowVars, presented, account, targets, reply>>
     \/ /\ account[c] \notin enabled
        /\ store' = [store EXCEPT ![presented[c]] = "live"]
        /\ draft' = [draft EXCEPT ![presented[c]] = "live"]
        /\ holder' = Released(c)
        /\ Answer(c, Refused)
  /\ UNCHANGED worldVars

(* An account that may no longer sign in loses the token all the same. *)
CheckAccount(c) ==
  /\ phase[c] = "account"
  /\ \/ /\ account[c] \in enabled
        /\ Goto(c, "account", "issue")
        /\ UNCHANGED <<rowVars, presented, account, targets, reply>>
     \/ /\ account[c] \notin enabled
        /\ CommitRows(c)
        /\ Answer(c, Refused)
  /\ UNCHANGED worldVars

(* _issue_pair: the insert and the commit.  The pair may never arrive. *)
Issue(c) ==
  /\ phase[c] = "issue"
  /\ \E t \in Token :
       /\ store[t] = Absent /\ \A u \in Token : store[u] = Absent => t <= u
       /\ store' = [u \in Token |-> IF u = t THEN "live"
                                    ELSE IF holder[u] = c THEN draft[u] ELSE store[u]]
       /\ draft' = [draft EXCEPT ![t] = "live"]
       /\ holder' = Released(c)
       /\ owner' = [owner EXCEPT ![t] = account[c]]
       /\ heirOf' = [heirOf EXCEPT ![t] = presented[c]]
       /\ \/ Answer(c, t) /\ known' = known \cup {t}
          \/ Answer(c, Lost) /\ known' = known
  /\ UNCHANGED <<expired, enabled, ended>>
-----------------------------------------------------------------------------
SessionsOf(a) == {t \in Token : store[t] # Absent /\ owner[t] = a}
LiveSessionsOf(a) == {t \in SessionsOf(a) : store[t] = "live"}

(* _revoke_every_session, one update: the rows it can see are live... *)
FindLive(c) ==
  /\ Goto(c, "end_all", "ending")
  /\ targets' = [targets EXCEPT ![c] = LiveSessionsOf(account[c])]
  /\ UNCHANGED <<rowVars, worldVars, presented, account, reply>>

(* ...and each is locked in turn.  One that was revoked meanwhile is not   *)
(* live any more and stays as it is; one whose revoking failed is revoked. *)
RevokeRow(c) ==
  /\ phase[c] = "ending"
  /\ \E t \in targets[c] :
       /\ holder[t] # c /\ Lockable(c, t)
       /\ WriteRow(c, t, "revoked")
  /\ UNCHANGED <<worldVars, handlerVars>>

CommitEnding(c) ==
  /\ phase[c] = "ending"
  /\ \A t \in targets[c] : holder[t] = c
  /\ CommitRows(c)
  /\ ended' = ended \cup targets[c]
  /\ Answer(c, Refused)
  /\ UNCHANGED <<owner, heirOf, expired, enabled, known>>

(* A dropped connection, a killed process, or a deadlock's victim. *)
Fail(c) ==
  /\ phase[c] # "idle"
  /\ RollbackRows(c)
  /\ Answer(c, Lost)
  /\ UNCHANGED worldVars

(* Time passes. *)
Expire(t) ==
  /\ store[t] # Absent /\ t \notin expired
  /\ expired' = expired \cup {t}
  /\ UNCHANGED <<rowVars, handlerVars, owner, heirOf, enabled, known, ended>>

(* An operator switches an account off. *)
Disable(a) ==
  /\ a \in enabled
  /\ enabled' = enabled \ {a}
  /\ UNCHANGED <<rowVars, handlerVars, owner, heirOf, expired, known, ended>>

Handle(c) ==
  \/ ReadToken(c) \/ Rotate(c) \/ CheckAccount(c) \/ Issue(c)
  \/ FindLive(c) \/ RevokeRow(c) \/ CommitEnding(c)

Next ==
  \/ \E c \in Caller : \/ \E a \in Account : SignIn(c, a)
                       \/ \E t \in Token : Present(c, t)
                       \/ Handle(c) \/ Fail(c)
  \/ \E t \in Token : Expire(t)
  \/ \E a \in Account : Disable(a)

Spec == Init /\ [][Next]_vars
-----------------------------------------------------------------------------
TypeOK ==
  /\ store \in [Token -> {Absent, "live", "revoked"}]
  /\ draft \in [Token -> {Absent, "live", "revoked"}]
  /\ holder \in [Token -> Caller \cup {Nobody}]
  /\ owner \in [Token -> Account \cup {None}]
  /\ heirOf \in [Token -> Token \cup {None}]
  /\ expired \in SUBSET Token /\ known \in SUBSET Token /\ ended \in SUBSET Token
  /\ enabled \in SUBSET Account
  /\ phase \in [Caller -> {"idle", "read", "rotate", "account", "issue",
                           "end_all", "ending"}]
  /\ presented \in [Caller -> Token \cup {None}]
  /\ account \in [Caller -> Account \cup {None}]
  /\ targets \in [Caller -> SUBSET Token]
  /\ reply \in [Caller -> Token \cup {None, Refused, Lost}]
  /\ \A c \in Caller : phase[c] # "idle" => account[c] \in Account
  /\ \A t \in Token : store[t] # Absent => owner[t] \in Account

(* A handler holds a row only to revoke it, and a renewal that goes on to   *)
(* issue the next token holds the one it was given: no other transaction    *)
(* can have revoked it in between, or be about to.                          *)
LocksAreRevocations ==
  /\ \A t \in Token :
       /\ holder[t] = Nobody => draft[t] = store[t]
       /\ holder[t] # Nobody => /\ phase[holder[t]] \in {"account", "issue", "ending"}
                                /\ draft[t] = "revoked" /\ store[t] # Absent
  /\ \A c \in Caller :
       /\ phase[c] \in {"account", "issue"} /\ presented[c] # None =>
            holder[presented[c]] = c
       /\ phase[c] \in {"read", "rotate", "account", "end_all"} => presented[c] # None
       /\ phase[c] = "idle" => presented[c] = None
       /\ \A t \in targets[c] \cup known : store[t] # Absent
       /\ presented[c] # None => store[presented[c]] # Absent

(* A token that bought another is spent: in no state are both of them live, *)
(* however the handlers interleave and whichever of them fails.             *)
RotatedIsRevoked ==
  \A t \in Token : heirOf[t] # None => store[heirOf[t]] = "revoked"

(* A revoked token never works again, even if the transaction that revoked  *)
(* it overlaps others: revoked_at is only ever written, never cleared.      *)
RevokedForGood ==
  [][\A t \in Token : store[t] = "revoked" => store'[t] = "revoked"]_vars

(* "Every refresh revokes the token it was given and issues a new one", and *)
(* one that comes back ends the sessions instead: a token buys one session. *)
OneHeir ==
  \A t, u \in Token : heirOf[t] = heirOf[u] /\ heirOf[t] # None => t = u

(* "Every session for the account has been ended; sign in again": once that *)
(* is answered no session it found is live, nor one renewed from it.        *)
EndedStaysEnded ==
  \A t \in Token : store[t] = "live" => t \notin ended /\ heirOf[t] \notin ended
=============================================================================
