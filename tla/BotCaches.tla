------------------------------- MODULE BotCaches -------------------------------
(***************************************************************************)
(* What the Telegram bot keeps of the answers of the backend: the session  *)
(* of each user (bot/services/runtime.py), the balances of each session    *)
(* (bot/services/balance.py), the answers of ApiRepository and the billing *)
(* payload of ScreenService.  ContextMiddleware makes one ApiRepository    *)
(* and one ScreenService for all users.                                    *)
(*                                                                         *)
(* A step of an update runs up to its next await.  Every user has an       *)
(* organization of their own; an answer is the user that it is about and   *)
(* the version of that user's data that the backend had.                   *)
(***************************************************************************)
EXTENDS Integers

CONSTANTS
  BotUsers,
  Handlers,       \* places for updates being handled
  NoAnswer,
  Lifetime,       \* seconds for which each cache counts as fresh
  BotCasts,       \* for each behaviour its users, reads, writes, updates and changes
  MaxVersion,     \* bound: versions of a user's data in any behaviour
  MaxTokens,      \* bound: sign-ins of a user
  MaxNow          \* bound: the clock

Versions == 0 .. MaxVersion
Tokens == 1 .. MaxTokens
Answers == [of : BotUsers, version : Versions]

\* The calls of ApiRepository that change something.
Writes == {"create_or_delete", "activate", "refresh", "invoice", "switch_plan"}

ASSUME BotAssumption ==
  /\ MaxVersion \in Nat /\ MaxTokens \in Nat /\ NoAnswer \notin Answers
  /\ Lifetime["balances"] \in Nat \ {0}
  /\ \A c \in BotCasts : /\ c.users \subseteq BotUsers /\ c.writes \subseteq Writes
                         /\ c.count \in Nat /\ c.changes \in Versions

VARIABLES
  botCast,      \* the bounds of this behaviour
  updatesLeft,  \* updates that may still begin
  now,          \* time.monotonic(), and the time of the tokens
  stored,       \* the version of a user's data in the backend
  outdated,     \* history: when a version was replaced
  session,      \* the stored session of a user: token and expiry
  balances,     \* _balance_cache: an entry for each identity
  shared,       \* ApiRepository._cache: an entry for each kind of answer
  billing,      \* ScreenService._billing_cache
  handling,     \* the updates being handled
  shown         \* history: what was shown since an update began

caches == <<balances, shared, billing>>
botVars == <<botCast, updatesLeft, now, stored, outdated, session, caches, handling, shown>>

Life == 1

\* The answers that ApiRepository keeps.
SharedKeys == {"summary", "integrations", "billing_current", "capabilities"}

Answer(u) == [of |-> u, version |-> stored[u]]
Entry(value, at) == [value |-> value, at |-> at]
Empty == Entry(NoAnswer, 0)
NoSession == [token |-> 0, until |-> 0]
NotHandling == [at |-> "free", user |-> NoAnswer, token |-> 0, key |-> "none", begun |-> 0,
                got |-> NoAnswer, atLeast |-> 0]
NothingShown == [user |-> NoAnswer, key |-> "none", value |-> NoAnswer, begun |-> 0,
                 atLeast |-> 0, failed |-> FALSE]

BotInit ==
  /\ botCast \in BotCasts /\ updatesLeft = botCast.count
  /\ now = 0
  /\ stored = [u \in BotUsers |-> 0]
  /\ outdated = [u \in BotUsers |-> [v \in Versions |-> 0]]
  /\ session = [u \in BotUsers |-> NoSession]
  /\ balances = [i \in BotUsers \X Tokens |-> Empty]
  /\ shared = [k \in SharedKeys |-> Empty]
  /\ billing = Empty
  /\ handling = [p \in Handlers |-> NotHandling]
  /\ shown = NothingShown

IsFresh(e, ttl) == e.value # NoAnswer /\ now - e.at < ttl

-----------------------------------------------------------------------------
(* The session of the user an update comes from.                             *)

\* The update comes so far for its user.
HandlingOf(p, at, u, token) ==
  handling' = [handling EXCEPT ![p] =
    [at |-> at, user |-> u, token |-> token, key |-> "none", begun |-> now,
     got |-> NoAnswer, atLeast |-> 0]]

Expired(s) == s.until <= now

BeginUpdate(p, u) ==
  /\ handling[p].at = "free" /\ updatesLeft > 0 /\ updatesLeft' = updatesLeft - 1
  /\ IF Expired(session[u]) THEN HandlingOf(p, "signing", u, 0)
                            ELSE HandlingOf(p, "ready", u, session[u].token)
  /\ shown' = NothingShown
  /\ UNCHANGED <<botCast, now, stored, outdated, session, caches>>

\* The backend gives a new token, which is stored for the updates to come.
GetSession(p) ==
  LET u == handling[p].user
      token == session[u].token + 1
  IN  /\ handling[p].at = "signing" /\ token \in Tokens
      /\ session' = [session EXCEPT ![u] = [token |-> token, until |-> now + Life]]
      /\ HandlingOf(p, "ready", u, token)
      /\ UNCHANGED <<botCast, updatesLeft, now, stored, outdated, caches, shown>>

Leaves(p) == handling' = [handling EXCEPT ![p] = NotHandling]

\* Without a session the access is denied.
NoAccess(p) ==
  /\ handling[p].at = "signing" /\ Leaves(p)
  /\ UNCHANGED <<botCast, updatesLeft, now, stored, outdated, session, caches, shown>>

-----------------------------------------------------------------------------
(* Reads.                                                                    *)

\* Faulty: everyone has the same entry.
SharedKey(p) == CHOOSE i \in BotUsers \X Tokens : TRUE
\* current_identity_cache_key: the organization and the token.
IdentityKey(p) == <<handling[p].user, handling[p].token>>

\* The update is at the call for a key.
CallAt(p, at, key, begun, got, atLeast) ==
  handling' = [handling EXCEPT ![p] =
    [at |-> at, user |-> handling[p].user, token |-> handling[p].token, key |-> key,
     begun |-> begun, got |-> got, atLeast |-> atLeast]]

Shows(p, key, value, failed) ==
  /\ shown' = [user |-> handling[p].user, key |-> key, value |-> value,
               begun |-> handling[p].begun, atLeast |-> handling[p].atLeast, failed |-> failed]
  /\ Leaves(p)
ShowsNothing(p) == Leaves(p) /\ UNCHANGED shown

AsksFor(p, key) ==
  CallAt(p, "asking", key, now, NoAnswer, handling[p].atLeast) /\ UNCHANGED shown

\* What an update shows, at once or after its change.
IsReady(p, key) == handling[p].at \in {"ready", "drawing"} /\ key \in botCast.reads

ReadBalances(p) ==
  LET e == balances[IdentityKey(p)]
  IN  /\ IsReady(p, "balances")
      /\ IF IsFresh(e, Lifetime["balances"]) THEN Shows(p, "balances", e.value, FALSE)
                                        ELSE AsksFor(p, "balances")
      /\ UNCHANGED <<botCast, updatesLeft, now, stored, outdated, session, caches>>

ReadShared(p, key) ==
  /\ IsReady(p, key) /\ key \in {"summary", "integrations"}
  /\ IF IsFresh(shared[key], Lifetime[key]) THEN Shows(p, key, shared[key].value, FALSE)
                                       ELSE AsksFor(p, key)
  /\ UNCHANGED <<botCast, updatesLeft, now, stored, outdated, session, caches>>

\* _load_billing_payload, before its first await.
ReadBilling(p) ==
  LET current == shared["billing_current"]
  IN  /\ IsReady(p, "billing_current")
      /\ \/ /\ IsFresh(billing, Lifetime["billing"])
            /\ Shows(p, "billing_current", billing.value, FALSE) /\ UNCHANGED billing
         \/ /\ ~IsFresh(billing, Lifetime["billing"]) /\ IsFresh(current, Lifetime["billing_current"])
            /\ billing' = Entry(current.value, now)
            /\ Shows(p, "billing_current", current.value, FALSE)
         \/ /\ ~IsFresh(billing, Lifetime["billing"]) /\ ~IsFresh(current, Lifetime["billing_current"])
            /\ AsksFor(p, "billing_current") /\ UNCHANGED billing
      /\ UNCHANGED <<botCast, updatesLeft, now, stored, outdated, session, balances, shared>>

\* The backend answers with what it has for the session of the update.
Compute(p) ==
  /\ handling[p].at = "asking"
  /\ CallAt(p, "answered", handling[p].key, handling[p].begun, Answer(handling[p].user),
            handling[p].atLeast)
  /\ UNCHANGED <<botCast, updatesLeft, now, stored, outdated, session, caches, shown>>

\* refresh_main and the other changes are over: a screen will be drawn.
Draws(p, atLeast) == CallAt(p, "drawing", "none", now, NoAnswer, atLeast) /\ UNCHANGED shown

\* The answer is stored: balances as of the time they were asked for, the
\* others as of now.  Nobody looks at what a forced read brings.
Arrive(p) ==
  LET u == handling[p]
  IN  /\ u.at = "answered"
      /\ balances' = IF u.key \in {"balances", "forced"}
                     THEN [balances EXCEPT ![IdentityKey(p)] = Entry(u.got, u.begun)]
                     ELSE balances
      /\ shared' = IF u.key \in SharedKeys
                   THEN [shared EXCEPT ![u.key] = Entry(u.got, now)] ELSE shared
      /\ billing' = IF u.key \in {"billing_current", "capabilities"}
                    THEN Entry(u.got, u.begun) ELSE billing
      /\ IF u.key = "forced" THEN Draws(p, u.atLeast) ELSE Shows(p, u.key, u.got, FALSE)
      /\ UNCHANGED <<botCast, updatesLeft, now, stored, outdated, session>>

CallsFor(p, key) == handling[p].at \in {"asking", "answered"} /\ handling[p].key = key

\* The call fails: an older answer does for the balances.
BalancesFail(p) ==
  LET e == balances[IdentityKey(p)]
  IN  /\ CallsFor(p, "balances")
      /\ IF e.value # NoAnswer THEN Shows(p, "balances", e.value, TRUE) ELSE ShowsNothing(p)
      /\ UNCHANGED <<botCast, updatesLeft, now, stored, outdated, session, caches>>

\* A forced read that fails ends in an error; the handler still draws the current screen.
ForcedFails(p) ==
  /\ CallsFor(p, "forced")
  /\ ShowsNothing(p) \/ Draws(p, handling[p].atLeast)
  /\ UNCHANGED <<botCast, updatesLeft, now, stored, outdated, session, caches>>

SharedFails(p) ==
  /\ \E key \in {"summary", "integrations"} : CallsFor(p, key)
  /\ ShowsNothing(p)
  /\ UNCHANGED <<botCast, updatesLeft, now, stored, outdated, session, caches>>

\* The capabilities may do for the billing payload.
BillingFails(p) ==
  /\ CallsFor(p, "billing_current")
  /\ IF IsFresh(shared["capabilities"], Lifetime["capabilities"])
     THEN /\ billing' = Entry(shared["capabilities"].value, handling[p].begun)
          /\ Shows(p, "billing_current", shared["capabilities"].value, FALSE)
     ELSE /\ CallAt(p, "asking", "capabilities", handling[p].begun, handling[p].got,
                    handling[p].atLeast)
          /\ UNCHANGED <<billing, shown>>
  /\ UNCHANGED <<botCast, updatesLeft, now, stored, outdated, session, balances, shared>>

\* No capabilities is an answer too, and is kept; the last payload is shown.
CapabilitiesFail(p) ==
  /\ CallsFor(p, "capabilities")
  /\ shared' = [shared EXCEPT !["capabilities"] = Entry(NoAnswer, now)]
  /\ IF billing.value = NoAnswer THEN ShowsNothing(p)
                                 ELSE Shows(p, "billing_current", billing.value, TRUE)
  /\ UNCHANGED <<botCast, updatesLeft, now, stored, outdated, session, balances, billing>>

-----------------------------------------------------------------------------
(* Changes.                                                                  *)

\* What ApiRepository drops when a change has returned.
Drops(write) ==
  CASE write = "create_or_delete" -> SharedKeys
    [] write = "activate" -> {"integrations", "summary"}
    [] write \in {"refresh", "queued"} -> {"summary"}
    [] write = "invoice" -> {"billing_current"}
    [] write = "switch_plan" -> {"billing_current", "capabilities"}
    [] OTHER -> {}

Changes(u) ==
  /\ stored[u] < botCast.changes
  /\ stored' = [stored EXCEPT ![u] = stored[u] + 1]
  /\ outdated' = [outdated EXCEPT ![u] = [outdated[u] EXCEPT ![stored[u]] = now]]

\* A worker of the backend saves something new.
BackendWrites(u) ==
  /\ Changes(u)
  /\ UNCHANGED <<botCast, updatesLeft, now, session, caches, handling, shown>>

\* Another update with the same token has balances that are older than the change, but
\* has not stored them yet.
OlderUnderWay(p) ==
  \E q \in Handlers \ {p} :
    /\ handling[q].at = "answered" /\ handling[q].key \in {"balances", "forced"}
    /\ IdentityKey(q) = IdentityKey(p)

\* The version that a refresh lets its user expect: none if such balances may replace it.
Promised(p, write) ==
  IF write = "refresh" /\ ~OlderUnderWay(p) THEN stored[handling[p].user] + 1 ELSE 0

ChangeBy(p, write) ==
  /\ handling[p].at = "ready" /\ write \in botCast.writes
  /\ Changes(handling[p].user)
  /\ CallAt(p, "written", write, handling[p].begun, NoAnswer, Promised(p, write))
  /\ UNCHANGED <<botCast, updatesLeft, now, session, caches, shown>>

\* The refresh is left to a worker: BackendWrites.
QueueRefresh(p) ==
  /\ handling[p].at = "ready" /\ "refresh" \in botCast.writes
  /\ CallAt(p, "written", "queued", handling[p].begun, NoAnswer, 0)
  /\ UNCHANGED <<botCast, updatesLeft, now, stored, outdated, session, caches, shown>>

\* The change has returned.  A refresh drops the balances of its user, and reads them
\* again at once unless it was queued.
Written(p) ==
  LET u == handling[p]
      refreshes == u.key \in {"refresh", "queued"}
  IN  /\ u.at = "written"
      /\ shared' = [k \in SharedKeys |-> IF k \in Drops(u.key) THEN Empty ELSE shared[k]]
      /\ balances' = IF refreshes THEN [balances EXCEPT ![IdentityKey(p)] = Empty] ELSE balances
      /\ IF u.key = "refresh" THEN AsksFor(p, "forced") ELSE ShowsNothing(p) \/ Draws(p, 0)
      /\ UNCHANGED <<botCast, updatesLeft, now, stored, outdated, session, billing>>

\* The answer to the change is lost: nothing is dropped.
WriteFails(p) ==
  /\ handling[p].at = "written"
  /\ ShowsNothing(p) \/ Draws(p, 0)
  /\ UNCHANGED <<botCast, updatesLeft, now, stored, outdated, session, caches>>

TimeGoesOn ==
  /\ now < MaxNow /\ now' = now + 1
  /\ UNCHANGED <<botCast, updatesLeft, stored, outdated, session, caches, handling, shown>>

HandleStep(p) ==
  \/ \E u \in botCast.users : BeginUpdate(p, u)
  \/ GetSession(p) \/ NoAccess(p)
  \/ ReadBalances(p) \/ ReadBilling(p) \/ \E key \in SharedKeys : ReadShared(p, key)
  \/ Compute(p) \/ Arrive(p)
  \/ BalancesFail(p) \/ ForcedFails(p) \/ SharedFails(p) \/ BillingFails(p) \/ CapabilitiesFail(p)
  \/ \E write \in botCast.writes : ChangeBy(p, write)
  \/ QueueRefresh(p) \/ Written(p) \/ WriteFails(p)
BotNext ==
  \/ \E p \in Handlers : HandleStep(p)
  \/ \E u \in botCast.users : BackendWrites(u)
  \/ TimeGoesOn

BotSpec == BotInit /\ [][BotNext]_botVars

-----------------------------------------------------------------------------
BotEntryType == [value : Answers \union {NoAnswer}, at : Nat]

CallKeys == SharedKeys \union Writes \union {"none", "balances", "forced", "queued"}

HandlingType ==
  [at : {"free", "signing", "ready", "asking", "answered", "written", "drawing"},
   user : BotUsers \union {NoAnswer}, token : Tokens \union {0}, key : CallKeys, begun : Nat,
   got : Answers \union {NoAnswer}, atLeast : Versions]

BotTypeOK ==
  /\ botCast \in BotCasts /\ updatesLeft \in 0 .. botCast.count /\ now \in Nat
  /\ stored \in [BotUsers -> Versions] /\ outdated \in [BotUsers -> [Versions -> Nat]]
  /\ session \in [BotUsers -> [token : Tokens \union {0}, until : Nat]]
  /\ balances \in [BotUsers \X Tokens -> BotEntryType]
  /\ shared \in [SharedKeys -> BotEntryType] /\ billing \in BotEntryType
  /\ handling \in [Handlers -> HandlingType]

\* The balances that a user is shown are those of the user, although updates of
\* several users share one cache and tokens are renewed.  While the backend
\* answers they are no older than the time to live.  And the screen that follows a refresh
\* shows what it brought although that is read from the cache of all updates, where
\* the forced read has put it and others may have put what they asked for since:
\* unless the refresh was queued, or balances that another update of the session had
\* been given before it were still under way.
OwnBalances ==
  shown.key = "balances" =>
    /\ shown.value.of = shown.user
    /\ shown.value.version >= shown.atLeast
    /\ ~shown.failed => \/ shown.value.version = stored[shown.user]
                        \/ shown.begun - outdated[shown.user][shown.value.version] < Lifetime["balances"]

\* README.md: the service is multi-tenant.  What a user is shown is the user's own.
OwnAnswers == shown.key # "none" => shown.value.of = shown.user
===============================================================================
