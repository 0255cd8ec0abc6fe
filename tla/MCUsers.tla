-------------------------------- MODULE MCUsers --------------------------------
(***************************************************************************)
(* Small instances for TLC of the modules about what a user of the bot     *)
(* meets: the screens of a chat, the caches of the bot, notifications,     *)
(* promo codes, limits of integrations and the first sign-in.  They share  *)
(* no state: a behaviour is one of one part, and the other parts stay in   *)
(* an initial state.                                                       *)
(***************************************************************************)
EXTENDS ChatScreens, BotCaches, Notifications, Promo, IntegrationLimits, Bootstrap, TLC

CONSTANTS
  r1, r2,       \* requests
  s1,           \* a service
  g1, g2,       \* generations of events
  o1, o2, o3,   \* organizations
  a, b,         \* accounts
  user1, user2  \* users

VARIABLES part

usersVars == <<part, chatVars, outboxVars, promoVars, limitVars, bootVars, botVars>>

-----------------------------------------------------------------------------
(* The casts.                                                                *)

\* Two overlapping generations; one that dies; one beside the loop of the bot, with faults.
NotificationCasts ==
  {[who |-> {g1, g2}, changes |-> 2, faults |-> 0, crashes |-> 0],
   [who |-> {g1}, changes |-> 3, faults |-> 0, crashes |-> 1],
   [who |-> {g1, Bot}, changes |-> 2, faults |-> 2, crashes |-> 0]}

\* One update at a time, on one message, and nothing goes wrong.
Calm == [routes |-> {"main"}, count |-> 5, updates |-> {"u1"}, faulty |-> FALSE,
         messages |-> {"m1"}, broadcasts |-> {}, down |-> {}, owned |-> {}]

AllRoutes ==
  {"main", "spot", "futures", "spot_detail", "futures_detail", "dex", "transactions",
   "integrations", "notifications", "plan", "payments", "settings", "admin", "admin_users",
   "admin_user", "integration", "exchanges", "wallets", "promo_code", "integration_rename",
   "integration_cex_account_ref", "integration_dex_wallet_address"}

InputRoutes ==
  {"main", "integrations", "exchanges", "integration_cex_account_ref", "wallets",
   "integration_dex_wallet_address"}

\* Every screen; the inputs that create an integration; a fault while the balances cannot
\* be had; broadcasts; two updates at one time.
ChatCasts ==
  {[Calm EXCEPT !.routes = AllRoutes, !.count = 7, !.owned = {1}],
   [Calm EXCEPT !.routes = InputRoutes, !.count = 9],
   [Calm EXCEPT !.routes = {"main", "spot", "plan", "promo_code"}, !.faulty = TRUE,
                !.messages = {"m1", "m2"}, !.down = {"balances"}],
   [Calm EXCEPT !.routes = {"main", "integrations", "plan", "promo_code"}, !.broadcasts = {"m2"}],
   [Calm EXCEPT !.routes = {"main", "plan", "promo_code"}, !.count = 4, !.updates = {"u1", "u2"}],
   [Calm EXCEPT !.routes = {"main", "integrations", "integration"}, !.count = 4,
                !.updates = {"u1", "u2"}, !.owned = {1}]}

\* Two users at one time; one user who refreshes; one who adds an integration beside another;
\* two who look at their plan.
CacheCasts ==
  {[users |-> {user1, user2}, reads |-> {"balances"}, writes |-> {}, count |-> 3, changes |-> 0],
   [users |-> {user1}, reads |-> {"balances"}, writes |-> {"refresh"}, count |-> 3, changes |-> 1],
   [users |-> {user1, user2}, reads |-> {"integrations"}, writes |-> {"create_or_delete"},
    count |-> 2, changes |-> 1],
   [users |-> {user1, user2}, reads |-> {"billing_current"}, writes |-> {}, count |-> 2,
    changes |-> 0]}
CacheLifetime == [balances |-> 2, summary |-> 1, integrations |-> 2, billing |-> 2,
             billing_current |-> 2, capabilities |-> 2]

-----------------------------------------------------------------------------

\* Both transactions belong to the one service.
OneService == [n \in {1, 2} |-> s1]

UsersInit ==
  /\ part \in {"chat", "outbox", "promo", "limits", "bootstrap", "caches"}
  /\ IF part = "chat" THEN Init ELSE cast = (CHOOSE c \in ChatCasts : TRUE) /\ Init
  /\ IF part = "outbox" THEN OutboxInit
     ELSE watching = FALSE /\ outboxCast = (CHOOSE c \in OutboxCasts : TRUE) /\ OutboxInit
  /\ IF part = "promo" THEN PromoInit ELSE kind = "balance_credit" /\ PromoInit
  /\ IF part = "limits" THEN LimitsInit ELSE limit = 1 /\ LimitsInit
  /\ BootInit
  /\ IF part = "caches" THEN BotInit ELSE botCast = (CHOOSE c \in BotCasts : TRUE) /\ BotInit

UsersNext ==
  \/ /\ part = "chat" /\ Next
     /\ UNCHANGED <<part, outboxVars, promoVars, limitVars, bootVars, botVars>>
  \/ /\ part = "outbox" /\ OutboxNext
     /\ UNCHANGED <<part, chatVars, promoVars, limitVars, bootVars, botVars>>
  \/ /\ part = "promo" /\ PromoNext
     /\ UNCHANGED <<part, chatVars, outboxVars, limitVars, bootVars, botVars>>
  \/ /\ part = "limits" /\ LimitsNext
     /\ UNCHANGED <<part, chatVars, outboxVars, promoVars, bootVars, botVars>>
  \/ /\ part = "bootstrap" /\ BootNext
     /\ UNCHANGED <<part, chatVars, outboxVars, promoVars, limitVars, botVars>>
  \/ /\ part = "caches" /\ BotNext
     /\ UNCHANGED <<part, chatVars, outboxVars, promoVars, limitVars, bootVars>>

UsersSpec == UsersInit /\ [][UsersNext]_usersVars
=============================================================================
