------------------------------ MODULE ChatScreens ------------------------------
(***************************************************************************)
(* One chat of the Telegram bot: the screens it shows, the buttons they    *)
(* carry and the state kept for the chat (UiState in the FSM storage).     *)
(*                                                                         *)
(* Every screen is an edit of one message, the anchor, and each button     *)
(* carries the revision of the state it was drawn from: a tap on another   *)
(* message or with another revision only redraws the screen.  aiogram      *)
(* handles the updates of a chat concurrently, and a handler loads and     *)
(* saves the state several times with awaits in between, so two updates    *)
(* may overwrite each other; a backend call or an edit may fail, and the   *)
(* bot may restart.                                                        *)
(*                                                                         *)
(* A screen is a route with the integration it is about; pages, filters    *)
(* and texts are left out.  A cast bounds a behaviour: which routes the    *)
(* user visits, how many updates there are and run at once, which calls of *)
(* the backend fail all the time, and whether there is a fault.            *)
(***************************************************************************)
EXTENDS Naturals, Sequences

CONSTANTS Updates,      \* places for updates being handled
          Messages,     \* messages of the bot in the chat
          IntegrationIds, \* integrations of the organization
          None,
          Casts         \* the bounds of the behaviours, see above

WaitingValue == "waiting_value"
Ids == IntegrationIds \cup {None}

Routes ==
  {"main", "spot", "futures", "spot_detail", "futures_detail", "dex", "transactions", "plan",
   "payments", "settings", "admin", "admin_users", "admin_user", "notifications", "integrations",
   "integration", "exchanges", "wallets", "input", "broadcast"}
FirstKinds == {"promo_code", "integration_rename", "integration_cex_account_ref",
               "integration_dex_wallet_address"}
InputKinds ==
  FirstKinds \cup {"integration_cex_api_key", "integration_cex_api_token", "integration_dex_chain",
                  "integration_cex_api_secret", "integration_cex_api_password"}
Acts == {"open", "page", "refresh", "noop", "back", "switch", "buy", "pay", "toggle", "manage",
         "delete", "add", "broadcast"}

\* A screen; an input that is waited for; UiState; a button.
Places == [route : Routes, id : Ids]
Waits == [kind : InputKinds, back : Places]
States == [at : Places, stack : Seq(Places), waiting : Waits \cup {None},
           anchor : Messages \cup {None}, rev : Nat]
ButtonType == [act : Acts, to : Routes \ {"input"}, id : Ids]
              \cup [act : {"input", "pick"}, to : FirstKinds, id : Ids]

ASSUME ChatAssumption ==
  /\ None \notin Messages \cup {WaitingValue} \cup Waits \cup States \cup [at : Places, rev : Nat]
  /\ \A c \in Casts : /\ c.count \in Nat /\ c.owned \subseteq IntegrationIds

VARIABLES cast,     \* the bounds of this behaviour
          left,     \* updates that may still begin
          ui,       \* UiState of the chat
          fsm,      \* the FSM state of the chat: UiInputStates.waiting_value or none
          screen,   \* what each message shows
          owned,    \* the integrations that exist
          update,   \* the updates being handled
          settled,  \* "alone": the last update runs alone; "shown": it ended with an edit
          trouble,  \* what has gone wrong: "overlap", "fault", "drawing", "input" left open
          acted,    \* revisions whose screen has been acted upon
          again     \* whether a screen was acted upon twice

chatVars == <<cast, left, ui, fsm, screen, owned, update, settled, trouble, acted, again>>

To(route, id) == [route |-> route, id |-> id]
MainScreen == To("main", None)
State(at, stack, waiting, anchor, rev) ==
  [at |-> at, stack |-> stack, waiting |-> waiting, anchor |-> anchor, rev |-> rev]
Blank == State(MainScreen, <<>>, None, None, 0)

-----------------------------------------------------------------------------
(* The buttons of the screens *)

Button(act, route, id) == [act |-> act, to |-> route, id |-> id]
BackButton == Button("back", "main", None)
Opens(routes) == {Button("open", r, None) : r \in routes}

MainButtons == Opens({"spot", "futures", "dex", "transactions", "integrations",
                      "notifications", "plan", "settings"})
               \cup {Button("refresh", "main", None), Button("noop", "main", None)}
ExchangeListButtons(list, detail) ==
  {Button("open", detail, None), Button("page", list, None), Button("refresh", list, None), BackButton}
ExchangeDetailButtons(detail) == {Button("refresh", detail, None), BackButton}
WalletListButtons == {Button("open", "dex", None), Button("page", "dex", None),
                      Button("refresh", "dex", None), BackButton}
WalletButtons == {Button("page", "dex", None), Button("noop", "dex", None),
                  Button("refresh", "dex", None), BackButton}
PlanButtons == {Button("noop", "plan", None), Button("switch", "plan", None),
                Button("buy", "payments", None), Button("open", "payments", None),
                Button("input", "promo_code", None), BackButton}
PaymentButtons == {Button("pay", "payments", None), Button("open", "payments", None), BackButton}
SettingsButtons == {Button("toggle", "settings", None), Button("open", "admin", None), BackButton}
AdminButtons == {Button("open", "admin_users", None), BackButton}
UserListButtons == {Button("open", "admin_user", None), Button("page", "admin_users", None), BackButton}
UserButtons == {Button("page", "admin_user", None), BackButton}
NotificationButtons == {Button("toggle", "notifications", None), BackButton}
TransactionButtons == {BackButton}
IntegrationListButtons ==
  {Button("open", "integration", i) : i \in owned}
  \cup {Button("page", "integrations", None), Button("add", "exchanges", None),
        Button("open", "wallets", None), BackButton}
IntegrationButtons(i) ==
  {Button("manage", "integration", i), Button("delete", "integrations", i),
   Button("input", "integration_rename", None), BackButton}
ExchangePickerButtons == {Button("pick", "integration_cex_account_ref", None), BackButton}
WalletPickerButtons == {Button("pick", "integration_dex_wallet_address", None), BackButton}
InputButtons == {BackButton}
BroadcastButtons == {Button("broadcast", r, None) : r \in {"integrations", "plan"}}

Buttons(at) ==
  CASE at.route = "main" -> MainButtons
    [] at.route = "spot" -> ExchangeListButtons("spot", "spot_detail")
    [] at.route = "futures" -> ExchangeListButtons("futures", "futures_detail")
    [] at.route \in {"spot_detail", "futures_detail"} -> ExchangeDetailButtons(at.route)
    [] at.route = "dex" -> WalletListButtons \cup WalletButtons
    [] at.route = "plan" -> PlanButtons
    [] at.route = "payments" -> PaymentButtons
    [] at.route = "settings" -> SettingsButtons
    [] at.route = "admin" -> AdminButtons
    [] at.route = "admin_users" -> UserListButtons
    [] at.route = "admin_user" -> UserButtons
    [] at.route = "notifications" -> NotificationButtons
    [] at.route = "transactions" -> TransactionButtons
    [] at.route = "integrations" -> IntegrationListButtons
    [] at.route = "integration" -> IntegrationButtons(at.id)
    [] at.route = "exchanges" -> ExchangePickerButtons
    [] at.route = "wallets" -> WalletPickerButtons
    [] at.route = "broadcast" -> BroadcastButtons
    [] OTHER -> InputButtons

-----------------------------------------------------------------------------
(* What drawing a screen asks of the backend, and may fail on *)

\* The tariff snapshot takes an empty answer for one that fails.
SnapshotNeeds == {}
MainNeeds == SnapshotNeeds
PlanNeeds == SnapshotNeeds
SettingsNeeds == {}
PickerNeeds == {}
ExchangeListNeeds == SnapshotNeeds \cup {"balances"}
ExchangeDetailNeeds == SnapshotNeeds \cup {"balances"}
DexNeeds == SnapshotNeeds \cup {"balances"}
PaymentNeeds == {"billing"}
AdminNeeds == {"admin"}
NotificationNeeds == {"notifications"}
IntegrationListNeeds == SnapshotNeeds \cup {"integrations"}
IntegrationNeeds == {"integrations"}

Needs(route) ==
  CASE route \in {"spot", "futures"} -> ExchangeListNeeds
    [] route \in {"spot_detail", "futures_detail"} -> ExchangeDetailNeeds
    [] route = "dex" -> DexNeeds
    [] route = "plan" -> PlanNeeds
    [] route = "payments" -> PaymentNeeds
    [] route \in {"admin_users", "admin_user"} -> AdminNeeds
    [] route = "notifications" -> NotificationNeeds
    [] route = "integrations" -> IntegrationListNeeds
    [] route = "integration" -> IntegrationNeeds
    [] route \in {"settings", "admin", "transactions"} -> SettingsNeeds
    [] route \in {"exchanges", "wallets", "input"} -> PickerNeeds
    [] OTHER -> MainNeeds
CanDraw(at) == Needs(at.route) \cap cast.down = {}

\* The screen drawn for a state: an integration that is gone gives the list.
Drawn(at) == IF at.route = "integration" /\ at.id \notin owned THEN To("integrations", None) ELSE at

-----------------------------------------------------------------------------
(* Edits of the state: each is a load and a save of its own *)

Edit(do, value) == [do |-> do, value |-> value]
Forward(at) == Edit("forward", at)
Replace(at) == Edit("replace", at)
GoBack == Edit("back", MainScreen)
Wait(waiting) == Edit("wait", waiting)
Fsm(state) == Edit("fsm", state)
SaveAnchor(m) == Edit("anchor", m)
Act(id) == Edit("act", id)

\* The state s at another screen, with another stack and the next revision.
Moved(s, at, stack) == State(at, stack, s.waiting, s.anchor, s.rev + 1)
Previous(s) == IF s.stack = <<>>
               THEN Moved(s, MainScreen, s.stack)
               ELSE Moved(s, s.stack[Len(s.stack)], SubSeq(s.stack, 1, Len(s.stack) - 1))
Edited(e, s) ==
  CASE e.do = "forward" -> Moved(s, e.value, Append(s.stack, s.at))
    [] e.do = "replace" -> Moved(s, e.value, s.stack)
    [] e.do = "back" -> Previous(s)
    [] e.do = "wait" -> State(s.at, s.stack, e.value, s.anchor, s.rev)
    [] OTHER -> State(s.at, s.stack, s.waiting, e.value, s.rev)

\* Faulty: the step back leaves the input open.
BackOnly(s) == {<<GoBack>>}
\* A step back ends an input that was being waited for.
BackEdits(s) == {IF s.waiting = None THEN <<GoBack>> ELSE <<Wait(None), Fsm(None), GoBack>>}

Asking(kind, back) == [kind |-> kind, back |-> back]
Ask(kind, back) == <<Wait(Asking(kind, back)), Fsm(WaitingValue), Forward(To("input", None))>>

\* What a tap on button b of a screen of the present revision does to the
\* state; where the backend decides, every outcome.  A refresh, a payment, a
\* toggle and a change of an integration call the backend before they redraw.
Refreshes(b) == {<<Act(None), Replace(To(b.to, None))>>}
Pays(b) == {<<Act(None), Replace(To(b.to, None))>>}
Toggles(b) == {<<Act(None), Replace(To(b.to, None))>>}
Manages(b) == {<<Act(None), Replace(To(b.to, b.id))>>}
Deletes(b) == {<<Act(b.id), GoBack>>}
\* A cheaper plan is switched to, for a dearer one an invoice is made; a plan
\* that is current, or a call that fails, is only answered.
Switches == {<<>>, <<Act(None), Replace(To("plan", None))>>}
Buys == {<<>>} \cup {<<Act(None), Replace(To(r, None))>> : r \in {"payments", "plan"}}
\* Without room for one more account the tariffs are shown.
Adds(b) == {<<Forward(To(b.to, None))>>, <<Forward(To("plan", None))>>}
Asks(b, s) == {Ask(b.to, s.at)}
Picks(b) == {Ask(b.to, To("integrations", None))}
Pages(b, s) == {<<Replace(To(b.to, s.at.id))>>}

TapEdits(b, s) ==
  CASE b.act = "noop" -> {<<>>}
    [] b.act = "back" -> BackEdits(s)
    [] b.act = "open" -> {<<Forward(To(b.to, b.id))>>}
    [] b.act = "page" -> Pages(b, s)
    [] b.act = "refresh" -> Refreshes(b)
    [] b.act = "pay" -> Pays(b)
    [] b.act = "toggle" -> Toggles(b)
    [] b.act = "manage" -> Manages(b)
    [] b.act = "delete" -> Deletes(b)
    [] b.act = "switch" -> Switches
    [] b.act = "buy" -> Buys
    [] b.act = "add" -> Adds(b)
    [] b.act = "input" -> Asks(b, s)
    [] OTHER -> Picks(b)

\* The inputs that may follow an input of this kind.
NextKinds(kind) ==
  CASE kind = "integration_cex_account_ref" -> {"integration_cex_api_key", "integration_cex_api_token"}
    [] kind = "integration_cex_api_key" -> {"integration_cex_api_secret"}
    [] kind = "integration_cex_api_secret" -> {"integration_cex_api_password"}
    [] kind = "integration_dex_wallet_address" -> {"integration_dex_chain"}
    [] OTHER -> {}
\* The inputs after which an integration is created.
Creates(kind) == kind \in {"integration_cex_api_token", "integration_cex_api_password",
                           "integration_dex_wallet_address", "integration_dex_chain"}
Done(at) == <<Wait(None), Fsm(None), Replace(at)>>
ActAndDone(id, at) == <<Act(id), Wait(None), Fsm(None), Replace(at)>>
\* Where a value that ends the input of w leads.
Outcomes(w) ==
  CASE w.kind = "promo_code" -> {ActAndDone(None, To("plan", None))}
    [] w.kind = "integration_rename" -> {ActAndDone(None, To("integration", w.back.id))}
    [] Creates(w.kind) ->
         {ActAndDone(i, To("integration", i)) : i \in IntegrationIds \ owned}
    [] OTHER -> {}

\* The value was right, and the next one is asked for.
Asked(w, kind) ==
  <<Wait(None), Wait(Asking(kind, w.back)), Fsm(WaitingValue), Replace(To("input", None))>>

\* What a text does to the state s; the empty sequence is a refused value.
TextEdits(s) ==
  IF s.waiting = None
  THEN {<<Wait(None), Fsm(None), GoBack>>}
  ELSE {<<>>} \cup {Asked(s.waiting, k) : k \in NextKinds(s.waiting.kind)} \cup Outcomes(s.waiting)
       \cup IF s.waiting.kind = "integration_dex_chain" THEN {Done(To("plan", None))} ELSE {}

-----------------------------------------------------------------------------
(* An update being handled *)

\* Before the checks: what was tapped.  After them: the state that was seen, the
\* edits still to make, the state loaded for the next one, and the state that
\* the screen is drawn from.
Handling(kind, msg, button, rev) ==
  [kind |-> kind, msg |-> msg, button |-> button, rev |-> rev, step |-> "check",
   seen |-> None, edits |-> <<>>, read |-> None, view |-> None]
Free == Handling("free", None, None, 0)
Checked(kind, msg, rev, seen, edits, read, view) ==
  [kind |-> kind, msg |-> msg, button |-> None, rev |-> rev, step |-> "edit",
   seen |-> seen, edits |-> edits, read |-> read, view |-> view]
Planned(u, seen, edits) ==
  Checked(u.kind, u.msg, IF u.kind = "tap" THEN u.rev ELSE seen.rev, seen, edits, None, None)
Redraws(u, seen) == Checked("recover", u.msg, 0, seen, <<>>, None, None)

\* The update goes on with these edits.
GoesOn(u, edits, read, view) ==
  update' = [update EXCEPT ![u] =
    Checked(update[u].kind, update[u].msg, update[u].rev, update[u].seen, edits, read, view)]

Alone(u) == \A v \in Updates \ {u} : update[v].kind = "free"
Begin(u, h) ==
  /\ u \in cast.updates
  /\ update[u].kind = "free"
  /\ left > 0
  /\ left' = left - 1
  /\ update' = [update EXCEPT ![u] = h]
  /\ settled' = IF Alone(u) THEN "alone" ELSE "mixed"
  /\ trouble' = trouble \cup {t \in {"overlap"} : ~Alone(u)}
                 \cup {t \in {"input"} : h.kind \in {"start", "broadcast"} /\ ui.waiting # None}
  /\ UNCHANGED <<cast, ui, fsm, screen, owned, acted, again>>

\* The user taps a button of a message as it looks at that moment.
Tap(u, m, b) ==
  /\ screen[m] # None
  /\ b \in Buttons(screen[m].at)
  /\ b.to \in cast.routes
  /\ Begin(u, Handling(IF b.act = "broadcast" THEN "broadcast" ELSE "tap", m, b, screen[m].rev))

\* The user sends a text: it is an input only in the state that waits for one.
Text(u) == fsm = WaitingValue /\ Begin(u, Handling("text", None, None, 0))

\* The user sends /start: a new message will be the anchor.
Start(u, m) == m \in cast.messages /\ m # ui.anchor /\ Begin(u, Handling("start", m, None, 0))

\* A message sent from outside, whose buttons carry the source "broadcast": the
\* handler takes them on any message and with any revision.
Broadcast(m) ==
  /\ m \in cast.broadcasts /\ m # ui.anchor
  /\ screen[m] # [at |-> To("broadcast", None), rev |-> 0]
  /\ screen' = [screen EXCEPT ![m] = [at |-> To("broadcast", None), rev |-> 0]]
  /\ UNCHANGED <<cast, left, ui, fsm, owned, update, settled, trouble, acted, again>>

\* Faulty: only the message is looked at.
OnOldMessage(u) == ui.anchor \notin {None, update[u].msg}
\* A tap on a message that is not the anchor, or on an older screen.
Stale(u) == ui.anchor \notin {None, update[u].msg} \/ update[u].rev # ui.rev

\* The checks of handle_callback; a stale tap only redraws the present screen.
CheckTap(u) ==
  /\ update[u].kind = "tap" /\ update[u].step = "check"
  /\ ui' = IF ui.anchor = None THEN State(ui.at, ui.stack, ui.waiting, update[u].msg, ui.rev)
                               ELSE ui
  /\ \/ Stale(u) /\ update' = [update EXCEPT ![u] = Redraws(update[u], ui)]
     \/ /\ ~Stale(u)
        /\ \E es \in TapEdits(update[u].button, ui) :
             update' = [update EXCEPT ![u] = Planned(update[u], ui, es)]
  /\ UNCHANGED <<cast, left, fsm, screen, owned, settled, trouble, acted, again>>

StartEdits(m) == <<Replace(MainScreen), SaveAnchor(m)>>
BroadcastEdits(m, b) == <<SaveAnchor(m), Replace(To(b.to, None))>>
CheckOther(u) ==
  /\ update[u].step = "check"
  /\ \E es \in CASE update[u].kind = "text" -> TextEdits(ui)
               [] update[u].kind = "start" -> {StartEdits(update[u].msg)}
               [] update[u].kind = "broadcast" -> {BroadcastEdits(update[u].msg, update[u].button)}
               [] OTHER -> {} :
       update' = [update EXCEPT ![u] = Planned(update[u], ui, es)]
  /\ UNCHANGED <<cast, left, ui, fsm, screen, owned, settled, trouble, acted, again>>

Editing(u, kinds) ==
  /\ update[u].step = "edit" /\ update[u].edits # <<>>
  /\ Head(update[u].edits).do \in kinds
NavEdits == {"forward", "replace", "back", "wait", "anchor"}

\* The call of the backend that the tap or the value asks for.
CallBackend(u) ==
  /\ Editing(u, {"act"})
  /\ LET i == Head(update[u].edits).value
     IN owned' = IF i = None THEN owned ELSE IF i \in owned THEN owned \ {i} ELSE owned \cup {i}
  /\ GoesOn(u, Tail(update[u].edits), update[u].read, update[u].view)
  /\ acted' = acted \cup {update[u].rev}
  /\ again' = (again \/ update[u].rev \in acted)
  /\ UNCHANGED <<cast, left, ui, fsm, screen, settled, trouble>>

SetFsm(u) ==
  /\ Editing(u, {"fsm"})
  /\ fsm' = Head(update[u].edits).value
  /\ GoesOn(u, Tail(update[u].edits), update[u].read, update[u].view)
  /\ UNCHANGED <<cast, left, ui, screen, owned, settled, trouble, acted, again>>

Load(u) ==
  /\ Editing(u, NavEdits) /\ update[u].read = None
  /\ GoesOn(u, update[u].edits, ui, update[u].view)
  /\ UNCHANGED <<cast, left, ui, fsm, screen, owned, settled, trouble, acted, again>>

Save(u) ==
  /\ Editing(u, NavEdits) /\ update[u].read # None
  /\ ui' = Edited(Head(update[u].edits), update[u].read)
  /\ GoesOn(u, Tail(update[u].edits), None, ui')
  /\ UNCHANGED <<cast, left, fsm, screen, owned, settled, trouble, acted, again>>

End(u, m, shown, wrong) ==
  /\ screen' = IF m = None THEN screen ELSE [screen EXCEPT ![m] = shown]
  /\ update' = [update EXCEPT ![u] = Free]
  /\ settled' = IF wrong = {} /\ m # None /\ m = ui.anchor /\ settled = "alone" THEN "shown" ELSE "mixed"
  /\ trouble' = trouble \cup wrong
  /\ UNCHANGED <<cast, left, ui, fsm, owned, acted, again>>

\* Faulty: the screen is drawn with the revision that was seen at the start.
DrawnBefore(u) == [at |-> Drawn(update[u].view.at), rev |-> update[u].seen.rev]
\* The screen of the state that the handler has saved.
DrawnAfter(u) == [at |-> Drawn(update[u].view.at), rev |-> update[u].view.rev]

Ready(u) == update[u].step = "edit" /\ update[u].edits = <<>>
Unanswered(u) == update[u].kind # "recover" /\ update[u].view = None

\* The screen is drawn and the message edited: the tapped one, the new one of
\* /start, or the anchor after a text.
Show(u) ==
  /\ Ready(u) /\ update[u].kind # "recover" /\ ~Unanswered(u)
  /\ CanDraw(update[u].view.at)
  /\ End(u, IF update[u].kind = "text" THEN update[u].view.anchor ELSE update[u].msg, DrawnAfter(u), {})

\* A tap that is answered with an alert or nothing, or a value that is refused.
ShowNothing(u) ==
  /\ Ready(u) /\ Unanswered(u) /\ update[u].kind = "tap"
  /\ End(u, None, None, {})
ShowRefused(u) ==
  /\ Ready(u) /\ Unanswered(u) /\ update[u].kind = "text"
  /\ End(u, update[u].seen.anchor, [at |-> To("input", None), rev |-> update[u].seen.rev], {})
Recover(u) ==
  /\ Ready(u) /\ update[u].kind = "recover"
  /\ CanDraw(ui.at)
  /\ End(u, update[u].msg, [at |-> Drawn(ui.at), rev |-> ui.rev], {})

\* One fault of a behaviour, besides the calls that fail all the time.
Faulty == cast.faulty /\ trouble = {}

\* Something raises: a call of the backend, an edit of the message, or the
\* drawing of a screen.  A tap that passed the checks shows the screen it was
\* made on, or the present one; other updates show nothing.
Raises(u) ==
  \/ update[u].step = "edit" /\ Faulty
  \/ Ready(u) /\ update[u].kind = "recover" /\ ~CanDraw(ui.at)
  \/ Ready(u) /\ update[u].kind # "recover" /\ ~Unanswered(u) /\ ~CanDraw(update[u].view.at)
Fail(u) ==
  /\ Raises(u)
  /\ LET back == IF CanDraw(update[u].seen.at) THEN update[u].seen ELSE ui
     IN End(u, IF update[u].kind = "tap" /\ CanDraw(back.at) THEN update[u].msg ELSE None,
            [at |-> Drawn(back.at), rev |-> back.rev], {IF Ready(u) THEN "drawing" ELSE "fault"})

\* The bot restarts: the updates it handled are lost, and so is the state when
\* it was kept in memory.
Restart ==
  /\ Faulty
  /\ \E u \in Updates : update[u].kind # "free"
  /\ update' = [u \in Updates |-> Free]
  /\ settled' = "mixed" /\ trouble' = {"fault"}
  /\ \/ UNCHANGED <<ui, fsm>>
     \/ ui' = Blank /\ fsm' = None
  /\ UNCHANGED <<cast, left, screen, owned, acted, again>>

Init ==
  /\ cast \in Casts /\ left = cast.count
  /\ ui = Blank /\ fsm = None
  /\ screen = [m \in Messages |-> None]
  /\ owned = cast.owned
  /\ update = [u \in Updates |-> Free]
  /\ settled = "mixed" /\ trouble = {}
  /\ acted = {} /\ again = FALSE

Handle(u) ==
  \/ CheckTap(u) \/ CheckOther(u) \/ CallBackend(u) \/ SetFsm(u) \/ Load(u) \/ Save(u)
  \/ Show(u) \/ ShowNothing(u) \/ ShowRefused(u) \/ Recover(u) \/ Fail(u)
Next ==
  \/ \E u \in Updates : Handle(u) \/ Text(u)
  \/ \E u \in Updates, m \in Messages : Start(u, m)
  \/ \E u \in Updates, m \in Messages :
       /\ screen[m] # None
       /\ \E b \in Buttons(screen[m].at) : Tap(u, m, b)
  \/ \E m \in Messages : Broadcast(m)
  \/ Restart
Spec == Init /\ [][Next]_chatVars

-----------------------------------------------------------------------------
Idle == \A u \in Updates : update[u].kind = "free"

EditType ==
  [do : {"forward", "replace"}, value : Places] \cup [do : {"back"}, value : {MainScreen}]
  \cup [do : {"wait"}, value : Waits \cup {None}]
  \cup [do : {"fsm"}, value : {WaitingValue, None}] \cup [do : {"anchor"}, value : Messages]
  \cup [do : {"act"}, value : Ids]
UpdateType ==
  [kind : {"free", "tap", "text", "start", "broadcast", "recover"}, msg : Messages \cup {None},
   button : ButtonType \cup {None}, rev : Nat, step : {"check", "edit"},
   seen : States \cup {None}, edits : Seq(EditType), read : States \cup {None},
   view : States \cup {None}]

TypeOK ==
  /\ cast \in Casts /\ left \in 0 .. cast.count
  /\ ui \in States /\ fsm \in {WaitingValue, None} /\ owned \subseteq IntegrationIds
  /\ screen \in [Messages -> [at : Places, rev : Nat] \cup {None}]
  /\ update \in [Updates -> UpdateType]
  /\ settled \in {"alone", "mixed", "shown"}
  /\ trouble \subseteq {"overlap", "fault", "drawing", "input"}
  /\ acted \subseteq Nat /\ again \in BOOLEAN

\* Whatever overlaps, failures and restarts have left behind, one update that
\* runs alone and meets no fault puts it right: the anchor then shows the
\* screen of the saved state with its revision, or asks again for the value
\* that is waited for.
ShownIsCurrent ==
  settled = "shown" =>
             /\ screen[ui.anchor].rev = ui.rev
             /\ \/ screen[ui.anchor].at = Drawn(ui.at)
                \/ screen[ui.anchor].at.route = "input" /\ ui.waiting # None

\* When updates come one at a time, none fails and no input is left by /start
\* or a broadcast, texts are taken as values exactly while the chat is at the
\* screen that asks for one.
InputWhenAsked ==
  trouble = {} /\ Idle => /\ (fsm = WaitingValue) = (ui.waiting # None)
                        /\ (ui.waiting # None) = (ui.at.route = "input")

\* When updates come one at a time, a screen is acted upon at most once, also
\* when the redrawing fails after the action and the user taps the old screen,
\* on whichever message, again.
ActedOnce == trouble \subseteq {"drawing", "input"} => ~again
===============================================================================
