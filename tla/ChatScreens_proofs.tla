-------------------------- MODULE ChatScreens_proofs --------------------------
(***************************************************************************)
(* Proofs about the screens of a chat, for any number of updates, messages *)
(* and integrations.                                                       *)
(*                                                                         *)
(* An update that runs alone has read the state as it is and draws what it *)
(* has saved (Followed), so what it shows is current until the next update *)
(* begins (ShownLast).  The action of an update comes before the edit that *)
(* raises the revision, on a revision that was not acted upon (ActInv).    *)
(* And at each point, once the edits still to make are made, the value     *)
(* waited for, the FSM state and the screen agree on whether a value is    *)
(* asked for (AskInv).                                                     *)
(***************************************************************************)
EXTENDS ChatScreens, TLAPS

\* The edits that raise the revision.
Moves == {"forward", "replace", "back"}

\* What the position of an update says of it.
Formed(h) ==
  /\ h.kind = "free" => h.step = "check"
  /\ h.step = "check" => h.edits = <<>> /\ h.read = None /\ h.view = None /\ h.kind # "recover"
  /\ h.step = "check" /\ h.kind \in {"tap", "broadcast"} => h.button \in ButtonType
  /\ h.step = "check" /\ h.kind = "tap" => h.button.act # "broadcast"
  /\ h.step = "check" /\ h.kind = "broadcast" => h.button.to \in Routes
  /\ h.step = "edit" => h.seen \in States
  /\ h.kind \in {"tap", "start", "broadcast", "recover"} => h.msg \in Messages
  /\ h.kind = "recover" => h.edits = <<>>

ChatShapes == TypeOK /\ \A u \in Updates : Formed(update[u])

-----------------------------------------------------------------------------
(* Edits.                                                                    *)

\* The edits by what they do.
LEMMA EditKinds ==
  ASSUME NEW e \in EditType
  PROVE  \/ e.do \in Moves /\ e.value \in Places
         \/ e.do = "wait" /\ e.value \in Waits \cup {None}
         \/ e.do = "fsm" /\ e.value \in {WaitingValue, None}
         \/ e.do = "anchor" /\ e.value \in Messages
         \/ e.do = "act" /\ e.value \in Ids
<1>1. MainScreen \in Places
  BY DEF MainScreen, To, Places, Routes, Ids
<1> QED  BY <1>1 DEF EditType, Moves

\* What the operators make are edits.
LEMMA EditsMade ==
  /\ None \in Ids /\ MainScreen \in Places /\ GoBack \in EditType
  /\ Wait(None) \in EditType /\ Fsm(None) \in EditType /\ Fsm(WaitingValue) \in EditType
  /\ \A p \in Places : Forward(p) \in EditType /\ Replace(p) \in EditType
  /\ \A w \in Waits : Wait(w) \in EditType
  /\ \A m \in Messages : SaveAnchor(m) \in EditType
  /\ \A i \in Ids : Act(i) \in EditType
  /\ \A r \in Routes, i \in Ids : To(r, i) \in Places
  /\ \A k \in InputKinds, p \in Places : Asking(k, p) \in Waits
<1>11. \A r \in Routes, i \in Ids : To(r, i) \in Places
  BY DEF To, Places
<1>10. None \in Ids
  BY DEF Ids
<1>8. "main" \in Routes
  BY DEF Routes
<1>1. None \in Ids /\ MainScreen \in Places
  BY <1>8, <1>10, <1>11 DEF MainScreen
<1>2. GoBack \in EditType
  BY <1>1 DEF GoBack, Edit, EditType
<1>3. Wait(None) \in EditType /\ Fsm(None) \in EditType /\ Fsm(WaitingValue) \in EditType
  BY DEF Wait, Fsm, Edit, EditType
<1>4. \A p \in Places : Forward(p) \in EditType /\ Replace(p) \in EditType
  BY DEF Forward, Replace, Edit, EditType
<1>5. \A w \in Waits : Wait(w) \in EditType
  BY DEF Wait, Edit, EditType
<1>6. \A m \in Messages : SaveAnchor(m) \in EditType
  BY DEF SaveAnchor, Edit, EditType
<1>7. \A i \in Ids : Act(i) \in EditType
  BY DEF Act, Edit, EditType
<1>9. \A k \in InputKinds, p \in Places : Asking(k, p) \in Waits
  BY DEF Asking, Waits
<1> QED  BY <1>1, <1>2, <1>3, <1>4, <1>5, <1>6, <1>7, <1>9, <1>11

\* Short sequences.
LEMMA Listed ==
  ASSUME NEW S, NEW a \in S, NEW b \in S, NEW c \in S, NEW d \in S
  PROVE  /\ <<>> \in Seq(S) /\ <<a>> \in Seq(S) /\ <<a, b>> \in Seq(S)
         /\ <<a, b, c>> \in Seq(S) /\ <<a, b, c, d>> \in Seq(S)
OBVIOUS

\* A state at another screen.
LEMMA MovedState ==
  ASSUME NEW s \in States, NEW p \in Places, NEW q \in Seq(Places)
  PROVE  /\ Moved(s, p, q) \in States
         /\ Moved(s, p, q).at = p /\ Moved(s, p, q).stack = q /\ Moved(s, p, q).rev = s.rev + 1
         /\ Moved(s, p, q).waiting = s.waiting /\ Moved(s, p, q).anchor = s.anchor
BY DEF Moved, State, States

\* A state that is edited is a state.
LEMMA EditedState ==
  ASSUME NEW e \in EditType, e.do \in NavEdits, NEW s \in States
  PROVE  Edited(e, s) \in States
<1>1. CASE e.do \in {"forward", "replace"}
  <2>1. e.value \in Places /\ s.stack \in Seq(Places) /\ s.at \in Places
    BY <1>1, EditKinds DEF States, Moves
  <2>2. Append(s.stack, s.at) \in Seq(Places)
    BY <2>1
  <2> QED  BY <1>1, <2>1, <2>2, MovedState DEF Edited
<1>2. CASE e.do = "back"
  <2>1. s.stack \in Seq(Places)
    BY DEF States
  <2>2. CASE s.stack = <<>>
    BY <1>2, <2>1, <2>2, EditsMade, MovedState DEF Edited, Previous
  <2>3. CASE s.stack # <<>>
    <3>1. s.stack[Len(s.stack)] \in Places /\ SubSeq(s.stack, 1, Len(s.stack) - 1) \in Seq(Places)
      BY <2>1, <2>3
    <3> QED  BY <1>2, <2>3, <3>1, MovedState DEF Edited, Previous
  <2> QED  BY <2>2, <2>3
<1>3. CASE e.do = "wait"
  <2>1. e.value \in Waits \cup {None}
    BY <1>3, EditKinds DEF Moves
  <2> QED  BY <1>3, <2>1 DEF Edited, State, States
<1>4. CASE e.do = "anchor"
  <2>1. e.value \in Messages
    BY <1>4, EditKinds DEF Moves
  <2> QED  BY <1>4, <2>1 DEF Edited, State, States
<1> QED  BY <1>1, <1>2, <1>3, <1>4 DEF NavEdits

\* The buttons of every screen.
LEMMA ButtonsMade ==
  ASSUME TypeOK, NEW p \in Places
  PROVE  Buttons(p) \subseteq ButtonType
<1>1. None \in Ids /\ p.id \in Ids /\ p.route \in Routes /\ owned \subseteq Ids
  BY DEF Ids, Places, TypeOK
<1>2. \A a \in Acts, r \in Routes \ {"input"}, i \in Ids : Button(a, r, i) \in ButtonType
  BY DEF Button, ButtonType
<1>3. \A a \in {"input", "pick"}, r \in FirstKinds, i \in Ids : Button(a, r, i) \in ButtonType
  BY DEF Button, ButtonType
<1>4. \A S : S \subseteq Routes \ {"input"} => Opens(S) \subseteq ButtonType
  BY <1>1, <1>2 DEF Opens, Acts
<1>5. BackButton \in ButtonType
  BY <1>1, <1>2 DEF BackButton, Acts, Routes
<1>6. MainButtons \subseteq ButtonType
  <2>1. {"spot", "futures", "dex", "transactions", "integrations", "notifications", "plan",
         "settings"} \subseteq Routes \ {"input"}
    BY DEF Routes
  <2>2. "refresh" \in Acts /\ "noop" \in Acts /\ "main" \in Routes \ {"input"}
    BY DEF Acts, Routes
  <2> QED  BY <1>1, <1>2, <1>4, <2>1, <2>2 DEF MainButtons
<1>7. \A l, d \in Routes \ {"input"} : ExchangeListButtons(l, d) \subseteq ButtonType
  <2>1. "open" \in Acts /\ "page" \in Acts /\ "refresh" \in Acts
    BY DEF Acts
  <2> QED  BY <1>1, <1>2, <1>5, <2>1 DEF ExchangeListButtons
<1>8. \A d \in Routes \ {"input"} : ExchangeDetailButtons(d) \subseteq ButtonType
  BY <1>1, <1>2, <1>5 DEF ExchangeDetailButtons, Acts
<1>9. WalletListButtons \cup WalletButtons \subseteq ButtonType
  <2>1. {"open", "page", "refresh", "noop"} \subseteq Acts /\ "dex" \in Routes \ {"input"}
    BY DEF Acts, Routes
  <2> QED  BY <1>1, <1>2, <1>5, <2>1 DEF WalletListButtons, WalletButtons
<1>10. PlanButtons \cup PaymentButtons \subseteq ButtonType
  <2>1. {"open", "noop", "switch", "buy", "pay"} \subseteq Acts
    BY DEF Acts
  <2>2. {"plan", "payments"} \subseteq Routes \ {"input"} /\ "promo_code" \in FirstKinds
    BY DEF Routes, FirstKinds
  <2> QED  BY <1>1, <1>2, <1>3, <1>5, <2>1, <2>2 DEF PlanButtons, PaymentButtons
<1>11. SettingsButtons \cup AdminButtons \cup UserListButtons \cup UserButtons \subseteq ButtonType
  <2>1. {"open", "page", "toggle"} \subseteq Acts
    BY DEF Acts
  <2>2. {"settings", "admin", "admin_users", "admin_user"} \subseteq Routes \ {"input"}
    BY DEF Routes
  <2> QED
    BY <1>1, <1>2, <1>5, <2>1, <2>2 DEF SettingsButtons, AdminButtons, UserListButtons, UserButtons
<1>12. NotificationButtons \cup TransactionButtons \cup InputButtons \subseteq ButtonType
  BY <1>1, <1>2, <1>5
     DEF NotificationButtons, TransactionButtons, InputButtons, Acts, Routes
<1>13. IntegrationListButtons \subseteq ButtonType
  <2>1. {"open", "page", "add"} \subseteq Acts
    BY DEF Acts
  <2>2. {"integration", "integrations", "exchanges", "wallets"} \subseteq Routes \ {"input"}
    BY DEF Routes
  <2> QED  BY <1>1, <1>2, <1>5, <2>1, <2>2 DEF IntegrationListButtons
<1>14. IntegrationButtons(p.id) \subseteq ButtonType
  <2>1. {"manage", "delete"} \subseteq Acts
    BY DEF Acts
  <2>2. {"integration", "integrations"} \subseteq Routes \ {"input"}
        /\ "integration_rename" \in FirstKinds
    BY DEF Routes, FirstKinds
  <2> QED  BY <1>1, <1>2, <1>3, <1>5, <2>1, <2>2 DEF IntegrationButtons
<1>15. ExchangePickerButtons \cup WalletPickerButtons \subseteq ButtonType
  BY <1>1, <1>3, <1>5 DEF ExchangePickerButtons, WalletPickerButtons, FirstKinds
<1>16. BroadcastButtons \subseteq ButtonType
  <2>1. "broadcast" \in Acts /\ {"integrations", "plan"} \subseteq Routes \ {"input"}
    BY DEF Acts, Routes
  <2> QED  BY <1>1, <1>2, <2>1 DEF BroadcastButtons
<1>17. {"spot", "spot_detail", "futures", "futures_detail"} \subseteq Routes \ {"input"}
  BY DEF Routes
<1>18. CASE p.route \in {"spot", "futures", "spot_detail", "futures_detail"}
  <2>1. \/ Buttons(p) = ExchangeListButtons("spot", "spot_detail")
        \/ Buttons(p) = ExchangeListButtons("futures", "futures_detail")
        \/ Buttons(p) = ExchangeDetailButtons(p.route)
    BY <1>18 DEF Buttons
  <2> QED  BY <1>7, <1>8, <1>17, <1>18, <2>1
<1>19. CASE p.route \notin {"spot", "futures", "spot_detail", "futures_detail"}
  BY <1>6, <1>9, <1>10, <1>11, <1>12, <1>13, <1>14, <1>15, <1>16, <1>19 DEF Buttons
<1> QED  BY <1>18, <1>19

\* Texts and taps: what they ask for are edits.
LEMMA AsksMade ==
  ASSUME NEW k \in InputKinds, NEW p \in Places
  PROVE  Ask(k, p) \in Seq(EditType)
<1>1. To("input", None) \in Places
  BY EditsMade DEF Routes
<1>2. Asking(k, p) \in Waits
  BY EditsMade
<1>3. Wait(Asking(k, p)) \in EditType /\ Fsm(WaitingValue) \in EditType
      /\ Forward(To("input", None)) \in EditType
  BY <1>1, <1>2, EditsMade
<1> QED  BY <1>3, Listed DEF Ask

\* The end of an input.
LEMMA DoneMade ==
  ASSUME NEW i \in Ids, NEW p \in Places
  PROVE  Done(p) \in Seq(EditType) /\ ActAndDone(i, p) \in Seq(EditType)
<1>1. Act(i) \in EditType /\ Wait(None) \in EditType /\ Fsm(None) \in EditType
      /\ Replace(p) \in EditType
  BY EditsMade
<1> QED  BY <1>1, Listed DEF Done, ActAndDone

\* What a tap asks for.
LEMMA TapsMade ==
  ASSUME NEW b \in ButtonType, b.act # "broadcast", NEW s \in States, NEW es \in TapEdits(b, s)
  PROVE  es \in Seq(EditType)
<1>1. s.at \in Places /\ s.at.id \in Ids /\ b.id \in Ids /\ None \in Ids
  BY DEF States, Places, ButtonType, Ids
<1>2. \A p \in Places : /\ <<Forward(p)>> \in Seq(EditType) /\ <<Replace(p)>> \in Seq(EditType)
                        /\ \A i \in Ids : <<Act(i), Replace(p)>> \in Seq(EditType)
  BY EditsMade, Listed
<1>3. \A i \in Ids : <<GoBack>> \in Seq(EditType) /\ <<Act(i), GoBack>> \in Seq(EditType)
  BY EditsMade, Listed
<1>4. <<>> \in Seq(EditType) /\ <<Wait(None), Fsm(None), GoBack>> \in Seq(EditType)
  BY EditsMade, Listed
<1>5. {"plan", "payments", "integrations"} \subseteq Routes
  BY DEF Routes
<1>6. CASE b.act \in {"input", "pick"}
  <2>1. b.to \in InputKinds
    BY <1>6 DEF ButtonType, Acts, InputKinds
  <2>2. es = Ask(b.to, s.at) \/ es = Ask(b.to, To("integrations", None))
    BY <1>6 DEF TapEdits, Asks, Picks
  <2>3. To("integrations", None) \in Places
    BY <1>1, <1>5, EditsMade
  <2> QED  BY <1>1, <2>1, <2>2, <2>3, AsksMade
<1>7. CASE b.act \notin {"input", "pick"}
  <2>1. b.to \in Routes /\ b.act \in Acts
    BY <1>7 DEF ButtonType
  <2>2. /\ To(b.to, None) \in Places /\ To(b.to, b.id) \in Places /\ To(b.to, s.at.id) \in Places
        /\ To("plan", None) \in Places /\ To("payments", None) \in Places
    BY <1>1, <1>5, <2>1, EditsMade
  <2>3. CASE b.act \in {"noop", "back"}
    BY <1>3, <1>4, <2>3 DEF TapEdits, BackEdits, Ids
  <2>4. CASE b.act \in {"open", "page"}
    BY <1>2, <2>2, <2>4 DEF TapEdits, Pages
  <2>5. CASE b.act \in {"refresh", "pay", "toggle", "manage", "delete"}
    BY <1>1, <1>2, <1>3, <2>2, <2>5 DEF TapEdits, Refreshes, Pays, Toggles, Manages, Deletes
  <2>6. CASE b.act \in {"switch", "buy", "add"}
    BY <1>1, <1>2, <1>4, <2>2, <2>6 DEF TapEdits, Switches, Buys, Adds
  <2> QED  BY <2>1, <2>3, <2>4, <2>5, <2>6 DEF Acts
<1> QED  BY <1>6, <1>7

\* What a text asks for.
LEMMA TextsMade ==
  ASSUME NEW s \in States, owned \subseteq IntegrationIds, NEW es \in TextEdits(s)
  PROVE  es \in Seq(EditType)
<1>1. <<>> \in Seq(EditType) /\ <<Wait(None), Fsm(None), GoBack>> \in Seq(EditType)
  BY EditsMade, Listed
<1>2. CASE s.waiting = None
  BY <1>1, <1>2 DEF TextEdits
<1>3. CASE s.waiting # None
  <2> DEFINE w == s.waiting
  <2>1. w \in Waits /\ w.back \in Places /\ w.back.id \in Ids /\ None \in Ids
    BY <1>3 DEF States, Waits, Places, Ids
  <2> HIDE DEF w
  <2>2. {"plan", "integration", "input"} \subseteq Routes
    BY DEF Routes
  <2>3. \A k : NextKinds(k) \subseteq InputKinds
    BY DEF NextKinds, InputKinds
  <2>4. \A k \in InputKinds : Asked(w, k) \in Seq(EditType)
    <3> SUFFICES ASSUME NEW k \in InputKinds PROVE Asked(w, k) \in Seq(EditType)
      OBVIOUS
    <3>1. Asking(k, w.back) \in Waits /\ To("input", None) \in Places
      BY <2>1, <2>2, EditsMade
    <3>2. Wait(Asking(k, w.back)) \in EditType /\ Replace(To("input", None)) \in EditType
          /\ Wait(None) \in EditType /\ Fsm(WaitingValue) \in EditType
      BY <3>1, EditsMade
    <3> QED  BY <3>2, Listed DEF Asked
  <2>5. \A i \in Ids : To("integration", i) \in Places /\ To("plan", i) \in Places
    BY <2>2, EditsMade
  <2>6. \A e \in Outcomes(w) : e \in Seq(EditType)
    <3>1. \A i \in IntegrationIds \ owned : i \in Ids
      BY DEF Ids
    <3> QED  BY <2>1, <2>5, <3>1, DoneMade DEF Outcomes
  <2>7. Done(To("plan", None)) \in Seq(EditType)
    BY <2>1, <2>5, DoneMade
  <2>8. \/ es = <<>> \/ es \in Outcomes(w) \/ es = Done(To("plan", None))
        \/ \E k \in NextKinds(w.kind) : es = Asked(w, k)
    BY <1>3 DEF TextEdits, w
  <2> QED  BY <1>1, <2>3, <2>4, <2>6, <2>7, <2>8
<1> QED  BY <1>2, <1>3

-----------------------------------------------------------------------------
(* The types.                                                                *)

\* An update that goes on keeps its type and what its position says.
LEMMA UpdateShapes ==
  ASSUME ChatShapes, NEW u \in Updates, NEW h \in UpdateType, Formed(h),
         update' = [update EXCEPT ![u] = h]
  PROVE  /\ update' \in [Updates -> UpdateType]
         /\ \A v \in Updates : Formed(update'[v])
         /\ \A v \in Updates : update'[v] = IF v = u THEN h ELSE update[v]
BY DEF ChatShapes, TypeOK

\* An update that is making its edits.
LEMMA GoesOnShapes ==
  ASSUME ChatShapes, NEW u \in Updates, update[u].step = "edit", update[u].kind # "recover",
         NEW es \in Seq(EditType), NEW read \in States \cup {None}, NEW view \in States \cup {None},
         GoesOn(u, es, read, view)
  PROVE  /\ update' \in [Updates -> UpdateType]
         /\ \A v \in Updates : Formed(update'[v])
<1> DEFINE h == Checked(update[u].kind, update[u].msg, update[u].rev, update[u].seen, es, read, view)
<1>1. update[u] \in UpdateType /\ Formed(update[u])
  BY DEF ChatShapes, TypeOK
<1>2. h \in UpdateType
  BY <1>1 DEF UpdateType, Checked
<1>3. Formed(h)
  BY <1>1 DEF Formed, Checked
<1>4. update' = [update EXCEPT ![u] = h]
  BY DEF GoesOn
<1> QED  BY <1>2, <1>3, <1>4, UpdateShapes

\* A place that is free.
LEMMA FreeShape == Free \in UpdateType /\ Formed(Free)
BY DEF Free, Handling, UpdateType, Formed

\* An update begins, with what was tapped.
LEMMA BeginShapes ==
  ASSUME ChatShapes, ChatAssumption, NEW u \in Updates,
         NEW kind \in {"tap", "text", "start", "broadcast"}, NEW m \in Messages \cup {None},
         NEW b \in ButtonType \cup {None}, NEW rev \in Nat,
         kind \in {"tap", "broadcast"} => b \in ButtonType,
         kind = "tap" => b.act # "broadcast", kind = "broadcast" => b.to \in Routes,
         kind # "text" => m \in Messages,
         Begin(u, Handling(kind, m, b, rev))
  PROVE  ChatShapes'
<1> DEFINE h == Handling(kind, m, b, rev)
<1>1. h \in UpdateType /\ Formed(h) /\ h.kind = kind
  BY DEF Handling, UpdateType, Formed
<1>2. /\ left > 0 /\ left' = left - 1 /\ update' = [update EXCEPT ![u] = h]
      /\ settled' \in {"alone", "mixed"} /\ trouble' \subseteq trouble \cup {"overlap", "input"}
      /\ UNCHANGED <<cast, ui, fsm, screen, owned, acted, again>>
  BY DEF Begin
<1> HIDE DEF h
<1>3. update' \in [Updates -> UpdateType] /\ \A v \in Updates : Formed(update'[v])
  BY <1>1, <1>2, UpdateShapes
<1>4. left' \in 0 .. cast.count
  BY <1>2, ChatAssumption DEF ChatShapes, TypeOK
<1> QED  BY <1>2, <1>3, <1>4 DEF ChatShapes, TypeOK

\* An update begins.
LEMMA UserShapes ==
  ASSUME ChatShapes, ChatAssumption, NEW u \in Updates,
         \/ Text(u) \/ \E m \in Messages : Start(u, m)
         \/ \E m \in Messages : \E b \in Buttons(screen[m].at) : screen[m] # None /\ Tap(u, m, b)
  PROVE  ChatShapes'
<1>1. 0 \in Nat /\ None \in ButtonType \cup {None} /\ None \in Messages \cup {None}
  OBVIOUS
<1>2. CASE Text(u)
  BY <1>1, <1>2, BeginShapes DEF Text
<1>3. ASSUME NEW m \in Messages, Start(u, m) PROVE ChatShapes'
  BY <1>1, <1>3, BeginShapes DEF Start
<1>4. ASSUME NEW m \in Messages, NEW b \in Buttons(screen[m].at), screen[m] # None, Tap(u, m, b)
      PROVE  ChatShapes'
  <2> DEFINE kind == IF b.act = "broadcast" THEN "broadcast" ELSE "tap"
  <2>1. screen[m].at \in Places /\ screen[m].rev \in Nat
    BY <1>4 DEF ChatShapes, TypeOK
  <2>2. b \in ButtonType
    BY <2>1, ButtonsMade DEF ChatShapes
  <2>3. Begin(u, Handling(kind, m, b, screen[m].rev))
    BY <1>4 DEF Tap
  <2>4. b.act = "broadcast" => b.to \in Routes
    BY <2>2 DEF ButtonType
  <2> QED  BY <2>1, <2>2, <2>3, <2>4, BeginShapes
<1> QED  BY <1>2, <1>3, <1>4

\* The checks of an update.
LEMMA CheckShapes ==
  ASSUME ChatShapes, NEW u \in Updates, CheckTap(u) \/ CheckOther(u)
  PROVE  ChatShapes'
<1> DEFINE h == update[u]
<1>1. h \in UpdateType /\ Formed(h) /\ ui \in States /\ owned \subseteq IntegrationIds
      /\ h.step = "check"
  BY DEF ChatShapes, TypeOK, CheckTap, CheckOther
<1>2. /\ UNCHANGED <<cast, left, fsm, screen, owned, settled, trouble, acted, again>>
      /\ ui' \in States
  <2>1. CASE CheckTap(u)
    <3>1. h.kind = "tap" /\ h.msg \in Messages
      BY <1>1, <2>1 DEF CheckTap, Formed
    <3>2. State(ui.at, ui.stack, ui.waiting, h.msg, ui.rev) \in States
      BY <1>1, <3>1 DEF State, States
    <3> QED  BY <1>1, <2>1, <3>2 DEF CheckTap
  <2>2. CASE CheckOther(u)
    BY <1>1, <2>2 DEF CheckOther
  <2> QED  BY <2>1, <2>2
<1>3. ASSUME NEW es \in Seq(EditType), h.kind # "free"
      PROVE  Planned(h, ui, es) \in UpdateType /\ Formed(Planned(h, ui, es))
  <2>1. (IF h.kind = "tap" THEN h.rev ELSE ui.rev) \in Nat
    BY <1>1 DEF UpdateType, States
  <2> QED  BY <1>1, <1>3, <2>1 DEF Planned, Checked, UpdateType, Formed
<1>4. \E k \in UpdateType : Formed(k) /\ update' = [update EXCEPT ![u] = k]
  <2>1. CASE CheckTap(u)
    <3>1. h.kind = "tap" /\ h.msg \in Messages /\ h.button \in ButtonType /\ h.button.act # "broadcast"
      BY <1>1, <2>1 DEF CheckTap, Formed
    <3>2. Redraws(h, ui) \in UpdateType /\ Formed(Redraws(h, ui))
      BY <1>1, <3>1, Listed DEF Redraws, Checked, UpdateType, Formed
    <3> QED  BY <1>1, <1>3, <2>1, <3>1, <3>2, TapsMade DEF CheckTap
  <2>2. CASE CheckOther(u)
    <3>1. CASE h.kind = "text"
      BY <1>1, <1>3, <2>2, <3>1, TextsMade DEF CheckOther
    <3>2. CASE h.kind = "start"
      <4>1. h.msg \in Messages
        BY <1>1, <3>2 DEF Formed
      <4>2. StartEdits(h.msg) \in Seq(EditType)
        BY <4>1, EditsMade, Listed DEF StartEdits
      <4> QED  BY <1>3, <2>2, <3>2, <4>2 DEF CheckOther
    <3>3. CASE h.kind = "broadcast"
      <4>1. h.msg \in Messages /\ h.button \in ButtonType /\ h.button.to \in Routes
        BY <1>1, <3>3 DEF Formed
      <4>2. To(h.button.to, None) \in Places
        BY <4>1, EditsMade
      <4>3. BroadcastEdits(h.msg, h.button) \in Seq(EditType)
        BY <4>1, <4>2, EditsMade, Listed DEF BroadcastEdits
      <4> QED  BY <1>3, <2>2, <3>3, <4>3 DEF CheckOther
    <3> QED  BY <2>2, <3>1, <3>2, <3>3 DEF CheckOther
  <2> QED  BY <2>1, <2>2
<1>5. update' \in [Updates -> UpdateType] /\ \A v \in Updates : Formed(update'[v])
  BY <1>4, UpdateShapes
<1> QED  BY <1>2, <1>5 DEF ChatShapes, TypeOK

\* An edit that is made.
LEMMA EditingShapes ==
  ASSUME ChatShapes, NEW u \in Updates, CallBackend(u) \/ SetFsm(u) \/ Load(u) \/ Save(u)
  PROVE  ChatShapes'
<1> DEFINE h == update[u]
           e == Head(h.edits)
<1>1. /\ h \in UpdateType /\ Formed(h) /\ h.step = "edit" /\ h.edits # <<>>
      /\ ui \in States /\ owned \subseteq IntegrationIds /\ acted \subseteq Nat
      /\ h.edits \in Seq(EditType) /\ h.rev \in Nat
      /\ h.read \in States \cup {None} /\ h.view \in States \cup {None}
  BY DEF ChatShapes, TypeOK, CallBackend, SetFsm, Load, Save, Editing, UpdateType
<1>2. h.kind # "recover"
  BY <1>1 DEF Formed
<1>3. e \in EditType /\ Tail(h.edits) \in Seq(EditType)
  BY <1>1
<1> HIDE DEF e
<1>4. CASE CallBackend(u)
  <2>1. e.value \in Ids /\ GoesOn(u, Tail(h.edits), h.read, h.view)
        /\ owned' = (IF e.value = None THEN owned
                     ELSE IF e.value \in owned THEN owned \ {e.value} ELSE owned \cup {e.value})
        /\ acted' = acted \cup {h.rev}
        /\ UNCHANGED <<cast, left, ui, fsm, screen, settled, trouble>>
    BY <1>3, <1>4, EditKinds DEF CallBackend, Editing, e, Moves
  <2>2. owned' \subseteq IntegrationIds
    BY <1>1, <2>1 DEF Ids
  <2>3. again' \in BOOLEAN
    BY <1>4 DEF CallBackend
  <2>4. acted' \subseteq Nat
    BY <1>1, <2>1
  <2> QED  BY <1>1, <1>2, <1>3, <2>1, <2>2, <2>3, <2>4, GoesOnShapes DEF ChatShapes, TypeOK
<1>5. CASE SetFsm(u)
  <2>1. e.value \in {WaitingValue, None} /\ GoesOn(u, Tail(h.edits), h.read, h.view)
        /\ fsm' = e.value /\ UNCHANGED <<cast, left, ui, screen, owned, settled, trouble, acted, again>>
    BY <1>3, <1>5, EditKinds DEF SetFsm, Editing, e, Moves
  <2> QED  BY <1>1, <1>2, <1>3, <2>1, GoesOnShapes DEF ChatShapes, TypeOK
<1>6. CASE Load(u)
  <2>1. GoesOn(u, h.edits, ui, h.view)
        /\ UNCHANGED <<cast, left, ui, fsm, screen, owned, settled, trouble, acted, again>>
    BY <1>6 DEF Load
  <2> QED  BY <1>1, <1>2, <2>1, GoesOnShapes DEF ChatShapes, TypeOK
<1>7. CASE Save(u)
  <2>1. e.do \in NavEdits /\ h.read \in States /\ ui' = Edited(e, h.read)
        /\ GoesOn(u, Tail(h.edits), None, ui')
        /\ UNCHANGED <<cast, left, fsm, screen, owned, settled, trouble, acted, again>>
    BY <1>1, <1>7 DEF Save, Editing, e
  <2>2. ui' \in States
    BY <1>3, <2>1, EditedState
  <2> QED  BY <1>1, <1>2, <1>3, <2>1, <2>2, GoesOnShapes DEF ChatShapes, TypeOK
<1> QED  BY <1>4, <1>5, <1>6, <1>7

\* A screen that is drawn is one.
LEMMA DrawnPlace ==
  ASSUME NEW p \in Places
  PROVE  Drawn(p) \in Places
<1>1. To("integrations", None) \in Places
  BY EditsMade DEF Routes
<1> QED  BY <1>1 DEF Drawn

\* An update ends.
LEMMA EndShapes ==
  ASSUME ChatShapes, NEW u \in Updates, NEW m \in Messages \cup {None},
         NEW wrong \in SUBSET {"fault", "drawing"},
         NEW p \in Places, NEW rev \in Nat, End(u, m, [at |-> p, rev |-> rev], wrong)
  PROVE  ChatShapes'
<1>1. [at |-> p, rev |-> rev] \in [at : Places, rev : Nat]
  OBVIOUS
<1>2. /\ screen' = IF m = None THEN screen ELSE [screen EXCEPT ![m] = [at |-> p, rev |-> rev]]
      /\ update' = [update EXCEPT ![u] = Free]
      /\ settled' \in {"shown", "mixed"} /\ trouble' = trouble \cup wrong
      /\ UNCHANGED <<cast, left, ui, fsm, owned, acted, again>>
  BY DEF End
<1>3. screen' \in [Messages -> [at : Places, rev : Nat] \cup {None}]
  BY <1>1, <1>2 DEF ChatShapes, TypeOK
<1>4. update' \in [Updates -> UpdateType] /\ \A v \in Updates : Formed(update'[v])
  BY <1>2, FreeShape, UpdateShapes
<1> QED  BY <1>2, <1>3, <1>4 DEF ChatShapes, TypeOK

\* The ways in which an update ends.
LEMMA EndsShapes ==
  ASSUME ChatShapes, ChatAssumption, NEW u \in Updates,
         Show(u) \/ ShowNothing(u) \/ ShowRefused(u) \/ Recover(u) \/ Fail(u)
  PROVE  ChatShapes'
<1> DEFINE h == update[u]
<1>1. /\ h \in UpdateType /\ Formed(h) /\ ui \in States
      /\ ui.at \in Places /\ ui.rev \in Nat /\ ui.anchor \in Messages \cup {None}
  BY DEF ChatShapes, TypeOK, States
<1>2. \A s \in States : Drawn(s.at) \in Places /\ s.rev \in Nat /\ s.anchor \in Messages \cup {None}
  BY DrawnPlace DEF States
<1>3. h.msg \in Messages \cup {None} /\ h.view \in States \cup {None}
  BY <1>1 DEF UpdateType
<1>4. {} \in SUBSET {"fault", "drawing"} /\ MainScreen \in Places /\ 0 \in Nat
  BY EditsMade
<1>5. CASE Show(u)
  <2>1. h.view \in States
    BY <1>3, <1>5 DEF Show, Unanswered
  <2> DEFINE m == IF h.kind = "text" THEN h.view.anchor ELSE h.msg
  <2>2. m \in Messages \cup {None}
    BY <1>2, <1>3, <2>1
  <2>3. End(u, m, [at |-> Drawn(h.view.at), rev |-> h.view.rev], {})
    BY <1>5 DEF Show, DrawnAfter
  <2> QED  BY <1>2, <1>4, <2>1, <2>2, <2>3, EndShapes
<1>6. CASE ShowNothing(u)
  <2>1. /\ update' = [update EXCEPT ![u] = Free] /\ screen' = screen
        /\ settled' = "mixed" /\ trouble' = trouble
        /\ UNCHANGED <<cast, left, ui, fsm, owned, acted, again>>
    BY <1>6 DEF ShowNothing, End
  <2>2. update' \in [Updates -> UpdateType] /\ \A v \in Updates : Formed(update'[v])
    BY <2>1, FreeShape, UpdateShapes
  <2> QED  BY <2>1, <2>2 DEF ChatShapes, TypeOK
<1>7. CASE ShowRefused(u)
  <2>1. h.seen \in States
    BY <1>1, <1>7 DEF ShowRefused, Ready, Formed
  <2>2. End(u, h.seen.anchor, [at |-> To("input", None), rev |-> h.seen.rev], {})
    BY <1>7 DEF ShowRefused
  <2>3. To("input", None) \in Places
    BY EditsMade DEF Routes
  <2> QED  BY <1>2, <1>4, <2>1, <2>2, <2>3, EndShapes
<1>8. CASE Recover(u)
  BY <1>1, <1>2, <1>3, <1>4, <1>8, EndShapes DEF Recover
<1>9. CASE Fail(u)
  <2> DEFINE back == IF CanDraw(h.seen.at) THEN h.seen ELSE ui
             m == IF h.kind = "tap" /\ CanDraw(back.at) THEN h.msg ELSE None
             wrong == {IF Ready(u) THEN "drawing" ELSE "fault"}
  <2>1. h.seen \in States
    BY <1>1, <1>9 DEF Fail, Raises, Ready, Formed
  <2>2. back \in States
    BY <1>1, <2>1
  <2>3. End(u, m, [at |-> Drawn(back.at), rev |-> back.rev], wrong)
    BY <1>9 DEF Fail
  <2>4. m \in Messages \cup {None} /\ wrong \in SUBSET {"fault", "drawing"}
    BY <1>3
  <2> HIDE DEF back, m, wrong
  <2> QED  BY <1>2, <2>2, <2>3, <2>4, EndShapes
<1> QED  BY <1>5, <1>6, <1>7, <1>8, <1>9

\* A message from outside, and a restart.
LEMMA OutsideShapes ==
  ASSUME ChatShapes, (\E m \in Messages : Broadcast(m)) \/ Restart
  PROVE  ChatShapes'
<1>1. CASE \E m \in Messages : Broadcast(m)
  <2>1. PICK m \in Messages : Broadcast(m)
    BY <1>1
  <2>2. To("broadcast", None) \in Places
    BY EditsMade DEF Routes
  <2>3. [at |-> To("broadcast", None), rev |-> 0] \in [at : Places, rev : Nat]
    BY <2>2
  <2>4. screen' = [screen EXCEPT ![m] = [at |-> To("broadcast", None), rev |-> 0]]
        /\ UNCHANGED <<cast, left, ui, fsm, owned, update, settled, trouble, acted, again>>
    BY <2>1 DEF Broadcast
  <2> QED  BY <2>3, <2>4 DEF ChatShapes, TypeOK
<1>2. CASE Restart
  <2>1. Blank \in States
    BY EditsMade DEF Blank, State, States
  <2>2. /\ update' = [u \in Updates |-> Free] /\ settled' = "mixed" /\ trouble' = {"fault"}
        /\ ui' \in {ui, Blank} /\ fsm' \in {fsm, None}
        /\ UNCHANGED <<cast, left, screen, owned, acted, again>>
    BY <1>2 DEF Restart
  <2>3. update' \in [Updates -> UpdateType] /\ \A u \in Updates : Formed(update'[u])
    BY <2>2, FreeShape
  <2> QED  BY <2>1, <2>2, <2>3 DEF ChatShapes, TypeOK
<1> QED  BY <1>1, <1>2

\* Before the first update.
LEMMA InitShapes ==
  ASSUME ChatAssumption, Init
  PROVE  ChatShapes
<1>1. Blank \in States
  BY EditsMade DEF Blank, State, States
<1>2. left \in 0 .. cast.count /\ owned \subseteq IntegrationIds
  BY ChatAssumption DEF Init
<1>3. update \in [Updates -> UpdateType] /\ \A u \in Updates : Formed(update[u])
  BY FreeShape DEF Init
<1> QED  BY <1>1, <1>2, <1>3 DEF Init, ChatShapes, TypeOK

\* A step of the chat keeps the types.
LEMMA StepShapes ==
  ASSUME ChatAssumption, ChatShapes, [Next]_chatVars
  PROVE  ChatShapes'
<1>1. ASSUME NEW u \in Updates, Handle(u) PROVE ChatShapes'
  BY <1>1, CheckShapes, EditingShapes, EndsShapes DEF Handle
<1>2. CASE UNCHANGED chatVars
  BY <1>2 DEF chatVars, ChatShapes, TypeOK
<1>3. CASE \E u \in Updates, m \in Messages : screen[m] # None /\ \E b \in Buttons(screen[m].at) : Tap(u, m, b)
  BY <1>3, UserShapes
<1> QED  BY <1>1, <1>2, <1>3, UserShapes, OutsideShapes DEF Next

-----------------------------------------------------------------------------
(* Updates that run alone.                                                   *)

\* No update has overlapped another, and none has broken off before its last edit.
Undisturbed == trouble \subseteq {"drawing", "input"}

OneAtATime == \A u, v \in Updates : update[u].kind # "free" /\ update[v].kind # "free" => u = v

Has(edits, dos) == \E i \in DOMAIN edits : edits[i].do \in dos

\* An update that runs alone has read the state as it is, and draws what it has saved; a
\* text that has nothing more to save, and has saved nothing, was refused.
Tracks(h, s) ==
  /\ h.read \in {None, s} /\ h.view \in {None, s}
  /\ h.step = "edit" /\ h.kind = "text" /\ h.view = None =>
       h.seen = s /\ (s.waiting # None \/ Has(h.edits, NavEdits))

Followed ==
  settled = "alone" \/ Undisturbed => OneAtATime /\ \A u \in Updates : Tracks(update[u], ui)

\* What was shown last is still there.
ShownLast == settled = "shown" => Idle /\ ui.anchor \in Messages /\ ShownIsCurrent

\* The first edit and the others.
LEMMA HeadAndTail ==
  ASSUME NEW es \in Seq(EditType), es # <<>>
  PROVE  /\ Tail(es) \in Seq(EditType) /\ Head(es) \in EditType /\ Head(es) = es[1]
         /\ DOMAIN es = 1 .. Len(es) /\ DOMAIN Tail(es) = 1 .. Len(es) - 1
         /\ Len(es) \in Nat \ {0}
         /\ \A i \in 1 .. Len(es) - 1 : Tail(es)[i] = es[i + 1]
OBVIOUS

\* What is among the edits is the first one or among the others.
LEMMA HasOfTail ==
  ASSUME NEW es \in Seq(EditType), es # <<>>, NEW dos
  PROVE  /\ Has(Tail(es), dos) => Has(es, dos)
         /\ Has(es, dos) => Has(Tail(es), dos) \/ Head(es).do \in dos
<1>1. /\ DOMAIN es = 1 .. Len(es) /\ DOMAIN Tail(es) = 1 .. Len(es) - 1 /\ Head(es) = es[1]
      /\ Len(es) \in Nat \ {0} /\ \A i \in 1 .. Len(es) - 1 : Tail(es)[i] = es[i + 1]
  BY HeadAndTail
<1>2. ASSUME Has(Tail(es), dos) PROVE Has(es, dos)
  <2>1. PICK i \in 1 .. Len(es) - 1 : Tail(es)[i].do \in dos
    BY <1>1, <1>2 DEF Has
  <2>2. i + 1 \in DOMAIN es /\ es[i + 1].do \in dos
    BY <1>1, <2>1
  <2> QED  BY <2>2 DEF Has
<1>3. ASSUME Has(es, dos), Head(es).do \notin dos PROVE Has(Tail(es), dos)
  <2>1. PICK i \in 1 .. Len(es) : es[i].do \in dos
    BY <1>1, <1>3 DEF Has
  <2>2. i # 1
    BY <1>1, <1>3, <2>1
  <2>3. i - 1 \in 1 .. Len(es) - 1 /\ (i - 1) + 1 = i
    BY <1>1, <2>1, <2>2
  <2>4. Tail(es)[i - 1] = es[i]
    BY <1>1, <2>3
  <2> QED  BY <1>1, <2>1, <2>3, <2>4 DEF Has
<1> QED  BY <1>2, <1>3

\* An update that has not passed its checks has nothing that could be old.
LEMMA FreshTracks ==
  ASSUME NEW h, h.step = "check", h.read = None, h.view = None, NEW s
  PROVE  Tracks(h, s)
BY DEF Tracks

\* Nor has a place that is free.
LEMMA FreeTracks ==
  ASSUME ChatShapes, NEW v \in Updates, update[v].kind = "free", NEW s
  PROVE  Tracks(update[v], s)
BY FreshTracks DEF ChatShapes, Formed

\* An update begins.
LEMMA BeginFollowed ==
  ASSUME ChatShapes, Followed, NEW u \in Updates, NEW kind, NEW m, NEW b, NEW rev,
         Begin(u, Handling(kind, m, b, rev))
  PROVE  Followed' /\ ShownLast'
<1> DEFINE h == Handling(kind, m, b, rev)
<1>1. /\ h.step = "check" /\ h.read = None /\ h.view = None
      /\ update' = [update EXCEPT ![u] = h] /\ update \in [Updates -> UpdateType]
      /\ settled' = (IF Alone(u) THEN "alone" ELSE "mixed")
      /\ ~Alone(u) => "overlap" \in trouble'
      /\ UNCHANGED ui
  BY DEF Begin, Handling, ChatShapes, TypeOK
<1> HIDE DEF h
<1>2. \A v \in Updates : update'[v] = IF v = u THEN h ELSE update[v]
  BY <1>1
<1>3. CASE Alone(u)
  <2>1. \A v \in Updates : v # u => update'[v] = update[v] /\ update[v].kind = "free"
    BY <1>2, <1>3 DEF Alone
  <2>2. OneAtATime'
    BY <2>1 DEF OneAtATime
  <2>3. \A v \in Updates : Tracks(update'[v], ui')
    BY <1>1, <1>2, <2>1, FreshTracks, FreeTracks
  <2> QED  BY <1>1, <1>3, <2>2, <2>3 DEF Followed, ShownLast
<1>4. CASE ~Alone(u)
  BY <1>1, <1>4 DEF Followed, Undisturbed, ShownLast
<1> QED  BY <1>3, <1>4

\* An update goes on.
LEMMA OneFollowed ==
  ASSUME ChatShapes, Followed, ShownLast, NEW u \in Updates, update[u].kind # "free", NEW k,
         update' = [update EXCEPT ![u] = k], UNCHANGED <<settled, trouble>>,
         OneAtATime /\ Tracks(update[u], ui) => Tracks(k, ui')
  PROVE  Followed' /\ ShownLast'
<1>1. \A v \in Updates : update'[v] = IF v = u THEN k ELSE update[v]
  BY DEF ChatShapes, TypeOK
<1>2. ASSUME settled = "alone" \/ Undisturbed
      PROVE  OneAtATime' /\ \A v \in Updates : Tracks(update'[v], ui')
  <2>1. OneAtATime /\ Tracks(update[u], ui)
    BY <1>2 DEF Followed
  <2>2. \A v \in Updates : v # u => update[v].kind = "free"
    BY <2>1 DEF OneAtATime
  <2> QED  BY <1>1, <2>1, <2>2, FreeTracks DEF OneAtATime
<1>3. settled # "shown"
  BY DEF ShownLast, Idle
<1> QED  BY <1>2, <1>3 DEF Followed, Undisturbed, ShownLast

\* A text that is not refused saves something.
LEMMA TextsSave ==
  ASSUME NEW s, NEW es \in TextEdits(s), es # <<>>
  PROVE  Has(es, NavEdits)
<1>1. es[1].do \in NavEdits \/ es[2].do \in NavEdits
  BY DEF TextEdits, Outcomes, Done, ActAndDone, Asked, Wait, Edit, NavEdits
<1>2. 1 \in DOMAIN es /\ 2 \in DOMAIN es
  BY DEF TextEdits, Outcomes, Done, ActAndDone, Asked
<1> QED  BY <1>1, <1>2 DEF Has

\* An update passes its checks.
LEMMA CheckFollowed ==
  ASSUME ChatShapes, Followed, ShownLast, NEW u \in Updates, CheckTap(u) \/ CheckOther(u)
  PROVE  Followed' /\ ShownLast'
<1> DEFINE h == update[u]
<1>1. h.step = "check" /\ h.kind # "free"
  BY DEF CheckTap, CheckOther
<1>2. \A es : Planned(h, ui, es).kind = h.kind /\ Planned(h, ui, es).read = None
              /\ Planned(h, ui, es).view = None /\ Planned(h, ui, es).seen = ui
              /\ Planned(h, ui, es).edits = es
  BY DEF Planned, Checked
<1>3. UNCHANGED <<settled, trouble>>
  BY DEF CheckTap, CheckOther
<1>4. ASSUME NEW k, update' = [update EXCEPT ![u] = k], k.read = None, k.view = None,
             k.kind = "text" => k.seen = ui' /\ (ui'.waiting # None \/ Has(k.edits, NavEdits))
      PROVE  Followed' /\ ShownLast'
  <2>1. Tracks(k, ui')
    BY <1>4 DEF Tracks
  <2> QED  BY <1>1, <1>3, <1>4, <2>1, OneFollowed
<1>5. CASE CheckTap(u)
  <2>1. h.kind = "tap"
    BY <1>5 DEF CheckTap
  <2>2. Redraws(h, ui).read = None /\ Redraws(h, ui).view = None /\ Redraws(h, ui).kind = "recover"
    BY DEF Redraws, Checked
  <2>3. \E k : update' = [update EXCEPT ![u] = k] /\ k.read = None /\ k.view = None /\ k.kind # "text"
    BY <1>2, <1>5, <2>1, <2>2 DEF CheckTap
  <2> QED  BY <1>4, <2>3
<1>6. CASE CheckOther(u)
  <2>1. PICK es : /\ update' = [update EXCEPT ![u] = Planned(h, ui, es)]
                  /\ h.kind = "text" => es \in TextEdits(ui)
    BY <1>6 DEF CheckOther
  <2>2. ui' = ui
    BY <1>6 DEF CheckOther
  <2>3. h.kind = "text" => ui.waiting # None \/ Has(es, NavEdits)
    <3>1. h.kind = "text" /\ es = <<>> => ui.waiting # None
      BY <2>1 DEF TextEdits
    <3> QED  BY <2>1, <3>1, TextsSave
  <2> QED  BY <1>2, <1>4, <2>1, <2>2, <2>3
<1> QED  BY <1>5, <1>6

\* An update makes an edit.
LEMMA EditingFollowed ==
  ASSUME ChatShapes, ChatAssumption, Followed, ShownLast, NEW u \in Updates,
         CallBackend(u) \/ SetFsm(u) \/ Load(u) \/ Save(u)
  PROVE  Followed' /\ ShownLast'
<1> DEFINE h == update[u]
           k(es, r, v) == Checked(h.kind, h.msg, h.rev, h.seen, es, r, v)
<1>1. /\ h \in UpdateType /\ h.step = "edit" /\ h.kind # "free" /\ h.edits # <<>> /\ h.edits \in Seq(EditType)
      /\ UNCHANGED <<settled, trouble>>
  BY DEF CallBackend, SetFsm, Load, Save, Editing, ChatShapes, TypeOK, UpdateType, Formed
<1>2. \A es, r, v : /\ k(es, r, v).kind = h.kind /\ k(es, r, v).seen = h.seen
                    /\ k(es, r, v).edits = es /\ k(es, r, v).read = r /\ k(es, r, v).view = v
                    /\ k(es, r, v).step = "edit"
  BY DEF Checked
<1>3. \A es, r, v : GoesOn(u, es, r, v) => update' = [update EXCEPT ![u] = k(es, r, v)]
  BY DEF GoesOn
<1> HIDE DEF k
<1>4. CASE CallBackend(u) \/ SetFsm(u)
  <2>1. GoesOn(u, Tail(h.edits), h.read, h.view) /\ ui' = ui /\ Head(h.edits).do \notin NavEdits
    BY <1>4 DEF CallBackend, SetFsm, Editing, NavEdits
  <2>2. Tracks(h, ui) => Tracks(k(Tail(h.edits), h.read, h.view), ui')
    BY <1>1, <1>2, <2>1, HasOfTail DEF Tracks
  <2> QED  BY <1>1, <1>3, <2>1, <2>2, OneFollowed
<1>5. CASE Load(u)
  <2>1. GoesOn(u, h.edits, ui, h.view) /\ ui' = ui
    BY <1>5 DEF Load
  <2>2. Tracks(h, ui) => Tracks(k(h.edits, ui, h.view), ui')
    BY <1>1, <1>2, <2>1 DEF Tracks
  <2> QED  BY <1>1, <1>3, <2>1, <2>2, OneFollowed
<1>6. CASE Save(u)
  <2>1. GoesOn(u, Tail(h.edits), None, ui')
    BY <1>6 DEF Save
  <2>2. ui' \in States
    BY EditingShapes, <1>6 DEF ChatShapes, TypeOK
  <2>3. ui' # None
    BY <2>2, ChatAssumption
  <2>4. Tracks(k(Tail(h.edits), None, ui'), ui')
    BY <1>2, <2>3 DEF Tracks
  <2> QED  BY <1>1, <1>3, <2>1, <2>4, OneFollowed
<1> QED  BY <1>4, <1>5, <1>6

\* An update ends; what it shows, if it ran alone, is the state as it is.
LEMMA EndFollowed ==
  ASSUME ChatShapes, ChatAssumption, Followed, ShownLast, NEW u \in Updates, update[u].kind # "free",
         NEW m \in Messages \cup {None}, NEW p, NEW rev, NEW wrong,
         End(u, m, [at |-> p, rev |-> rev], wrong),
         OneAtATime /\ Tracks(update[u], ui) /\ wrong = {} =>
           \/ m = None
           \/ rev = ui.rev /\ (p = Drawn(ui.at) \/ (p.route = "input" /\ ui.waiting # None))
  PROVE  Followed' /\ ShownLast'
<1>1. /\ screen' = IF m = None THEN screen ELSE [screen EXCEPT ![m] = [at |-> p, rev |-> rev]]
      /\ update' = [update EXCEPT ![u] = Free]
      /\ settled' = (IF wrong = {} /\ m # None /\ m = ui.anchor /\ settled = "alone"
                     THEN "shown" ELSE "mixed")
      /\ trouble' = trouble \cup wrong
      /\ UNCHANGED <<ui, owned>>
  BY DEF End
<1>2. \A v \in Updates : update'[v] = IF v = u THEN Free ELSE update[v]
  BY <1>1 DEF ChatShapes, TypeOK
<1>3. Free.kind = "free" /\ Free.step = "check" /\ Free.read = None /\ Free.view = None
  BY DEF Free, Handling
<1>4. ASSUME OneAtATime
      PROVE  Idle' /\ OneAtATime' /\ \A v \in Updates : Tracks(update'[v], ui')
  <2>1. \A v \in Updates : v # u => update[v].kind = "free"
    BY <1>4 DEF OneAtATime
  <2>2. \A v \in Updates : Tracks(update'[v], ui')
    BY <1>2, <1>3, <2>1, FreshTracks, FreeTracks
  <2> QED  BY <1>2, <1>3, <2>1, <2>2 DEF Idle, OneAtATime
<1>5. Followed'
  <2>1. settled' # "alone" /\ (Undisturbed' => Undisturbed)
    BY <1>1 DEF Undisturbed
  <2> QED  BY <1>4, <2>1 DEF Followed
<1>6. ASSUME settled' = "shown" PROVE Idle' /\ ui'.anchor \in Messages /\ ShownIsCurrent'
  <2>1. wrong = {} /\ m # None /\ m = ui.anchor /\ settled = "alone"
    BY <1>1, <1>6
  <2>2. OneAtATime /\ Tracks(update[u], ui)
    BY <2>1 DEF Followed
  <2>3. screen'[ui'.anchor] = [at |-> p, rev |-> rev]
    BY <1>1, <2>1 DEF ChatShapes, TypeOK
  <2>4. rev = ui'.rev /\ (p = Drawn(ui.at)' \/ (p.route = "input" /\ ui'.waiting # None))
    BY <1>1, <2>1, <2>2 DEF Drawn
  <2> QED  BY <1>1, <1>4, <2>1, <2>2, <2>3, <2>4 DEF ShownIsCurrent
<1> QED  BY <1>5, <1>6 DEF ShownLast

\* The ways in which an update ends.
LEMMA EndsFollowed ==
  ASSUME ChatShapes, ChatAssumption, Followed, ShownLast, NEW u \in Updates,
         Show(u) \/ ShowNothing(u) \/ ShowRefused(u) \/ Recover(u) \/ Fail(u)
  PROVE  Followed' /\ ShownLast'
<1> DEFINE h == update[u]
<1>1. h.step = "edit" /\ h \in UpdateType /\ Formed(h)
  BY DEF Show, ShowNothing, ShowRefused, Recover, Fail, Raises, Ready, ChatShapes, TypeOK
<1>2. /\ h.kind # "free" /\ h.seen \in States /\ h.msg \in Messages \cup {None}
      /\ h.view \in States \cup {None}
  BY <1>1 DEF Formed, UpdateType
<1>3. \A s \in States : s.anchor \in Messages \cup {None}
  BY DEF States
<1>4. CASE Show(u)
  <2> DEFINE m == IF h.kind = "text" THEN h.view.anchor ELSE h.msg
  <2>1. h.view \in States
    BY <1>2, <1>4 DEF Show, Unanswered
  <2>2. m \in Messages \cup {None}
    BY <1>2, <1>3, <2>1
  <2>3. End(u, m, [at |-> Drawn(h.view.at), rev |-> h.view.rev], {})
    BY <1>4 DEF Show, DrawnAfter
  <2>4. h.view # None
    BY <1>4 DEF Show, Unanswered
  <2>5. Tracks(h, ui) => h.view = ui
    BY <2>4 DEF Tracks
  <2> HIDE DEF m
  <2> QED  BY <1>2, <2>2, <2>3, <2>5, EndFollowed
<1>5. CASE ShowNothing(u)
  <2>1. End(u, None, [at |-> MainScreen, rev |-> 0], {})
    BY <1>5 DEF ShowNothing, End
  <2> QED  BY <1>2, <2>1, EndFollowed
<1>6. CASE ShowRefused(u)
  <2>1. End(u, h.seen.anchor, [at |-> To("input", None), rev |-> h.seen.rev], {})
        /\ h.kind = "text" /\ h.view = None /\ h.edits = <<>>
    BY <1>6 DEF ShowRefused, Ready, Unanswered
  <2>2. ~Has(<<>>, NavEdits)
    BY DEF Has
  <2>3. Tracks(h, ui) => h.seen = ui /\ ui.waiting # None
    BY <1>1, <2>1, <2>2 DEF Tracks
  <2>4. To("input", None).route = "input"
    BY DEF To
  <2> QED  BY <1>2, <1>3, <2>1, <2>3, <2>4, EndFollowed
<1>7. CASE Recover(u)
  <2>1. End(u, h.msg, [at |-> Drawn(ui.at), rev |-> ui.rev], {})
    BY <1>7 DEF Recover
  <2> QED  BY <1>2, <2>1, EndFollowed
<1>8. CASE Fail(u)
  <2> DEFINE back == IF CanDraw(h.seen.at) THEN h.seen ELSE ui
             m == IF h.kind = "tap" /\ CanDraw(back.at) THEN h.msg ELSE None
             wrong == {IF Ready(u) THEN "drawing" ELSE "fault"}
  <2>1. End(u, m, [at |-> Drawn(back.at), rev |-> back.rev], wrong)
    BY <1>8 DEF Fail
  <2>2. m \in Messages \cup {None} /\ wrong # {}
    BY <1>2
  <2> HIDE DEF back, m, wrong
  <2> QED  BY <1>2, <2>1, <2>2, EndFollowed
<1> QED  BY <1>4, <1>5, <1>6, <1>7, <1>8

\* A message from outside, and a restart.
LEMMA OutsideFollowed ==
  ASSUME ChatShapes, Followed, ShownLast, (\E m \in Messages : Broadcast(m)) \/ Restart
  PROVE  Followed' /\ ShownLast'
<1>1. CASE \E m \in Messages : Broadcast(m)
  <2>1. PICK m \in Messages : Broadcast(m)
    BY <1>1
  <2>2. m # ui.anchor /\ UNCHANGED <<ui, owned, update, settled, trouble>>
        /\ screen' = [screen EXCEPT ![m] = [at |-> To("broadcast", None), rev |-> 0]]
    BY <2>1 DEF Broadcast
  <2>3. Followed'
    BY <2>2 DEF Followed, Undisturbed, OneAtATime
  <2>4. ui.anchor \in Messages => screen'[ui.anchor] = screen[ui.anchor]
    BY <2>2 DEF ChatShapes, TypeOK
  <2> QED  BY <2>2, <2>3, <2>4 DEF ShownLast, Idle, ShownIsCurrent, Drawn
<1>2. CASE Restart
  BY <1>2 DEF Restart, Followed, ShownLast, Undisturbed
<1> QED  BY <1>1, <1>2

\* Before the first update.
LEMMA InitFollowed ==
  ASSUME Init
  PROVE  Followed /\ ShownLast
<1>1. \A u \in Updates : update[u].kind = "free" /\ update[u].step = "check"
                         /\ update[u].read = None /\ update[u].view = None
  BY DEF Init, Free, Handling
<1>2. \A u \in Updates : Tracks(update[u], ui)
  BY <1>1, FreshTracks
<1> QED  BY <1>1, <1>2 DEF Init, Followed, ShownLast, OneAtATime

\* The user's part.
LEMMA UserFollowed ==
  ASSUME ChatShapes, Followed, NEW u \in Updates,
         \/ Text(u) \/ \E m \in Messages : Start(u, m)
         \/ \E m \in Messages : \E b \in Buttons(screen[m].at) : screen[m] # None /\ Tap(u, m, b)
  PROVE  Followed' /\ ShownLast'
BY BeginFollowed DEF Text, Start, Tap

\* A step of the chat keeps both.
LEMMA StepFollowed ==
  ASSUME ChatAssumption, ChatShapes, Followed, ShownLast, [Next]_chatVars
  PROVE  Followed' /\ ShownLast'
<1>1. ASSUME NEW u \in Updates, Handle(u) PROVE Followed' /\ ShownLast'
  BY <1>1, CheckFollowed, EditingFollowed, EndsFollowed DEF Handle
<1>2. CASE UNCHANGED chatVars
  BY <1>2 DEF chatVars, Followed, ShownLast, Undisturbed, OneAtATime, Idle, ShownIsCurrent, Drawn
<1>3. CASE \E u \in Updates, m \in Messages :
             screen[m] # None /\ \E b \in Buttons(screen[m].at) : Tap(u, m, b)
  BY <1>3, UserFollowed
<1> QED  BY <1>1, <1>2, <1>3, UserFollowed, OutsideFollowed DEF Next

-----------------------------------------------------------------------------
(* A screen is acted upon once.                                              *)

\* The action of an update, if it has one, comes first, on a revision that was not acted
\* upon, and is followed by an edit that raises the revision.
ActsFirst(edits) ==
  /\ \A i \in DOMAIN edits : edits[i].do = "act" => i = 1
  /\ Has(edits, {"act"}) => Has(edits, Moves)
ActsOnce(h, rev) == ActsFirst(h.edits) /\ (Has(h.edits, {"act"}) => h.rev = rev /\ rev \notin acted)

ActInv ==
  Undisturbed =>
    /\ ~again /\ \A r \in acted : r <= ui.rev
    /\ \A u \in Updates : ActsOnce(update[u], ui.rev)
    /\ ui.rev \in acted => \E u \in Updates : Has(update[u].edits, Moves)

\* Nothing is in a sequence without edits.
LEMMA NothingHas ==
  /\ \A dos : ~Has(<<>>, dos)
  /\ ActsFirst(<<>>)
BY DEF Has, ActsFirst

\* The shapes of what taps and texts ask for.
LEMMA ActsInShort ==
  ASSUME NEW a, NEW b, NEW c, NEW d
  PROVE  /\ a.do # "act" => ActsFirst(<<a>>)
         /\ b.do \in Moves => ActsFirst(<<a, b>>)
         /\ a.do # "act" /\ b.do # "act" => ActsFirst(<<a, b>>)
         /\ a.do # "act" /\ b.do # "act" /\ c.do # "act" => ActsFirst(<<a, b, c>>)
         /\ b.do # "act" /\ c.do # "act" /\ d.do \in Moves => ActsFirst(<<a, b, c, d>>)
<1>1. "act" \notin Moves
  BY DEF Moves
<1>2. a.do # "act" => ActsFirst(<<a>>)
  BY DEF ActsFirst, Has
<1>3. b.do \in Moves => ActsFirst(<<a, b>>)
  <2>1. DOMAIN <<a, b>> = {1, 2} /\ <<a, b>>[1] = a /\ <<a, b>>[2] = b
    OBVIOUS
  <2> QED  BY <1>1, <2>1 DEF ActsFirst, Has
<1>4. a.do # "act" /\ b.do # "act" => ActsFirst(<<a, b>>)
  <2>1. DOMAIN <<a, b>> = {1, 2} /\ <<a, b>>[1] = a /\ <<a, b>>[2] = b
    OBVIOUS
  <2> QED  BY <2>1 DEF ActsFirst, Has
<1>5. a.do # "act" /\ b.do # "act" /\ c.do # "act" => ActsFirst(<<a, b, c>>)
  <2>1. DOMAIN <<a, b, c>> = {1, 2, 3} /\ <<a, b, c>>[1] = a /\ <<a, b, c>>[2] = b
        /\ <<a, b, c>>[3] = c
    OBVIOUS
  <2> QED  BY <2>1 DEF ActsFirst, Has
<1>6. b.do # "act" /\ c.do # "act" /\ d.do \in Moves => ActsFirst(<<a, b, c, d>>)
  <2>1. DOMAIN <<a, b, c, d>> = {1, 2, 3, 4} /\ <<a, b, c, d>>[1] = a /\ <<a, b, c, d>>[2] = b
        /\ <<a, b, c, d>>[3] = c /\ <<a, b, c, d>>[4] = d
    OBVIOUS
  <2> QED  BY <1>1, <2>1 DEF ActsFirst, Has
<1> QED  BY <1>2, <1>3, <1>4, <1>5, <1>6

\* What each edit does.
LEMMA EditDoes ==
  /\ GoBack.do = "back" /\ GoBack.do \in Moves /\ GoBack.do # "act" /\ GoBack.value = MainScreen
  /\ \A p : /\ Forward(p).do = "forward" /\ Forward(p).do \in Moves /\ Forward(p).do # "act"
            /\ Replace(p).do = "replace" /\ Replace(p).do \in Moves /\ Replace(p).do # "act"
            /\ Forward(p).value = p /\ Replace(p).value = p
            /\ Wait(p).do = "wait" /\ Wait(p).do # "act" /\ Wait(p).value = p
            /\ Fsm(p).do = "fsm" /\ Fsm(p).do # "act" /\ Fsm(p).value = p
            /\ SaveAnchor(p).do = "anchor" /\ SaveAnchor(p).do # "act" /\ Act(p).do = "act"
BY DEF GoBack, Forward, Replace, Wait, Fsm, SaveAnchor, Act, Edit, Moves

\* An action comes first in what a tap asks for.
LEMMA TapActs ==
  ASSUME NEW b, NEW s, NEW es \in TapEdits(b, s)
  PROVE  ActsFirst(es)
<1>1. \A p : /\ ActsFirst(<<Forward(p)>>) /\ ActsFirst(<<Replace(p)>>)
             /\ \A i : ActsFirst(<<Act(i), Replace(p)>>) /\ ActsFirst(<<Act(i), GoBack>>)
  BY ActsInShort, EditDoes
<1>2. ActsFirst(<<>>) /\ ActsFirst(<<GoBack>>) /\ ActsFirst(<<Wait(None), Fsm(None), GoBack>>)
  BY NothingHas, ActsInShort, EditDoes
<1>3. \A k, p : ActsFirst(Ask(k, p))
  BY ActsInShort, EditDoes DEF Ask
<1>4. \A e \in BackEdits(s) \cup Pages(b, s) \cup Asks(b, s) \cup Picks(b) : ActsFirst(e)
  BY <1>1, <1>2, <1>3 DEF BackEdits, Pages, Asks, Picks
<1>5. \A e \in Refreshes(b) \cup Pays(b) \cup Toggles(b) \cup Manages(b) \cup Deletes(b) : ActsFirst(e)
  BY <1>1 DEF Refreshes, Pays, Toggles, Manages, Deletes
<1>6. \A e \in Switches \cup Buys \cup Adds(b) : ActsFirst(e)
  BY <1>1, <1>2 DEF Switches, Buys, Adds
<1>7. es \in {<<>>, <<Forward(To(b.to, b.id))>>}
      \/ es \in BackEdits(s) \cup Pages(b, s) \cup Asks(b, s) \cup Picks(b)
      \/ es \in Refreshes(b) \cup Pays(b) \cup Toggles(b) \cup Manages(b) \cup Deletes(b)
      \/ es \in Switches \cup Buys \cup Adds(b)
  BY DEF TapEdits
<1> QED  BY <1>1, <1>2, <1>4, <1>5, <1>6, <1>7

\* And in what a text asks for.
LEMMA TextActs ==
  ASSUME NEW s, NEW es \in TextEdits(s)
  PROVE  ActsFirst(es)
<1>1. \A i, p : ActsFirst(ActAndDone(i, p)) /\ ActsFirst(Done(p))
  BY ActsInShort, EditDoes DEF ActAndDone, Done
<1>2. \A w, k : ActsFirst(Asked(w, k))
  BY ActsInShort, EditDoes DEF Asked
<1>3. ActsFirst(<<Wait(None), Fsm(None), GoBack>>)
  BY ActsInShort, EditDoes
<1>4. \A w : \A e \in Outcomes(w) : ActsFirst(e)
  BY <1>1 DEF Outcomes
<1> QED  BY <1>1, <1>2, <1>3, <1>4, NothingHas DEF TextEdits

\* While one update is handled, the others have no edits to make.
LEMMA Others ==
  ASSUME ChatShapes, OneAtATime, NEW u \in Updates, update[u].kind # "free"
  PROVE  \A v \in Updates : v # u => /\ update[v].kind = "free" /\ update[v].step = "check"
                                     /\ update[v].edits = <<>>
BY DEF ChatShapes, OneAtATime, Formed

\* The update that is handled alone carries the invariant on.
LEMMA OneActs ==
  ASSUME ChatShapes, Followed, NEW u \in Updates, update[u].kind # "free", NEW k,
         update' = [update EXCEPT ![u] = k], trouble \subseteq trouble',
         Undisturbed /\ OneAtATime /\ Tracks(update[u], ui) =>
           /\ ~again' /\ (\A r \in acted' : r <= ui'.rev)
           /\ ActsFirst(k.edits)
           /\ Has(k.edits, {"act"}) => k.rev = ui'.rev /\ ui'.rev \notin acted'
           /\ ui'.rev \in acted' => Has(k.edits, Moves)
  PROVE  ActInv'
<1>1. \A v \in Updates : update'[v] = IF v = u THEN k ELSE update[v]
  BY DEF ChatShapes, TypeOK
<1>2. Undisturbed' => Undisturbed /\ OneAtATime /\ Tracks(update[u], ui)
  BY DEF Undisturbed, Followed
<1>3. ASSUME Undisturbed' PROVE \A v \in Updates : v # u => update'[v].edits = <<>>
  BY <1>1, <1>2, <1>3, Others
<1>4. ASSUME Undisturbed', NEW v \in Updates
      PROVE  /\ ActsFirst(update'[v].edits)
             /\ Has(update'[v].edits, {"act"}) => update'[v].rev = ui'.rev /\ ui'.rev \notin acted'
  BY <1>1, <1>2, <1>3, <1>4, NothingHas
<1> QED  BY <1>1, <1>2, <1>4 DEF ActInv, ActsOnce

\* An update begins.
LEMMA BeginActs ==
  ASSUME ChatShapes, Followed, ActInv, NEW u \in Updates, NEW kind, NEW m, NEW b, NEW rev,
         Begin(u, Handling(kind, m, b, rev))
  PROVE  ActInv'
<1> DEFINE h == Handling(kind, m, b, rev)
<1>1. /\ h.edits = <<>> /\ update' = [update EXCEPT ![u] = h] /\ update[u].kind = "free"
      /\ trouble \subseteq trouble'
      /\ UNCHANGED <<ui, acted, again>>
  BY DEF Begin, Handling
<1> HIDE DEF h
<1>2. \A v \in Updates : update'[v] = IF v = u THEN h ELSE update[v]
  BY <1>1 DEF ChatShapes, TypeOK
<1>3. update[u].edits = <<>>
  BY <1>1 DEF ChatShapes, Formed
<1>4. ASSUME Undisturbed' PROVE ActInv
  OBVIOUS
<1>5. Undisturbed' => Undisturbed
  BY <1>1 DEF Undisturbed
<1>6. ASSUME Undisturbed', NEW v \in Updates PROVE ActsOnce(update[v], ui.rev)
  BY <1>5, <1>6 DEF ActInv
<1>7. ASSUME Undisturbed', NEW v \in Updates
      PROVE  /\ ActsFirst(update'[v].edits)
             /\ Has(update'[v].edits, {"act"}) => update'[v].rev = ui'.rev /\ ui'.rev \notin acted'
  <2>1. CASE v = u
    BY <1>1, <1>2, <2>1, NothingHas
  <2>2. CASE v # u
    BY <1>1, <1>2, <1>6, <1>7, <2>2 DEF ActsOnce
  <2> QED  BY <2>1, <2>2
<1>8. ASSUME Undisturbed', ui'.rev \in acted' PROVE \E v \in Updates : Has(update'[v].edits, Moves)
  <2>1. PICK v \in Updates : Has(update[v].edits, Moves)
    BY <1>1, <1>5, <1>8 DEF ActInv
  <2>2. v # u
    BY <1>3, <2>1, NothingHas
  <2> QED  BY <1>2, <2>1, <2>2
<1>9. ASSUME Undisturbed' PROVE ~again' /\ \A r \in acted' : r <= ui'.rev
  BY <1>1, <1>5, <1>9 DEF ActInv
<1> QED  BY <1>7, <1>8, <1>9 DEF ActInv, ActsOnce

\* The checks plan the edits.
LEMMA CheckActs ==
  ASSUME ChatShapes, Followed, ActInv, NEW u \in Updates, CheckTap(u) \/ CheckOther(u)
  PROVE  ActInv'
<1> DEFINE h == update[u]
<1>1. /\ h.step = "check" /\ h.kind # "free" /\ h.edits = <<>>
      /\ UNCHANGED <<trouble, acted, again>> /\ ui'.rev = ui.rev
  <2>1. h.step = "check" /\ h.kind # "free" /\ UNCHANGED <<trouble, acted, again>>
    BY DEF CheckTap, CheckOther
  <2>2. ui'.rev = ui.rev
    BY DEF CheckTap, CheckOther, State
  <2> QED  BY <2>1, <2>2 DEF ChatShapes, Formed
<1>2. ASSUME Undisturbed, OneAtATime PROVE ui.rev \notin acted
  <2>1. \A v \in Updates : update[v].edits = <<>>
    BY <1>1, <1>2, Others
  <2> QED  BY <1>2, <2>1, NothingHas DEF ActInv
<1>3. ASSUME Undisturbed PROVE ~again /\ \A r \in acted : r <= ui.rev
  BY <1>3 DEF ActInv
<1>4. ASSUME NEW k, update' = [update EXCEPT ![u] = k], ActsFirst(k.edits),
             Has(k.edits, {"act"}) => k.rev = ui.rev
      PROVE  ActInv'
  BY <1>1, <1>2, <1>3, <1>4, OneActs
<1>5. \A es : Planned(h, ui, es).edits = es
              /\ Planned(h, ui, es).rev = (IF h.kind = "tap" THEN h.rev ELSE ui.rev)
  BY DEF Planned, Checked
<1>6. CASE CheckTap(u)
  <2>1. CASE update' = [update EXCEPT ![u] = Redraws(h, ui)]
    <3>1. Redraws(h, ui).edits = <<>>
      BY DEF Redraws, Checked
    <3> QED  BY <1>4, <2>1, <3>1, NothingHas
  <2>2. CASE ~Stale(u) /\ \E es \in TapEdits(h.button, ui) : update' = [update EXCEPT ![u] = Planned(h, ui, es)]
    <3>1. PICK es \in TapEdits(h.button, ui) : update' = [update EXCEPT ![u] = Planned(h, ui, es)]
      BY <2>2
    <3>2. h.rev = ui.rev
      BY <2>2 DEF Stale
    <3>3. Planned(h, ui, es).edits = es /\ Planned(h, ui, es).rev = ui.rev
      BY <1>5, <3>2
    <3>4. ActsFirst(es)
      BY <3>1, TapActs
    <3> QED  BY <1>4, <3>1, <3>3, <3>4
  <2> QED  BY <1>6, <2>1, <2>2 DEF CheckTap
<1>7. CASE CheckOther(u)
  <2>1. PICK es : /\ update' = [update EXCEPT ![u] = Planned(h, ui, es)]
                  /\ \/ h.kind = "text" /\ es \in TextEdits(ui)
                     \/ h.kind = "start" /\ es = StartEdits(h.msg)
                     \/ h.kind = "broadcast" /\ es = BroadcastEdits(h.msg, h.button)
    BY <1>7 DEF CheckOther
  <2>2. ActsFirst(StartEdits(h.msg)) /\ ActsFirst(BroadcastEdits(h.msg, h.button))
    BY ActsInShort, EditDoes DEF StartEdits, BroadcastEdits
  <2>3. ActsFirst(es) /\ h.kind # "tap"
    BY <2>1, <2>2, TextActs
  <2> QED  BY <1>4, <1>5, <2>1, <2>3
<1> QED  BY <1>6, <1>7

\* An edit that raises the revision.
LEMMA EditedRev ==
  ASSUME NEW e \in EditType, NEW s \in States, e.do \in NavEdits
  PROVE  Edited(e, s).rev = IF e.do \in Moves THEN s.rev + 1 ELSE s.rev
<1>1. \A p, q : Moved(s, p, q).rev = s.rev + 1
  BY DEF Moved, State
<1>2. CASE e.do \in Moves
  BY <1>1, <1>2 DEF Edited, Previous, Moves
<1>3. CASE e.do \notin Moves
  BY <1>3 DEF Edited, State, Moves, NavEdits
<1> QED  BY <1>2, <1>3

\* What is left after the first edit has no action.
LEMMA ActsOfTail ==
  ASSUME NEW es \in Seq(EditType), es # <<>>, ActsFirst(es)
  PROVE  ActsFirst(Tail(es)) /\ ~Has(Tail(es), {"act"})
<1>1. \A i \in DOMAIN Tail(es) : i + 1 \in DOMAIN es /\ Tail(es)[i] = es[i + 1] /\ i + 1 # 1
  BY HeadAndTail
<1>2. ~Has(Tail(es), {"act"})
  BY <1>1 DEF ActsFirst, Has
<1> QED  BY <1>2 DEF ActsFirst, Has

\* An edit is made.
LEMMA EditingActs ==
  ASSUME ChatShapes, ChatAssumption, Followed, ActInv, NEW u \in Updates,
         CallBackend(u) \/ SetFsm(u) \/ Load(u) \/ Save(u)
  PROVE  ActInv'
<1> DEFINE h == update[u]
           e == Head(h.edits)
           k(es, r, v) == Checked(h.kind, h.msg, h.rev, h.seen, es, r, v)
<1>1. /\ h \in UpdateType /\ h.step = "edit" /\ h.kind # "free" /\ h.edits # <<>> /\ h.edits \in Seq(EditType)
      /\ trouble' = trouble /\ ui \in States /\ ui.rev \in Nat /\ acted \subseteq Nat
  BY DEF CallBackend, SetFsm, Load, Save, Editing, ChatShapes, TypeOK, UpdateType, Formed, States
<1>2. e \in EditType /\ Tail(h.edits) \in Seq(EditType) /\ e = h.edits[1] /\ 1 \in DOMAIN h.edits
  BY <1>1, HeadAndTail
<1>3. \A es, r, v : k(es, r, v).edits = es /\ k(es, r, v).rev = h.rev
  BY DEF Checked
<1>4. \A es, r, v : GoesOn(u, es, r, v) => update' = [update EXCEPT ![u] = k(es, r, v)]
  BY DEF GoesOn
<1>5. ASSUME Undisturbed
      PROVE  /\ ~again /\ \A r \in acted : r <= ui.rev
             /\ ActsFirst(h.edits)
             /\ Has(h.edits, {"act"}) => h.rev = ui.rev /\ ui.rev \notin acted /\ Has(h.edits, Moves)
  BY <1>5 DEF ActInv, ActsOnce, ActsFirst
<1>6. ASSUME Undisturbed, OneAtATime, ui.rev \in acted PROVE Has(h.edits, Moves)
  <2>1. PICK v \in Updates : Has(update[v].edits, Moves)
    BY <1>6 DEF ActInv
  <2>2. v = u
    BY <1>1, <1>6, <2>1, Others, NothingHas
  <2> QED  BY <2>1, <2>2
<1>7. ASSUME Undisturbed PROVE ActsFirst(Tail(h.edits)) /\ ~Has(Tail(h.edits), {"act"})
  BY <1>1, <1>5, <1>7, ActsOfTail
<1>8. e.do \notin Moves /\ Has(h.edits, Moves) => Has(Tail(h.edits), Moves)
  BY <1>1, HasOfTail
<1> HIDE DEF k, e
<1>9. CASE CallBackend(u)
  <2>1. /\ GoesOn(u, Tail(h.edits), h.read, h.view) /\ ui' = ui /\ e.do = "act"
        /\ acted' = acted \cup {h.rev} /\ again' = (again \/ h.rev \in acted)
    BY <1>9 DEF CallBackend, Editing, e
  <2>2. Has(h.edits, {"act"}) /\ e.do \notin Moves
    BY <1>2, <2>1 DEF Has, Moves
  <2>3. ASSUME Undisturbed
        PROVE  ~again' /\ (\A r \in acted' : r <= ui'.rev) /\ Has(Tail(h.edits), Moves)
    <3>1. h.rev = ui.rev /\ h.rev \notin acted /\ ~again /\ Has(Tail(h.edits), Moves)
      BY <1>5, <1>8, <2>2, <2>3
    <3>2. ~again'
      BY <2>1, <3>1
    <3>3. \A r \in acted' : r <= ui'.rev
      BY <1>1, <1>5, <2>1, <2>3, <3>1
    <3> QED  BY <3>1, <3>2, <3>3
  <2> QED  BY <1>1, <1>3, <1>4, <1>7, <2>1, <2>3, OneActs
<1>10. CASE SetFsm(u)
  <2>1. /\ GoesOn(u, Tail(h.edits), h.read, h.view) /\ UNCHANGED <<ui, acted, again>> /\ e.do \notin Moves
    BY <1>10 DEF SetFsm, Editing, e, Moves
  <2> QED  BY <1>1, <1>3, <1>4, <1>5, <1>6, <1>7, <1>8, <2>1, OneActs
<1>11. CASE Load(u)
  <2>1. GoesOn(u, h.edits, ui, h.view) /\ UNCHANGED <<ui, acted, again>>
    BY <1>11 DEF Load
  <2> QED  BY <1>1, <1>3, <1>4, <1>5, <1>6, <2>1, OneActs
<1>12. CASE Save(u)
  <2>1. /\ GoesOn(u, Tail(h.edits), None, ui') /\ UNCHANGED <<acted, again>>
        /\ ui' = Edited(e, h.read) /\ e.do \in NavEdits /\ h.read # None
    BY <1>12 DEF Save, Editing, e
  <2>2. ASSUME Tracks(h, ui) PROVE ui'.rev = IF e.do \in Moves THEN ui.rev + 1 ELSE ui.rev
    BY <1>1, <1>2, <2>1, <2>2, EditedRev DEF Tracks
  <2>3. ASSUME Tracks(h, ui), Undisturbed, OneAtATime
        PROVE  /\ \A r \in acted' : r <= ui'.rev
               /\ ui'.rev \in acted' => Has(Tail(h.edits), Moves)
    <3>1. CASE e.do \in Moves
      <4>1. ui'.rev = ui.rev + 1 /\ acted' = acted
        BY <2>1, <2>2, <2>3, <3>1
      <4>2. \A r \in acted : r \in Nat /\ r <= ui.rev
        BY <1>1, <1>5, <2>3
      <4> QED  BY <1>1, <4>1, <4>2
    <3>2. CASE e.do \notin Moves
      BY <1>5, <1>6, <1>8, <2>1, <2>2, <2>3, <3>2
    <3> QED  BY <3>1, <3>2
  <2> QED  BY SMTT(30), <1>1, <1>3, <1>4, <1>5, <1>7, <2>1, <2>3, OneActs
<1> QED  BY <1>9, <1>10, <1>11, <1>12

\* An update ends.
LEMMA EndsActs ==
  ASSUME ChatShapes, Followed, ActInv, NEW u \in Updates,
         Show(u) \/ ShowNothing(u) \/ ShowRefused(u) \/ Recover(u) \/ Fail(u)
  PROVE  ActInv'
<1> DEFINE h == update[u]
<1>1. h.kind # "free"
  BY DEF Show, ShowNothing, ShowRefused, Recover, Fail, Raises, Ready, ChatShapes, Formed
<1>2. /\ update' = [update EXCEPT ![u] = Free] /\ trouble \subseteq trouble'
      /\ UNCHANGED <<ui, acted, again>>
  BY DEF Show, ShowNothing, ShowRefused, Recover, Fail, End
<1>3. h.edits = <<>> \/ "fault" \in trouble'
  <2>1. CASE Ready(u)
    BY <2>1 DEF Ready
  <2>2. CASE ~Ready(u)
    BY <2>2 DEF Show, ShowNothing, ShowRefused, Recover, Fail, End
  <2> QED  BY <2>1, <2>2
<1>4. CASE h.edits = <<>>
  <2>1. Free.edits = <<>>
    BY DEF Free, Handling
  <2>2. ASSUME Undisturbed, OneAtATime PROVE ui.rev \notin acted
    <3>1. \A v \in Updates : update[v].edits = <<>>
      BY <1>1, <1>4, <2>2, Others
    <3> QED  BY <2>2, <3>1, NothingHas DEF ActInv
  <2>3. ASSUME Undisturbed PROVE ~again /\ \A r \in acted : r <= ui.rev
    BY <2>3 DEF ActInv
  <2> QED  BY <1>1, <1>2, <2>1, <2>2, <2>3, NothingHas, OneActs
<1>5. CASE "fault" \in trouble'
  BY <1>5 DEF ActInv, Undisturbed
<1> QED  BY <1>3, <1>4, <1>5

\* Before the first update.
LEMMA InitActs ==
  ASSUME Init
  PROVE  ActInv
<1>1. \A u \in Updates : update[u].edits = <<>>
  BY DEF Init, Free, Handling
<1> QED  BY <1>1, NothingHas DEF Init, ActInv, ActsOnce

\* A step of the chat keeps it.
LEMMA StepActs ==
  ASSUME ChatAssumption, ChatShapes, Followed, ActInv, [Next]_chatVars
  PROVE  ActInv'
<1>1. ASSUME NEW u \in Updates, Handle(u) PROVE ActInv'
  BY <1>1, CheckActs, EditingActs, EndsActs DEF Handle
<1>2. CASE UNCHANGED chatVars
  BY <1>2 DEF chatVars, ActInv, Undisturbed, ActsOnce
<1>3. CASE \E u \in Updates, m \in Messages :
             screen[m] # None /\ \E b \in Buttons(screen[m].at) : Tap(u, m, b)
  BY <1>3, BeginActs DEF Tap
<1>4. CASE \E u \in Updates : Text(u) \/ \E m \in Messages : Start(u, m)
  BY <1>4, BeginActs DEF Text, Start
<1>5. CASE \E m \in Messages : Broadcast(m)
  BY <1>5 DEF Broadcast, ActInv, Undisturbed, ActsOnce
<1>6. CASE Restart
  BY <1>6 DEF Restart, ActInv, Undisturbed
<1> QED  BY <1>1, <1>2, <1>3, <1>4, <1>5, <1>6 DEF Next

-----------------------------------------------------------------------------
(* What is asked for.                                                        *)

\* Whether a value is asked for: by the value that is waited for, by the FSM state, by the
\* screen, and by what an edit makes of its part.
FromWait(v) == IF v = None THEN "rest" ELSE "ask"
FromFsm(f) == IF f = WaitingValue THEN "ask" ELSE "rest"
FromPlace(p) == IF p.route = "input" THEN "ask" ELSE "rest"
FromEdit(e) == CASE e.do = "wait" -> FromWait(e.value)
                 [] e.do = "fsm" -> FromFsm(e.value)
                 [] OTHER -> FromPlace(e.value)

\* When all edits are made, the last of these says so, and without one what is said now.
LastSays(edits, dos, said, says) ==
  /\ Has(edits, dos) \/ said = says
  /\ \A i \in DOMAIN edits :
       edits[i].do \in dos /\ (\A j \in DOMAIN edits : edits[j].do \in dos => j <= i) =>
         FromEdit(edits[i]) = says
EndsAsking(edits, s, f, says) ==
  /\ LastSays(edits, {"wait"}, FromWait(s.waiting), says)
  /\ LastSays(edits, {"fsm"}, FromFsm(f), says)
  /\ LastSays(edits, Moves, FromPlace(s.at), says)

\* When all edits are made, the three parts agree.
AgreesAfter(edits, s, f) == \E says \in {"ask", "rest"} : EndsAsking(edits, s, f, says)

\* There is at most one move, and none forward from a screen that asks.
Leads(edits, s) ==
  /\ \A i, j \in DOMAIN edits : edits[i].do \in Moves /\ edits[j].do \in Moves => i = j
  /\ Has(edits, {"forward"}) => s.at.route # "input"

\* A button of the present screen fits it.
TapOK(h, s) ==
  /\ h.kind \in {"start", "broadcast"} => s.waiting = None
  /\ h.kind = "tap" /\ h.rev = s.rev /\ s.at.route = "input" => h.button.act = "back"

\* No step back leads to a screen that asks, and no screen is ahead of the state or differs
\* from it, at its revision, in what it asks for.
Ordered(s, shown) ==
  /\ s.at.route = "input" => s.rev > 0
  /\ \A i \in DOMAIN s.stack : s.stack[i].route # "input"
  /\ \A m \in Messages : shown[m] # None =>
       shown[m].rev <= s.rev /\ (shown[m].rev = s.rev => FromPlace(shown[m].at) = FromPlace(s.at))

Fits(edits, s, f) == Leads(edits, s) /\ AgreesAfter(edits, s, f)

AskInv ==
  trouble = {} =>
    /\ Ordered(ui, screen)
    /\ \A u \in Updates : update[u].step = "edit" => Fits(update[u].edits, ui, fsm)
    /\ \A u \in Updates : update[u].step = "check" => TapOK(update[u], ui)
    /\ (\A u \in Updates : update[u].step = "check") => AgreesAfter(<<>>, ui, fsm)

\* Without edits, the parts agree as they are.
LEMMA NothingSays ==
  /\ \A dos, said, says : LastSays(<<>>, dos, said, says) <=> said = says
  /\ \A s : Leads(<<>>, s)
BY DEF LastSays, Leads, Has

\* An edit leaves to the others what is said after it.
LEMMA TailSays ==
  ASSUME NEW es \in Seq(EditType), es # <<>>, NEW dos, NEW said, NEW says,
         LastSays(es, dos, said, says)
  PROVE  LastSays(Tail(es), dos, IF Head(es).do \in dos THEN FromEdit(Head(es)) ELSE said, says)
<1>1. /\ DOMAIN es = 1 .. Len(es) /\ DOMAIN Tail(es) = 1 .. Len(es) - 1 /\ Head(es) = es[1]
      /\ Len(es) \in Nat \ {0} /\ \A i \in 1 .. Len(es) - 1 : Tail(es)[i] = es[i + 1]
  BY HeadAndTail
<1>2. ASSUME ~Has(Tail(es), dos)
      PROVE  (IF Head(es).do \in dos THEN FromEdit(Head(es)) ELSE said) = says
  <2>1. CASE Head(es).do \in dos
    <3>1. ASSUME NEW j \in DOMAIN es, es[j].do \in dos PROVE j = 1
      <4>1. CASE j # 1
        <5>1. j - 1 \in DOMAIN Tail(es) /\ Tail(es)[j - 1] = es[j]
          BY <1>1, <4>1
        <5> QED  BY <1>2, <3>1, <5>1 DEF Has
      <4> QED  BY <4>1
    <3>2. \A j \in DOMAIN es : es[j].do \in dos => j <= 1
      BY <3>1
    <3>3. 1 \in DOMAIN es /\ es[1].do \in dos
      BY <1>1, <2>1
    <3>4. FromEdit(es[1]) = says
      BY <3>2, <3>3 DEF LastSays
    <3> QED  BY <1>1, <2>1, <3>4
  <2>2. CASE Head(es).do \notin dos
    <3>1. ~Has(es, dos)
      BY <1>2, <2>2, HasOfTail
    <3> QED  BY <2>2, <3>1 DEF LastSays
  <2> QED  BY <2>1, <2>2
<1>3. ASSUME NEW i \in DOMAIN Tail(es), Tail(es)[i].do \in dos,
             \A j \in DOMAIN Tail(es) : Tail(es)[j].do \in dos => j <= i
      PROVE  FromEdit(Tail(es)[i]) = says
  <2>1. i + 1 \in DOMAIN es /\ es[i + 1] = Tail(es)[i] /\ i \in Nat
    BY <1>1
  <2>2. ASSUME NEW j \in DOMAIN es, es[j].do \in dos PROVE j <= i + 1
    <3>1. CASE j = 1
      BY <2>1, <3>1
    <3>2. CASE j # 1
      <4>1. j - 1 \in DOMAIN Tail(es) /\ Tail(es)[j - 1] = es[j] /\ j \in Nat
        BY <1>1, <3>2
      <4>2. j - 1 <= i
        BY <1>3, <2>2, <4>1
      <4> QED  BY <2>1, <4>1, <4>2
    <3> QED  BY <3>1, <3>2
  <2>3. FromEdit(es[i + 1]) = says
    BY <1>3, <2>1, <2>2 DEF LastSays
  <2> QED  BY <2>1, <2>3
<1> QED  BY <1>2, <1>3 DEF LastSays

\* What is said once one more edit is made.
Then(said, e, dos) == IF e.do \in dos THEN FromEdit(e) ELSE said

\* Short sequences of edits.
LEMMA ShortSays ==
  ASSUME NEW dos, NEW said, NEW says, NEW a, NEW b, NEW c, NEW d
  PROVE  /\ Then(said, a, dos) = says => LastSays(<<a>>, dos, said, says)
         /\ Then(Then(said, a, dos), b, dos) = says => LastSays(<<a, b>>, dos, said, says)
         /\ Then(Then(Then(said, a, dos), b, dos), c, dos) = says =>
              LastSays(<<a, b, c>>, dos, said, says)
         /\ Then(Then(Then(Then(said, a, dos), b, dos), c, dos), d, dos) = says =>
              LastSays(<<a, b, c, d>>, dos, said, says)
<1>1. ASSUME Then(said, a, dos) = says PROVE LastSays(<<a>>, dos, said, says)
  <2>1. DOMAIN <<a>> = {1} /\ <<a>>[1] = a
    OBVIOUS
  <2> QED  BY <1>1, <2>1 DEF Then, LastSays, Has
<1>2. ASSUME Then(Then(said, a, dos), b, dos) = says PROVE LastSays(<<a, b>>, dos, said, says)
  <2>1. DOMAIN <<a, b>> = {1, 2} /\ <<a, b>>[1] = a /\ <<a, b>>[2] = b
    OBVIOUS
  <2> QED  BY <1>2, <2>1 DEF Then, LastSays, Has
<1>3. ASSUME Then(Then(Then(said, a, dos), b, dos), c, dos) = says
      PROVE  LastSays(<<a, b, c>>, dos, said, says)
  <2>1. DOMAIN <<a, b, c>> = {1, 2, 3} /\ <<a, b, c>>[1] = a /\ <<a, b, c>>[2] = b
        /\ <<a, b, c>>[3] = c
    OBVIOUS
  <2> QED  BY <1>3, <2>1 DEF Then, LastSays, Has
<1>4. ASSUME Then(Then(Then(Then(said, a, dos), b, dos), c, dos), d, dos) = says
      PROVE  LastSays(<<a, b, c, d>>, dos, said, says)
  <2>1. DOMAIN <<a, b, c, d>> = {1, 2, 3, 4} /\ <<a, b, c, d>>[1] = a /\ <<a, b, c, d>>[2] = b
        /\ <<a, b, c, d>>[3] = c /\ <<a, b, c, d>>[4] = d
    OBVIOUS
  <2> QED  BY <1>4, <2>1 DEF Then, LastSays, Has
<1> QED  BY <1>1, <1>2, <1>3, <1>4

\* A move, alone or with an action or the anchor, from where nothing is asked for.
LEMMA MovesAgree ==
  ASSUME NEW s, NEW f, NEW m, m.do \in Moves, FromPlace(m.value) = "rest",
         EndsAsking(<<>>, s, f, "rest"), NEW v
  PROVE  /\ AgreesAfter(<<m>>, s, f) /\ AgreesAfter(<<Act(v), m>>, s, f)
         /\ AgreesAfter(<<m, SaveAnchor(v)>>, s, f) /\ AgreesAfter(<<SaveAnchor(v), m>>, s, f)
<1>1. FromWait(s.waiting) = "rest" /\ FromFsm(f) = "rest" /\ FromPlace(s.at) = "rest"
  BY NothingSays DEF EndsAsking
<1>2. FromEdit(m) = "rest" /\ m.do \notin {"wait", "fsm", "act", "anchor"}
  BY DEF FromEdit, Moves
<1>3. Act(v).do \notin {"wait", "fsm"} \cup Moves /\ SaveAnchor(v).do \notin {"wait", "fsm"} \cup Moves
  BY DEF Act, SaveAnchor, Edit, Moves
<1>4. \A e \in {Act(v), SaveAnchor(v), m}, d \in {{"wait"}, {"fsm"}, Moves} : Then("rest", e, d) = "rest"
  BY <1>2, <1>3 DEF Then
<1>5. \A d \in {{"wait"}, {"fsm"}, Moves} :
        /\ LastSays(<<m>>, d, "rest", "rest") /\ LastSays(<<Act(v), m>>, d, "rest", "rest")
        /\ LastSays(<<m, SaveAnchor(v)>>, d, "rest", "rest")
        /\ LastSays(<<SaveAnchor(v), m>>, d, "rest", "rest")
  BY <1>4, ShortSays
<1> QED  BY <1>1, <1>5 DEF AgreesAfter, EndsAsking

\* The end of an input, and a step back that ends one.
LEMMA EndsAgree ==
  ASSUME ChatAssumption, NEW s, NEW f, NEW m, m.do \in Moves, FromPlace(m.value) = "rest", NEW v
  PROVE  /\ AgreesAfter(<<Wait(None), Fsm(None), m>>, s, f)
         /\ AgreesAfter(<<Act(v), Wait(None), Fsm(None), m>>, s, f)
<1>1. FromEdit(m) = "rest" /\ m.do \notin {"wait", "fsm"}
  BY DEF FromEdit, Moves
<1>2. None # WaitingValue
  BY ChatAssumption
<1>3. FromEdit(Wait(None)) = "rest" /\ FromEdit(Fsm(None)) = "rest"
  BY <1>2, EditDoes DEF FromEdit, FromWait, FromFsm
<1>4. \A said : /\ Then(said, Wait(None), {"wait"}) = "rest" /\ Then(said, Fsm(None), {"wait"}) = said
                /\ Then(said, Fsm(None), {"fsm"}) = "rest" /\ Then(said, m, {"wait"}) = said
                /\ Then(said, m, {"fsm"}) = said /\ Then(said, m, Moves) = "rest"
  BY <1>1, <1>3, EditDoes DEF Then
<1>5. ASSUME NEW said, NEW d \in {{"wait"}, {"fsm"}, Moves}
      PROVE  /\ LastSays(<<Wait(None), Fsm(None), m>>, d, said, "rest")
             /\ LastSays(<<Act(v), Wait(None), Fsm(None), m>>, d, said, "rest")
  <2>1. ASSUME NEW x PROVE Then(Then(Then(x, Wait(None), d), Fsm(None), d), m, d) = "rest"
    <3>1. CASE d = {"wait"}
      BY <1>4, <3>1
    <3>2. CASE d = {"fsm"}
      BY <1>4, <3>2
    <3>3. CASE d = Moves
      BY <1>4, <3>3
    <3> QED  BY <3>1, <3>2, <3>3
  <2> QED  BY <2>1, ShortSays
<1> QED  BY <1>5 DEF AgreesAfter, EndsAsking

\* The beginning of an input, and the step to the next one.
LEMMA AsksAgree ==
  ASSUME ChatAssumption, NEW s, NEW f, NEW m, m.do \in Moves, FromPlace(m.value) = "ask", NEW w \in Waits
  PROVE  /\ AgreesAfter(<<Wait(w), Fsm(WaitingValue), m>>, s, f)
         /\ AgreesAfter(<<Wait(None), Wait(w), Fsm(WaitingValue), m>>, s, f)
<1>1. FromEdit(m) = "ask" /\ m.do \notin {"wait", "fsm"}
  BY DEF FromEdit, Moves
<1>2. w # None
  BY ChatAssumption
<1>3. FromEdit(Wait(w)) = "ask" /\ FromEdit(Fsm(WaitingValue)) = "ask"
  BY <1>2, EditDoes DEF FromEdit, FromWait, FromFsm
<1>4. \A said : /\ Then(said, Wait(w), {"wait"}) = "ask" /\ Then(said, Fsm(WaitingValue), {"wait"}) = said
                /\ Then(said, Fsm(WaitingValue), {"fsm"}) = "ask" /\ Then(said, m, {"wait"}) = said
                /\ Then(said, m, {"fsm"}) = said /\ Then(said, m, Moves) = "ask"
  BY <1>1, <1>3, EditDoes DEF Then
<1>5. ASSUME NEW said, NEW d \in {{"wait"}, {"fsm"}, Moves}
      PROVE  /\ LastSays(<<Wait(w), Fsm(WaitingValue), m>>, d, said, "ask")
             /\ LastSays(<<Wait(None), Wait(w), Fsm(WaitingValue), m>>, d, said, "ask")
  <2>1. ASSUME NEW x PROVE Then(Then(Then(x, Wait(w), d), Fsm(WaitingValue), d), m, d) = "ask"
    <3>1. CASE d = {"wait"}
      BY <1>4, <3>1
    <3>2. CASE d = {"fsm"}
      BY <1>4, <3>2
    <3>3. CASE d = Moves
      BY <1>4, <3>3
    <3> QED  BY <3>1, <3>2, <3>3
  <2> QED  BY <2>1, ShortSays
<1> QED  BY <1>5 DEF AgreesAfter, EndsAsking

\* One move, forward only from a screen that asks for nothing.
LEMMA ShortLeads ==
  ASSUME NEW s, NEW m, m.do \in Moves, m.do = "forward" => s.at.route # "input",
         NEW a, a.do \notin Moves, NEW b, b.do \notin Moves, NEW c, c.do \notin Moves
  PROVE  /\ Leads(<<m>>, s) /\ Leads(<<a, m>>, s) /\ Leads(<<m, a>>, s)
         /\ Leads(<<a, b, m>>, s) /\ Leads(<<a, b, c, m>>, s)
<1>1. "forward" \in Moves
  BY DEF Moves
<1>2. Leads(<<m>>, s)
  <2>1. DOMAIN <<m>> = {1} /\ <<m>>[1] = m
    OBVIOUS
  <2> QED  BY <1>1, <2>1 DEF Leads, Has
<1>3. Leads(<<a, m>>, s)
  <2>1. DOMAIN <<a, m>> = {1, 2} /\ <<a, m>>[1] = a /\ <<a, m>>[2] = m
    OBVIOUS
  <2> QED  BY <1>1, <2>1 DEF Leads, Has
<1>4. Leads(<<m, a>>, s)
  <2>1. DOMAIN <<m, a>> = {1, 2} /\ <<m, a>>[1] = m /\ <<m, a>>[2] = a
    OBVIOUS
  <2> QED  BY <1>1, <2>1 DEF Leads, Has
<1>5. Leads(<<a, b, m>>, s)
  <2>1. DOMAIN <<a, b, m>> = {1, 2, 3} /\ <<a, b, m>>[1] = a /\ <<a, b, m>>[2] = b /\ <<a, b, m>>[3] = m
    OBVIOUS
  <2> QED  BY <1>1, <2>1 DEF Leads, Has
<1>6. Leads(<<a, b, c, m>>, s)
  <2>1. DOMAIN <<a, b, c, m>> = {1, 2, 3, 4} /\ <<a, b, c, m>>[1] = a /\ <<a, b, c, m>>[2] = b
        /\ <<a, b, c, m>>[3] = c /\ <<a, b, c, m>>[4] = m
    OBVIOUS
  <2> QED  BY <1>1, <2>1 DEF Leads, Has
<1> QED  BY <1>2, <1>3, <1>4, <1>5, <1>6

\* Where the three parts agree, any of them says what is asked for.
LEMMA AgreeNow ==
  ASSUME NEW s, NEW f, AgreesAfter(<<>>, s, f)
  PROVE  /\ FromWait(s.waiting) = FromPlace(s.at) /\ FromFsm(f) = FromPlace(s.at)
         /\ s.waiting = None => EndsAsking(<<>>, s, f, "rest")
         /\ s.at.route # "input" => EndsAsking(<<>>, s, f, "rest")
<1>1. PICK says \in {"ask", "rest"} : EndsAsking(<<>>, s, f, says)
  BY DEF AgreesAfter
<1>2. FromWait(s.waiting) = says /\ FromFsm(f) = says /\ FromPlace(s.at) = says
  BY <1>1, NothingSays DEF EndsAsking
<1>3. s.waiting = None => FromWait(s.waiting) = "rest"
  BY DEF FromWait
<1>4. s.at.route # "input" => FromPlace(s.at) = "rest"
  BY DEF FromPlace
<1> QED  BY <1>1, <1>2, <1>3, <1>4

\* What a tap asks for fits the screen it was made on.
LEMMA TapFits ==
  ASSUME ChatAssumption, NEW b \in ButtonType, b.act # "broadcast", NEW s \in States, NEW f,
         AgreesAfter(<<>>, s, f), s.at.route = "input" => b.act = "back", NEW es \in TapEdits(b, s)
  PROVE  Fits(es, s, f)
<1>1. \A i : Act(i).do \notin Moves /\ Wait(i).do \notin Moves /\ Fsm(i).do \notin Moves
  BY EditDoes DEF Moves
<1>2. FromPlace(GoBack.value) = "rest" /\ GoBack.do # "forward"
  BY EditDoes DEF FromPlace, MainScreen, To
<1>3. \A r, i : /\ Forward(To(r, i)).value.route = r /\ Replace(To(r, i)).value.route = r
  BY EditDoes DEF To
<1>4. CASE b.act = "back"
  <2>1. CASE s.waiting = None
    <3>1. es = <<GoBack>>
      BY <1>4, <2>1 DEF TapEdits, BackEdits
    <3>2. EndsAsking(<<>>, s, f, "rest")
      BY <2>1, AgreeNow
    <3> QED  BY <1>1, <1>2, <3>1, <3>2, EditDoes, ShortLeads, MovesAgree DEF Fits
  <2>2. CASE s.waiting # None
    <3>1. es = <<Wait(None), Fsm(None), GoBack>>
      BY <1>4, <2>2 DEF TapEdits, BackEdits
    <3> QED  BY <1>1, <1>2, <3>1, EditDoes, ShortLeads, EndsAgree DEF Fits
  <2> QED  BY <2>1, <2>2
<1>5. CASE b.act # "back"
  <2>1. s.at.route # "input"
    BY <1>5
  <2>2. EndsAsking(<<>>, s, f, "rest")
    BY <2>1, AgreeNow
  <2>3. ASSUME NEW m, m.do \in Moves, FromPlace(m.value) = "rest", NEW i
        PROVE  Fits(<<m>>, s, f) /\ Fits(<<Act(i), m>>, s, f)
    BY <1>1, <2>1, <2>2, <2>3, ShortLeads, MovesAgree DEF Fits
  <2>4. ASSUME NEW r \in Routes \ {"input"}, NEW i
        PROVE  /\ FromPlace(Forward(To(r, i)).value) = "rest"
               /\ FromPlace(Replace(To(r, i)).value) = "rest"
    BY <1>3 DEF FromPlace
  <2>5. ASSUME NEW r \in Routes \ {"input"}, NEW i, NEW j
        PROVE  /\ Fits(<<Forward(To(r, i))>>, s, f) /\ Fits(<<Replace(To(r, i))>>, s, f)
               /\ Fits(<<Act(j), Replace(To(r, i))>>, s, f)
    BY <2>3, <2>4, EditDoes
  <2>6. Fits(<<>>, s, f)
    BY NothingSays DEF Fits
  <2>7. \A j : Fits(<<Act(j), GoBack>>, s, f)
    BY <1>2, <2>3, EditDoes
  <2>8. CASE b.act \in {"input", "pick"}
    <3>1. b.to \in InputKinds
      BY <2>8 DEF ButtonType, Acts, InputKinds
    <3>2. es = Ask(b.to, s.at) \/ es = Ask(b.to, To("integrations", None))
      BY <2>8 DEF TapEdits, Asks, Picks
    <3>3. To("integrations", None) \in Places /\ s.at \in Places
      BY EditsMade DEF Routes, States
    <3>4. FromPlace(Forward(To("input", None)).value) = "ask"
      BY <1>3 DEF FromPlace
    <3>5. PICK p \in Places : es = Ask(b.to, p)
      BY <3>2, <3>3
    <3>6. Asking(b.to, p) \in Waits
      BY <3>1, EditsMade
    <3>7. AgreesAfter(es, s, f)
      BY <3>4, <3>5, <3>6, EditDoes, AsksAgree DEF Ask
    <3>8. Leads(es, s)
      BY <1>1, <2>1, <3>5, EditDoes, ShortLeads DEF Ask
    <3> QED  BY <3>7, <3>8 DEF Fits
  <2>9. CASE b.act \notin {"input", "pick"}
    <3>1. b.to \in Routes \ {"input"} /\ b.act \in Acts
      BY <2>9 DEF ButtonType
    <3>2. "plan" \in Routes \ {"input"} /\ "payments" \in Routes \ {"input"}
      BY DEF Routes
    <3>3. CASE b.act \in {"noop", "open", "page"}
      BY <2>5, <2>6, <3>1, <3>3 DEF TapEdits, Pages
    <3>4. CASE b.act \in {"refresh", "pay", "toggle", "manage", "delete"}
      BY <2>5, <2>7, <3>1, <3>4 DEF TapEdits, Refreshes, Pays, Toggles, Manages, Deletes
    <3>5. CASE b.act \in {"switch", "buy", "add"}
      <4>1. \A e \in Switches : Fits(e, s, f)
        BY <2>5, <2>6, <3>2 DEF Switches
      <4>2. \A e \in Buys : Fits(e, s, f)
        BY ZenonT(40), <2>5, <2>6, <3>2 DEF Buys
      <4>3. \A e \in Adds(b) : Fits(e, s, f)
        BY <2>5, <3>1, <3>2 DEF Adds
      <4> QED  BY <3>5, <4>1, <4>2, <4>3 DEF TapEdits
    <3> QED  BY <1>5, <3>1, <3>3, <3>4, <3>5 DEF Acts
  <2> QED  BY <2>8, <2>9
<1> QED  BY <1>4, <1>5

\* So does what a text asks for.
LEMMA TextFits ==
  ASSUME ChatAssumption, NEW s \in States, NEW f, AgreesAfter(<<>>, s, f), NEW es \in TextEdits(s)
  PROVE  Fits(es, s, f)
<1>1. \A i : Act(i).do \notin Moves /\ Wait(i).do \notin Moves /\ Fsm(i).do \notin Moves
  BY EditDoes DEF Moves
<1>2. FromPlace(GoBack.value) = "rest" /\ GoBack.do # "forward"
  BY EditDoes DEF FromPlace, MainScreen, To
<1>3. \A r, i : Replace(To(r, i)).value.route = r
  BY EditDoes DEF To
<1>4. Fits(<<>>, s, f)
  BY NothingSays DEF Fits
<1>5. Fits(<<Wait(None), Fsm(None), GoBack>>, s, f)
  BY <1>1, <1>2, EditDoes, ShortLeads, EndsAgree DEF Fits
<1>6. ASSUME NEW r \in Routes \ {"input"}, NEW i, NEW j
      PROVE  Fits(Done(To(r, i)), s, f) /\ Fits(ActAndDone(j, To(r, i)), s, f)
  <2> DEFINE m == Replace(To(r, i))
  <2>1. m.do \in Moves /\ m.do # "forward" /\ FromPlace(m.value) = "rest"
    BY <1>3, EditDoes DEF FromPlace
  <2> HIDE DEF m
  <2>2. AgreesAfter(<<Wait(None), Fsm(None), m>>, s, f)
        /\ AgreesAfter(<<Act(j), Wait(None), Fsm(None), m>>, s, f)
    BY <2>1, EndsAgree
  <2>3. Leads(<<Wait(None), Fsm(None), m>>, s) /\ Leads(<<Act(j), Wait(None), Fsm(None), m>>, s)
    BY <1>1, <2>1, ShortLeads
  <2> QED  BY <2>2, <2>3 DEF Fits, Done, ActAndDone, m
<1>7. ASSUME NEW w \in Waits, NEW k \in NextKinds(w.kind) PROVE Fits(Asked(w, k), s, f)
  <2> DEFINE m == Replace(To("input", None))
  <2>1. m.do \in Moves /\ m.do # "forward" /\ FromPlace(m.value) = "ask"
    BY <1>3, EditDoes DEF FromPlace
  <2>2. Asking(k, w.back) \in Waits
    <3>1. k \in InputKinds /\ w.back \in Places
      BY <1>7 DEF NextKinds, InputKinds, Waits
    <3> QED  BY <3>1, EditsMade
  <2> HIDE DEF m
  <2>3. AgreesAfter(<<Wait(None), Wait(Asking(k, w.back)), Fsm(WaitingValue), m>>, s, f)
    BY <2>1, <2>2, AsksAgree
  <2>4. Leads(<<Wait(None), Wait(Asking(k, w.back)), Fsm(WaitingValue), m>>, s)
    BY <1>1, <2>1, ShortLeads
  <2> QED  BY <2>3, <2>4 DEF Fits, Asked, m
<1>8. "plan" \in Routes \ {"input"} /\ "integration" \in Routes \ {"input"}
  BY DEF Routes
<1>9. \A w : \A e \in Outcomes(w) : Fits(e, s, f)
  BY <1>6, <1>8 DEF Outcomes
<1>10. CASE s.waiting = None
  BY <1>5, <1>10 DEF TextEdits
<1>11. CASE s.waiting # None
  <2>1. s.waiting \in Waits
    BY <1>11 DEF States
  <2>2. Fits(Done(To("plan", None)), s, f)
    BY <1>6, <1>8
  <2>3. \/ es = <<>> \/ es \in Outcomes(s.waiting) \/ es = Done(To("plan", None))
        \/ \E k \in NextKinds(s.waiting.kind) : es = Asked(s.waiting, k)
    BY <1>11 DEF TextEdits
  <2> QED  BY <1>4, <1>7, <1>9, <2>1, <2>2, <2>3
<1> QED  BY <1>10, <1>11

\* The first edit is made, on the state or on the FSM state.
LEMMA TailFits ==
  ASSUME NEW es \in Seq(EditType), es # <<>>, NEW s, NEW f, Fits(es, s, f), NEW t, NEW g,
         FromWait(t.waiting) = Then(FromWait(s.waiting), Head(es), {"wait"}),
         FromFsm(g) = Then(FromFsm(f), Head(es), {"fsm"}),
         FromPlace(t.at) = Then(FromPlace(s.at), Head(es), Moves),
         Head(es).do \notin Moves => t.at = s.at
  PROVE  Fits(Tail(es), t, g)
<1>1. /\ DOMAIN es = 1 .. Len(es) /\ DOMAIN Tail(es) = 1 .. Len(es) - 1 /\ Head(es) = es[1]
      /\ Len(es) \in Nat \ {0} /\ \A i \in 1 .. Len(es) - 1 : Tail(es)[i] = es[i + 1]
  BY HeadAndTail
<1>2. AgreesAfter(Tail(es), t, g)
  <2>1. PICK says \in {"ask", "rest"} : EndsAsking(es, s, f, says)
    BY DEF Fits, AgreesAfter
  <2>2. LastSays(Tail(es), {"wait"}, FromWait(t.waiting), says)
    BY <2>1, TailSays DEF EndsAsking, Then
  <2>3. LastSays(Tail(es), {"fsm"}, FromFsm(g), says)
    BY <2>1, TailSays DEF EndsAsking, Then
  <2>4. LastSays(Tail(es), Moves, FromPlace(t.at), says)
    BY <2>1, TailSays DEF EndsAsking, Then
  <2> QED  BY <2>1, <2>2, <2>3, <2>4 DEF AgreesAfter, EndsAsking
<1>3. \A i \in DOMAIN Tail(es) : i \in Nat /\ i + 1 \in DOMAIN es /\ Tail(es)[i] = es[i + 1]
  BY <1>1
<1>4. ASSUME NEW i \in DOMAIN Tail(es), NEW j \in DOMAIN Tail(es),
             Tail(es)[i].do \in Moves, Tail(es)[j].do \in Moves
      PROVE  i = j
  <2>1. i + 1 = j + 1
    BY <1>3, <1>4 DEF Fits, Leads
  <2> QED  BY <1>3, <2>1
<1>5. ASSUME Has(Tail(es), {"forward"}) PROVE t.at.route # "input"
  <2>1. PICK i \in DOMAIN Tail(es) : Tail(es)[i].do = "forward"
    BY <1>5 DEF Has
  <2>2. es[i + 1].do \in Moves /\ i + 1 # 1 /\ 1 \in DOMAIN es
    BY <1>1, <1>3, <2>1 DEF Moves
  <2>3. Head(es).do \notin Moves
    BY <1>1, <1>3, <2>2 DEF Fits, Leads
  <2>4. Has(es, {"forward"})
    BY <1>5, HasOfTail
  <2> QED  BY <2>3, <2>4 DEF Fits, Leads
<1> QED  BY <1>2, <1>4, <1>5 DEF Fits, Leads

\* The state after an edit.
LEMMA EditedAsks ==
  ASSUME NEW e \in EditType, e.do \in NavEdits, NEW s \in States,
         \A i \in DOMAIN s.stack : s.stack[i].route # "input",
         e.do = "forward" => s.at.route # "input"
  PROVE  /\ FromWait(Edited(e, s).waiting) = Then(FromWait(s.waiting), e, {"wait"})
         /\ FromPlace(Edited(e, s).at) = Then(FromPlace(s.at), e, Moves)
         /\ e.do \notin Moves => Edited(e, s).at = s.at
         /\ \A i \in DOMAIN Edited(e, s).stack : Edited(e, s).stack[i].route # "input"
<1> DEFINE t == Edited(e, s)
<1>1. s.stack \in Seq(Places) /\ s.at \in Places
  BY DEF States
<1>2. CASE e.do \in {"forward", "replace"}
  <2>1. e.value \in Places
    BY <1>2, EditKinds DEF Moves
  <2> DEFINE q == IF e.do = "forward" THEN Append(s.stack, s.at) ELSE s.stack
  <2>2. t = Moved(s, e.value, q)
    BY <1>2 DEF Edited
  <2>3. q \in Seq(Places)
    BY <1>1
  <2>4. \A i \in DOMAIN Append(s.stack, s.at) :
          Append(s.stack, s.at)[i] \in {s.at} \/ \E j \in DOMAIN s.stack : Append(s.stack, s.at)[i] = s.stack[j]
    BY <1>1
  <2>5. t.at = e.value /\ t.waiting = s.waiting /\ t.stack = q
    <3> HIDE DEF t, q
    <3> QED  BY <2>1, <2>2, <2>3, MovedState
  <2>6. Then(FromPlace(s.at), e, Moves) = FromPlace(e.value)
        /\ Then(FromWait(s.waiting), e, {"wait"}) = FromWait(s.waiting) /\ e.do \in Moves
    BY <1>2 DEF Then, Moves, FromEdit
  <2>7. \A i \in DOMAIN t.stack : t.stack[i].route # "input"
    BY <2>4, <2>5
  <2> HIDE DEF t
  <2> QED  BY <2>5, <2>6, <2>7 DEF t
<1>3. CASE e.do = "back"
  <2>1. e.value = MainScreen /\ FromPlace(MainScreen) = "rest" /\ MainScreen \in Places
    BY <1>3, EditsMade DEF EditType, FromPlace, MainScreen, To
  <2>2. Then(FromPlace(s.at), e, Moves) = "rest" /\ e.do \in Moves
        /\ Then(FromWait(s.waiting), e, {"wait"}) = FromWait(s.waiting)
    BY <1>3, <2>1 DEF Then, Moves, FromEdit
  <2>3. t = Previous(s)
    BY <1>3 DEF Edited
  <2>4. CASE s.stack = <<>>
    <3>1. t.at = MainScreen /\ t.stack = s.stack /\ t.waiting = s.waiting
      <4>1. t = Moved(s, MainScreen, s.stack)
        BY <2>3, <2>4 DEF Previous
      <4> HIDE DEF t
      <4> QED  BY <1>1, <2>1, <4>1, MovedState
    <3> HIDE DEF t
    <3> QED  BY <2>1, <2>2, <3>1 DEF t
  <2>5. CASE s.stack # <<>>
    <3>1. /\ s.stack[Len(s.stack)] \in Places /\ SubSeq(s.stack, 1, Len(s.stack) - 1) \in Seq(Places)
          /\ Len(s.stack) \in DOMAIN s.stack
          /\ \A i \in DOMAIN SubSeq(s.stack, 1, Len(s.stack) - 1) :
               i \in DOMAIN s.stack /\ SubSeq(s.stack, 1, Len(s.stack) - 1)[i] = s.stack[i]
      BY <1>1, <2>5
    <3>2. /\ t.at = s.stack[Len(s.stack)] /\ t.stack = SubSeq(s.stack, 1, Len(s.stack) - 1)
          /\ t.waiting = s.waiting
      <4> DEFINE p == s.stack[Len(s.stack)]
                 q == SubSeq(s.stack, 1, Len(s.stack) - 1)
      <4>1. t = Moved(s, p, q) /\ p \in Places /\ q \in Seq(Places)
        BY <2>3, <2>5, <3>1 DEF Previous
      <4>2. t.at = p /\ t.stack = q /\ t.waiting = s.waiting
        <5> HIDE DEF t, p, q
        <5> QED  BY <4>1, MovedState
      <4> QED  BY <4>2
    <3>3. FromPlace(t.at) = "rest"
      BY <3>1, <3>2 DEF FromPlace
    <3> HIDE DEF t
    <3> QED  BY <2>2, <3>1, <3>2, <3>3 DEF t
  <2> QED  BY <2>4, <2>5
<1>4. CASE e.do \in {"wait", "anchor"}
  <2>1. t.at = s.at /\ t.stack = s.stack /\ t.waiting = (IF e.do = "wait" THEN e.value ELSE s.waiting)
    BY <1>4 DEF Edited, State
  <2>2. Then(FromPlace(s.at), e, Moves) = FromPlace(s.at) /\ e.do \notin Moves
        /\ Then(FromWait(s.waiting), e, {"wait"}) = FromWait(t.waiting)
    BY <1>4, <2>1 DEF Then, Moves, FromEdit
  <2> HIDE DEF t
  <2> QED  BY <2>1, <2>2 DEF t
<1> QED  BY <1>2, <1>3, <1>4 DEF NavEdits

\* The update that is handled alone carries the invariant on.
LEMMA OneAsks ==
  ASSUME ChatShapes, Followed, NEW u \in Updates, update[u].kind # "free", NEW k,
         update' = [update EXCEPT ![u] = k], trouble \subseteq trouble', k.step \in {"check", "edit"},
         trouble' = {} /\ OneAtATime /\ Tracks(update[u], ui) =>
           /\ Ordered(ui', screen')
           /\ k.step = "edit" => Fits(k.edits, ui', fsm')
           /\ k.step = "check" => k.kind = "free" /\ AgreesAfter(<<>>, ui', fsm')
  PROVE  AskInv'
<1>1. \A v \in Updates : update'[v] = IF v = u THEN k ELSE update[v]
  BY DEF ChatShapes, TypeOK
<1>2. trouble' = {} => OneAtATime /\ Tracks(update[u], ui)
  BY DEF Followed, Undisturbed
<1>3. ASSUME trouble' = {}, NEW v \in Updates, v # u
      PROVE  update'[v].kind = "free" /\ update'[v].step = "check"
  BY <1>1, <1>2, <1>3, Others
<1>4. ASSUME trouble' = {}, NEW v \in Updates
      PROVE  /\ update'[v].step = "edit" => Fits(update'[v].edits, ui', fsm')
             /\ update'[v].step = "check" => update'[v].kind = "free"
  BY <1>1, <1>2, <1>3, <1>4
<1>5. ASSUME trouble' = {}, \A v \in Updates : update'[v].step = "check"
      PROVE  AgreesAfter(<<>>, ui', fsm')
  BY <1>1, <1>2, <1>5
<1>6. ASSUME trouble' = {}, NEW v \in Updates, update'[v].step = "check" PROVE TapOK(update'[v], ui')
  BY <1>4, <1>6 DEF TapOK
<1> QED  BY <1>2, <1>4, <1>5, <1>6 DEF AskInv

\* An update begins.
LEMMA BeginAsks ==
  ASSUME ChatShapes, Followed, AskInv, NEW u \in Updates, NEW kind, NEW m, NEW b, NEW rev,
         Begin(u, Handling(kind, m, b, rev)),
         trouble' = {} => TapOK(Handling(kind, m, b, rev), ui)
  PROVE  AskInv'
<1> DEFINE h == Handling(kind, m, b, rev)
<1>1. /\ h.step = "check" /\ update' = [update EXCEPT ![u] = h] /\ update[u].kind = "free"
      /\ trouble \subseteq trouble' /\ UNCHANGED <<ui, fsm, screen>>
      /\ trouble' = {} => TapOK(h, ui)
  BY DEF Begin, Handling
<1> HIDE DEF h
<1>2. \A v \in Updates : update'[v] = IF v = u THEN h ELSE update[v]
  BY <1>1 DEF ChatShapes, TypeOK
<1>3. update[u].step = "check"
  BY <1>1 DEF ChatShapes, Formed
<1>4. trouble' = {} => trouble = {}
  BY <1>1
<1>5. (\A v \in Updates : update'[v].step = "check") => \A v \in Updates : update[v].step = "check"
  BY <1>2, <1>3
<1>6. ASSUME trouble' = {}, NEW v \in Updates
      PROVE  /\ update'[v].step = "edit" => Fits(update'[v].edits, ui, fsm)
             /\ update'[v].step = "check" => TapOK(update'[v], ui)
  BY <1>1, <1>2, <1>4, <1>6 DEF AskInv
<1>7. ASSUME trouble' = {}
      PROVE  /\ Ordered(ui, screen)
             /\ (\A v \in Updates : update'[v].step = "check") => AgreesAfter(<<>>, ui, fsm)
  BY <1>4, <1>5, <1>7 DEF AskInv
<1>8. UNCHANGED ui /\ UNCHANGED fsm /\ UNCHANGED screen
  BY <1>1
<1> QED  BY <1>6, <1>7, <1>8 DEF AskInv

\* The user's part.
LEMMA UserAsks ==
  ASSUME ChatShapes, Followed, AskInv, NEW u \in Updates,
         \/ Text(u) \/ \E m \in Messages : Start(u, m)
         \/ \E m \in Messages : \E b \in Buttons(screen[m].at) : screen[m] # None /\ Tap(u, m, b)
  PROVE  AskInv'
<1>1. ASSUME NEW kind, NEW m, NEW b, NEW rev, Begin(u, Handling(kind, m, b, rev)), trouble' = {},
             kind \in {"start", "broadcast"}
      PROVE  ui.waiting = None
  <2>1. Handling(kind, m, b, rev).kind = kind
    BY DEF Handling
  <2> QED  BY <1>1, <2>1 DEF Begin
<1>2. \A kind, m, b, rev : /\ Handling(kind, m, b, rev).kind = kind /\ Handling(kind, m, b, rev).rev = rev
                           /\ Handling(kind, m, b, rev).button = b
  BY DEF Handling
<1>3. CASE Text(u)
  <2>1. Begin(u, Handling("text", None, None, 0))
    BY <1>3 DEF Text
  <2>2. TapOK(Handling("text", None, None, 0), ui)
    BY <1>2 DEF TapOK
  <2> QED  BY <2>1, <2>2, BeginAsks
<1>4. ASSUME NEW m \in Messages, Start(u, m) PROVE AskInv'
  <2>1. Begin(u, Handling("start", m, None, 0))
    BY <1>4 DEF Start
  <2>2. trouble' = {} => TapOK(Handling("start", m, None, 0), ui)
    BY <1>1, <1>2, <2>1 DEF TapOK
  <2> QED  BY <2>1, <2>2, BeginAsks
<1>5. ASSUME NEW m \in Messages, NEW b \in Buttons(screen[m].at), screen[m] # None, Tap(u, m, b)
      PROVE  AskInv'
  <2> DEFINE kind == IF b.act = "broadcast" THEN "broadcast" ELSE "tap"
  <2>1. Begin(u, Handling(kind, m, b, screen[m].rev))
    BY <1>5 DEF Tap
  <2>2. trouble' = {} => trouble = {}
    BY <2>1 DEF Begin
  <2>3. ASSUME trouble = {}, screen[m].rev = ui.rev, ui.at.route = "input" PROVE b.act = "back"
    <3>1. FromPlace(screen[m].at) = FromPlace(ui.at)
      BY <1>5, <2>3 DEF AskInv, Ordered
    <3>2. screen[m].at.route = "input"
      BY <2>3, <3>1 DEF FromPlace
    <3>3. Buttons(screen[m].at) = {BackButton}
      BY <3>2 DEF Buttons, InputButtons
    <3> QED  BY <3>3 DEF BackButton, Button
  <2>4. trouble' = {} => TapOK(Handling(kind, m, b, screen[m].rev), ui)
    <3>1. CASE b.act = "broadcast"
      BY <1>1, <1>2, <2>1, <3>1 DEF TapOK
    <3>2. CASE b.act # "broadcast"
      BY <1>2, <2>2, <2>3, <3>2 DEF TapOK
    <3> QED  BY <3>1, <3>2
  <2> HIDE DEF kind
  <2> QED  BY <2>1, <2>4, BeginAsks
<1> QED  BY <1>3, <1>4, <1>5

\* The checks plan the edits.
LEMMA CheckAsks ==
  ASSUME ChatShapes, ChatAssumption, Followed, AskInv, NEW u \in Updates, CheckTap(u) \/ CheckOther(u)
  PROVE  AskInv'
<1> DEFINE h == update[u]
<1>1. /\ h.step = "check" /\ h.kind # "free" /\ Formed(h) /\ ui \in States
      /\ UNCHANGED <<trouble, fsm, screen, owned>>
  BY DEF CheckTap, CheckOther, ChatShapes, TypeOK
<1>2. ui'.at = ui.at /\ ui'.stack = ui.stack /\ ui'.waiting = ui.waiting /\ ui'.rev = ui.rev
  BY DEF CheckTap, CheckOther, State
<1>3. ASSUME trouble = {}, OneAtATime
      PROVE  AgreesAfter(<<>>, ui, fsm) /\ TapOK(h, ui) /\ Ordered(ui, screen)
  <2>1. \A v \in Updates : update[v].step = "check"
    BY <1>1, <1>3, Others
  <2> QED  BY <1>3, <2>1 DEF AskInv
<1>4. trouble = {} /\ OneAtATime => Ordered(ui', screen')
  BY <1>1, <1>2, <1>3 DEF Ordered
<1>5. \A es : Fits(es, ui, fsm) => Fits(es, ui', fsm')
  BY <1>1, <1>2 DEF Fits, Leads, AgreesAfter, EndsAsking
<1>6. ASSUME NEW k, update' = [update EXCEPT ![u] = k], k.step = "edit",
             trouble = {} /\ OneAtATime => Fits(k.edits, ui, fsm)
      PROVE  AskInv'
  <2>1. trouble \subseteq trouble' /\ (trouble' = {} => trouble = {})
    BY <1>1
  <2> QED  BY <1>1, <1>4, <1>5, <1>6, <2>1, OneAsks
<1>7. \A es : Planned(h, ui, es).edits = es /\ Planned(h, ui, es).step = "edit"
  BY DEF Planned, Checked
<1>8. CASE CheckTap(u)
  <2>1. CASE update' = [update EXCEPT ![u] = Redraws(h, ui)]
    <3>1. Redraws(h, ui).edits = <<>> /\ Redraws(h, ui).step = "edit"
      BY DEF Redraws, Checked
    <3>2. trouble = {} /\ OneAtATime => Fits(<<>>, ui, fsm)
      BY <1>3, NothingSays DEF Fits
    <3> QED  BY <1>6, <2>1, <3>1, <3>2
  <2>2. CASE ~Stale(u) /\ \E es \in TapEdits(h.button, ui) : update' = [update EXCEPT ![u] = Planned(h, ui, es)]
    <3>1. PICK es \in TapEdits(h.button, ui) : update' = [update EXCEPT ![u] = Planned(h, ui, es)]
      BY <2>2
    <3>2. h.kind = "tap" /\ h.rev = ui.rev
      BY <1>8, <2>2 DEF Stale, CheckTap
    <3>3. h.button \in ButtonType /\ h.button.act # "broadcast"
      BY <1>1, <3>2 DEF Formed
    <3>4. ASSUME trouble = {}, OneAtATime PROVE Fits(es, ui, fsm)
      <4>1. ui.at.route = "input" => h.button.act = "back"
        BY <1>3, <3>2, <3>4 DEF TapOK
      <4> QED  BY <1>1, <1>3, <3>1, <3>3, <3>4, <4>1, TapFits
    <3> QED  BY <1>6, <1>7, <3>1, <3>4
  <2> QED  BY <1>8, <2>1, <2>2 DEF CheckTap
<1>9. CASE CheckOther(u)
  <2>1. PICK es : /\ update' = [update EXCEPT ![u] = Planned(h, ui, es)]
                  /\ \/ h.kind = "text" /\ es \in TextEdits(ui)
                     \/ h.kind = "start" /\ es = StartEdits(h.msg)
                     \/ h.kind = "broadcast" /\ es = BroadcastEdits(h.msg, h.button)
    BY <1>9 DEF CheckOther
  <2>2. ASSUME trouble = {}, OneAtATime PROVE Fits(es, ui, fsm)
    <3>1. CASE h.kind = "text"
      BY <1>1, <1>3, <2>1, <2>2, <3>1, TextFits
    <3>2. CASE h.kind \in {"start", "broadcast"}
      <4>1. ui.waiting = None
        BY <1>3, <2>2, <3>2 DEF TapOK
      <4>2. EndsAsking(<<>>, ui, fsm, "rest")
        BY <1>3, <2>2, <4>1, AgreeNow
      <4>3. ASSUME NEW p, FromPlace(p) = "rest"
            PROVE  Fits(<<Replace(p), SaveAnchor(h.msg)>>, ui, fsm)
                   /\ Fits(<<SaveAnchor(h.msg), Replace(p)>>, ui, fsm)
        <5> DEFINE r == Replace(p)
                   a == SaveAnchor(h.msg)
        <5>1. r.do \in Moves /\ r.do # "forward" /\ r.value = p /\ a.do \notin Moves
          BY EditDoes DEF Moves
        <5>2. AgreesAfter(<<r, SaveAnchor(h.msg)>>, ui, fsm) /\ AgreesAfter(<<SaveAnchor(h.msg), r>>, ui, fsm)
          <6> HIDE DEF r, a
          <6> QED  BY <4>2, <4>3, <5>1, MovesAgree
        <5>3. Leads(<<r, a>>, ui) /\ Leads(<<a, r>>, ui)
          <6> HIDE DEF r, a
          <6> QED  BY <5>1, ShortLeads
        <5> QED  BY <5>2, <5>3 DEF Fits
      <4>4. CASE h.kind = "start"
        <5>1. FromPlace(MainScreen) = "rest"
          BY DEF FromPlace, MainScreen, To
        <5> QED  BY <2>1, <4>3, <4>4, <5>1 DEF StartEdits
      <4>5. CASE h.kind = "broadcast"
        <5>1. h.button \in ButtonType
          BY <1>1, <4>5 DEF Formed
        <5>2. FromPlace(To(h.button.to, None)) = "rest"
          BY <5>1 DEF ButtonType, FirstKinds, FromPlace, To
        <5> QED  BY <2>1, <4>3, <4>5, <5>2 DEF BroadcastEdits
      <4> QED  BY <3>2, <4>4, <4>5
    <3> QED  BY <2>1, <3>1, <3>2
  <2> QED  BY <1>6, <1>7, <2>1, <2>2
<1> QED  BY <1>8, <1>9

\* An edit is made.
LEMMA EditingAsks ==
  ASSUME ChatShapes, ChatAssumption, Followed, AskInv, NEW u \in Updates,
         CallBackend(u) \/ SetFsm(u) \/ Load(u) \/ Save(u)
  PROVE  AskInv'
<1> DEFINE h == update[u]
           e == Head(h.edits)
           k(es, r, v) == Checked(h.kind, h.msg, h.rev, h.seen, es, r, v)
<1>1. /\ h \in UpdateType /\ h.step = "edit" /\ h.kind # "free" /\ h.edits # <<>> /\ h.edits \in Seq(EditType)
      /\ trouble' = trouble /\ ui \in States /\ UNCHANGED screen
  BY DEF CallBackend, SetFsm, Load, Save, Editing, ChatShapes, TypeOK, UpdateType, Formed
<1>2. e \in EditType
  BY <1>1, HeadAndTail
<1>3. \A es, r, v : k(es, r, v).edits = es /\ k(es, r, v).step = "edit"
  BY DEF Checked
<1>4. \A es, r, v : GoesOn(u, es, r, v) => update' = [update EXCEPT ![u] = k(es, r, v)]
  BY DEF GoesOn
<1>5. ASSUME trouble = {} PROVE Ordered(ui, screen) /\ Fits(h.edits, ui, fsm)
  BY <1>1, <1>5 DEF AskInv
<1>6. ASSUME NEW es, NEW r, NEW v, GoesOn(u, es, r, v),
             trouble = {} /\ Tracks(h, ui) => Ordered(ui', screen) /\ Fits(es, ui', fsm')
      PROVE  AskInv'
  <2>1. k(es, r, v).step \in {"check", "edit"} /\ k(es, r, v).step # "check" /\ k(es, r, v).edits = es
    BY <1>3
  <2>2. update' = [update EXCEPT ![u] = k(es, r, v)]
    BY <1>4, <1>6
  <2>3. screen' = screen /\ trouble \subseteq trouble' /\ (trouble' = {} => trouble = {})
    BY <1>1
  <2> HIDE DEF k
  <2> QED  BY <1>1, <1>6, <2>1, <2>2, <2>3, OneAsks
<1> HIDE DEF k, e
<1>7. CASE CallBackend(u)
  <2>1. /\ GoesOn(u, Tail(h.edits), h.read, h.view) /\ UNCHANGED <<ui, fsm>> /\ e.do = "act"
    BY <1>7 DEF CallBackend, Editing, e
  <2>2. \A said, d : d \in {{"wait"}, {"fsm"}, Moves} => Then(said, e, d) = said
    BY <2>1 DEF Then, Moves
  <2>3. ASSUME trouble = {} PROVE Fits(Tail(h.edits), ui, fsm)
    BY <1>1, <1>5, <2>2, <2>3, TailFits DEF e
  <2> QED  BY <1>5, <1>6, <2>1, <2>3
<1>8. CASE SetFsm(u)
  <2>1. /\ GoesOn(u, Tail(h.edits), h.read, h.view) /\ UNCHANGED ui /\ e.do = "fsm" /\ fsm' = e.value
    BY <1>8 DEF SetFsm, Editing, e
  <2>2. /\ Then(FromWait(ui.waiting), e, {"wait"}) = FromWait(ui.waiting)
        /\ Then(FromFsm(fsm), e, {"fsm"}) = FromFsm(fsm')
        /\ Then(FromPlace(ui.at), e, Moves) = FromPlace(ui.at)
    BY <2>1 DEF Then, Moves, FromEdit
  <2>3. ASSUME trouble = {} PROVE Fits(Tail(h.edits), ui, fsm')
    BY <1>1, <1>5, <2>2, <2>3, TailFits DEF e
  <2> QED  BY <1>5, <1>6, <2>1, <2>3
<1>9. CASE Load(u)
  <2>1. GoesOn(u, h.edits, ui, h.view) /\ UNCHANGED <<ui, fsm>>
    BY <1>9 DEF Load
  <2> QED  BY <1>5, <1>6, <2>1
<1>10. CASE Save(u)
  <2>1. /\ GoesOn(u, Tail(h.edits), None, ui') /\ fsm' = fsm
        /\ ui' = Edited(e, h.read) /\ e.do \in NavEdits /\ h.read # None
    BY <1>10 DEF Save, Editing, e
  <2>2. ASSUME trouble = {}, Tracks(h, ui) PROVE Ordered(ui', screen) /\ Fits(Tail(h.edits), ui', fsm')
    <3>1. ui' = Edited(e, ui)
      BY <2>1, <2>2 DEF Tracks
    <3>2. e.do = "forward" => ui.at.route # "input"
      <4>1. e = h.edits[1] /\ 1 \in DOMAIN h.edits
        BY <1>1, HeadAndTail DEF e
      <4> QED  BY <1>5, <2>2, <4>1 DEF Fits, Leads, Has
    <3>3. \A i \in DOMAIN ui.stack : ui.stack[i].route # "input"
      BY <1>5, <2>2 DEF Ordered
    <3> DEFINE t == Edited(e, ui)
    <3>4. /\ FromWait(t.waiting) = Then(FromWait(ui.waiting), e, {"wait"})
          /\ FromPlace(t.at) = Then(FromPlace(ui.at), e, Moves)
          /\ e.do \notin Moves => t.at = ui.at
          /\ \A i \in DOMAIN t.stack : t.stack[i].route # "input"
      BY <1>1, <1>2, <2>1, <3>2, <3>3, EditedAsks
    <3>5. t.rev = IF e.do \in Moves THEN ui.rev + 1 ELSE ui.rev
      BY <1>1, <1>2, <2>1, EditedRev
    <3> HIDE DEF t
    <3>6. Then(FromFsm(fsm), e, {"fsm"}) = FromFsm(fsm)
      BY <2>1 DEF Then, NavEdits
    <3>7. Fits(Tail(h.edits), t, fsm)
      BY <1>1, <1>5, <2>2, <3>4, <3>6, TailFits DEF e
    <3>8. Ordered(t, screen)
      <4>1. ui.rev \in Nat /\ \A m \in Messages : screen[m] # None => screen[m].rev \in Nat
        BY <1>1 DEF States, ChatShapes, TypeOK
      <4>2. Ordered(ui, screen)
        BY <1>5, <2>2
      <4>3. CASE e.do \in Moves
        <5>1. t.rev = ui.rev + 1 /\ \A m \in Messages : screen[m] # None => screen[m].rev < t.rev
          BY <3>5, <4>1, <4>2, <4>3 DEF Ordered
        <5>2. \A m \in Messages : screen[m] # None => screen[m].rev <= t.rev /\ screen[m].rev # t.rev
          BY <4>1, <5>1
        <5> QED  BY <3>4, <4>1, <5>1, <5>2 DEF Ordered
      <4>4. CASE e.do \notin Moves
        BY <3>4, <3>5, <4>2, <4>4 DEF Ordered
      <4> QED  BY <4>3, <4>4
    <3> QED  BY <2>1, <3>1, <3>7, <3>8 DEF t
  <2> QED  BY <1>6, <2>1, <2>2
<1> QED  BY <1>7, <1>8, <1>9, <1>10

\* A screen that is drawn asks as the state does.
LEMMA DrawnAsks ==
  ASSUME NEW p
  PROVE  FromPlace(Drawn(p)) = FromPlace(p)
BY DEF Drawn, FromPlace, To

\* An update ends.
LEMMA EndAsks ==
  ASSUME ChatShapes, ChatAssumption, Followed, AskInv, NEW u \in Updates, update[u].step = "edit",
         NEW m \in Messages \cup {None}, NEW p, NEW rev, NEW wrong,
         End(u, m, [at |-> p, rev |-> rev], wrong),
         \/ wrong # {}
         \/ /\ update[u].edits = <<>>
            /\ Tracks(update[u], ui) /\ AgreesAfter(<<>>, ui, fsm) =>
                 m = None \/ (rev = ui.rev /\ FromPlace(p) = FromPlace(ui.at))
  PROVE  AskInv'
<1>1. /\ screen' = IF m = None THEN screen ELSE [screen EXCEPT ![m] = [at |-> p, rev |-> rev]]
      /\ update' = [update EXCEPT ![u] = Free] /\ trouble' = trouble \cup wrong
      /\ UNCHANGED <<ui, fsm>>
  BY DEF End
<1>2. CASE wrong # {}
  BY <1>1, <1>2 DEF AskInv
<1>3. CASE wrong = {}
  <2>1. update[u].kind # "free"
    BY DEF ChatShapes, Formed
  <2>2. Free.step = "check" /\ Free.kind = "free"
    BY DEF Free, Handling
  <2>3. ASSUME trouble = {} PROVE AgreesAfter(<<>>, ui, fsm) /\ Ordered(ui, screen)
    BY <1>3, <2>3 DEF AskInv, Fits
  <2>4. ASSUME trouble = {}, Tracks(update[u], ui) PROVE Ordered(ui, screen')
    <3>1. CASE m = None
      BY <1>1, <2>3, <2>4, <3>1
    <3>2. CASE m # None
      <4>1. rev = ui.rev /\ FromPlace(p) = FromPlace(ui.at) /\ ui.rev \in Nat
        BY <1>3, <2>3, <2>4, <3>2 DEF ChatShapes, TypeOK, States
      <4>2. \A n \in Messages : screen'[n] = IF n = m THEN [at |-> p, rev |-> rev] ELSE screen[n]
        BY <1>1, <3>2 DEF ChatShapes, TypeOK
      <4>3. ASSUME NEW n \in Messages, screen'[n] # None
            PROVE  /\ screen'[n].rev <= ui.rev
                   /\ screen'[n].rev = ui.rev =>
                        FromPlace(screen'[n].at) = FromPlace(ui.at)
        <5>1. CASE n = m
          BY <4>1, <4>2, <5>1
        <5>2. CASE n # m
          BY <2>3, <2>4, <4>2, <4>3, <5>2 DEF Ordered
        <5> QED  BY <5>1, <5>2
      <4>4. Ordered(ui, screen)
        BY <2>3, <2>4
      <4> QED  BY <4>3, <4>4 DEF Ordered
    <3> QED  BY <3>1, <3>2
  <2>5. ui' = ui /\ fsm' = fsm /\ trouble \subseteq trouble' /\ (trouble' = {} => trouble = {})
    BY <1>1
  <2>6. update' = [update EXCEPT ![u] = Free] /\ Free.step \in {"check", "edit"}
    BY <1>1, <2>2
  <2> QED  BY <2>1, <2>2, <2>3, <2>4, <2>5, <2>6, OneAsks
<1> QED  BY <1>2, <1>3

\* The ways in which an update ends.
LEMMA EndsAsks ==
  ASSUME ChatShapes, ChatAssumption, Followed, AskInv, NEW u \in Updates,
         Show(u) \/ ShowNothing(u) \/ ShowRefused(u) \/ Recover(u) \/ Fail(u)
  PROVE  AskInv'
<1> DEFINE h == update[u]
<1>1. h.step = "edit" /\ h \in UpdateType /\ Formed(h)
  BY DEF Show, ShowNothing, ShowRefused, Recover, Fail, Raises, Ready, ChatShapes, TypeOK
<1>2. /\ h.seen \in States /\ h.msg \in Messages \cup {None} /\ h.view \in States \cup {None}
  BY <1>1 DEF Formed, UpdateType
<1>3. \A s \in States : s.anchor \in Messages \cup {None}
  BY DEF States
<1>4. CASE Show(u)
  <2> DEFINE m == IF h.kind = "text" THEN h.view.anchor ELSE h.msg
  <2>1. h.view # None /\ h.edits = <<>>
    BY <1>4 DEF Show, Unanswered, Ready
  <2>2. m \in Messages \cup {None}
    BY <1>2, <1>3, <2>1
  <2>3. End(u, m, [at |-> Drawn(h.view.at), rev |-> h.view.rev], {})
    BY <1>4 DEF Show, DrawnAfter
  <2>4. Tracks(h, ui) => h.view = ui
    BY <2>1 DEF Tracks
  <2>5. Tracks(h, ui) => h.view.rev = ui.rev /\ FromPlace(Drawn(h.view.at)) = FromPlace(ui.at)
    BY <2>4, DrawnAsks
  <2> HIDE DEF m
  <2> QED  BY <1>1, <2>1, <2>2, <2>3, <2>5, EndAsks
<1>5. CASE ShowNothing(u)
  <2>1. End(u, None, [at |-> MainScreen, rev |-> 0], {}) /\ h.edits = <<>>
    BY <1>5 DEF ShowNothing, End, Ready
  <2> QED  BY <1>1, <2>1, EndAsks
<1>6. CASE ShowRefused(u)
  <2>1. End(u, h.seen.anchor, [at |-> To("input", None), rev |-> h.seen.rev], {})
        /\ h.kind = "text" /\ h.view = None /\ h.edits = <<>>
    BY <1>6 DEF ShowRefused, Ready, Unanswered
  <2>2. Tracks(h, ui) => h.seen = ui /\ ui.waiting # None
    BY <1>1, <2>1, NothingHas DEF Tracks
  <2>3. ASSUME Tracks(h, ui), AgreesAfter(<<>>, ui, fsm)
        PROVE  h.seen.rev = ui.rev /\ FromPlace(To("input", None)) = FromPlace(ui.at)
    <3>1. FromWait(ui.waiting) = "ask" /\ FromPlace(To("input", None)) = "ask"
      BY <2>2, <2>3 DEF FromWait, FromPlace, To
    <3> QED  BY <2>2, <2>3, <3>1, AgreeNow
  <2> QED  BY <1>1, <1>2, <1>3, <2>1, <2>3, EndAsks
<1>7. CASE Recover(u)
  <2>1. End(u, h.msg, [at |-> Drawn(ui.at), rev |-> ui.rev], {}) /\ h.edits = <<>>
    BY <1>7 DEF Recover, Ready
  <2> QED  BY <1>1, <1>2, <2>1, DrawnAsks, EndAsks
<1>8. CASE Fail(u)
  <2> DEFINE back == IF CanDraw(h.seen.at) THEN h.seen ELSE ui
             m == IF h.kind = "tap" /\ CanDraw(back.at) THEN h.msg ELSE None
             wrong == {IF Ready(u) THEN "drawing" ELSE "fault"}
  <2>1. End(u, m, [at |-> Drawn(back.at), rev |-> back.rev], wrong)
    BY <1>8 DEF Fail
  <2>2. m \in Messages \cup {None} /\ wrong # {}
    BY <1>2
  <2> HIDE DEF back, m, wrong
  <2> QED  BY <1>1, <2>1, <2>2, EndAsks
<1> QED  BY <1>4, <1>5, <1>6, <1>7, <1>8

\* A message from outside, and a restart.
LEMMA OutsideAsks ==
  ASSUME ChatShapes, AskInv, (\E m \in Messages : Broadcast(m)) \/ Restart
  PROVE  AskInv'
<1>1. CASE \E m \in Messages : Broadcast(m)
  <2>1. PICK m \in Messages : Broadcast(m)
    BY <1>1
  <2> DEFINE b == [at |-> To("broadcast", None), rev |-> 0]
  <2>2. UNCHANGED <<ui, fsm, update, trouble>> /\ screen' = [screen EXCEPT ![m] = b]
    BY <2>1 DEF Broadcast
  <2>3. b.rev = 0 /\ FromPlace(b.at) = "rest"
    BY DEF FromPlace, To
  <2> HIDE DEF b
  <2>4. \A n \in Messages : screen'[n] = IF n = m THEN b ELSE screen[n]
    BY <2>2 DEF ChatShapes, TypeOK
  <2>5. ASSUME Ordered(ui, screen) PROVE Ordered(ui, screen')
    <3>1. ui.rev \in Nat
      BY DEF ChatShapes, TypeOK, States
    <3>2. ui.rev = 0 => FromPlace(ui.at) = "rest"
      BY <2>5 DEF Ordered, FromPlace
    <3>3. ASSUME NEW n \in Messages, screen'[n] # None
          PROVE  /\ screen'[n].rev <= ui.rev
                 /\ screen'[n].rev = ui.rev =>
                      FromPlace(screen'[n].at) = FromPlace(ui.at)
      <4>1. CASE n = m
        BY <2>3, <2>4, <3>1, <3>2, <4>1
      <4>2. CASE n # m
        BY <2>4, <2>5, <3>3, <4>2 DEF Ordered
      <4> QED  BY <4>1, <4>2
    <3> QED  BY <2>5, <3>3 DEF Ordered
  <2>6. ui' = ui /\ fsm' = fsm /\ update' = update /\ trouble' = trouble
    BY <2>2
  <2> QED  BY <2>5, <2>6 DEF AskInv
<1>2. CASE Restart
  BY <1>2 DEF Restart, AskInv
<1> QED  BY <1>1, <1>2

\* Before the first update.
LEMMA InitAsks ==
  ASSUME ChatAssumption, Init
  PROVE  AskInv
<1>1. /\ ui.at = MainScreen /\ ui.stack = <<>> /\ ui.waiting = None /\ fsm = None
      /\ \A m \in Messages : screen[m] = None
  BY DEF Init, Blank, State
<1>2. ui.at.route # "input" /\ FromPlace(ui.at) = "rest"
  BY <1>1 DEF MainScreen, To, FromPlace
<1>3. Ordered(ui, screen)
  BY <1>1, <1>2 DEF Ordered
<1>4. FromWait(ui.waiting) = "rest" /\ FromFsm(fsm) = "rest"
  BY <1>1, ChatAssumption DEF FromWait, FromFsm
<1>5. AgreesAfter(<<>>, ui, fsm)
  BY <1>2, <1>4, NothingSays DEF AgreesAfter, EndsAsking
<1>6. \A u \in Updates : update[u].step = "check" /\ update[u].kind = "free"
  BY DEF Init, Free, Handling
<1> QED  BY <1>3, <1>5, <1>6 DEF AskInv, TapOK

\* A step of the chat keeps it.
LEMMA StepAsks ==
  ASSUME ChatAssumption, ChatShapes, Followed, AskInv, [Next]_chatVars
  PROVE  AskInv'
<1>1. ASSUME NEW u \in Updates, Handle(u) PROVE AskInv'
  BY <1>1, CheckAsks, EditingAsks, EndsAsks DEF Handle
<1>2. CASE UNCHANGED chatVars
  <2>1. ui' = ui /\ fsm' = fsm /\ update' = update /\ trouble' = trouble /\ screen' = screen
    BY <1>2 DEF chatVars
  <2> QED  BY <2>1 DEF AskInv
<1>3. CASE \E u \in Updates, m \in Messages :
             screen[m] # None /\ \E b \in Buttons(screen[m].at) : Tap(u, m, b)
  BY <1>3, UserAsks
<1> QED  BY <1>1, <1>2, <1>3, UserAsks, OutsideAsks DEF Next

-----------------------------------------------------------------------------
(* The theorems.                                                             *)

ChatInv == ChatShapes /\ Followed /\ ShownLast /\ ActInv /\ AskInv

\* The invariant holds in every state of the chat.
THEOREM ChatInvariant == Spec => []ChatInv
<1>1. Init => ChatInv
  BY ChatAssumption, InitShapes, InitFollowed, InitActs, InitAsks DEF ChatInv
<1>2. ChatInv /\ [Next]_chatVars => ChatInv'
  BY ChatAssumption, StepShapes, StepFollowed, StepActs, StepAsks DEF ChatInv
<1> QED  BY <1>1, <1>2, PTL DEF Spec

\* The chat keeps its types.
THEOREM ChatTypes == Spec => []TypeOK
<1>1. ChatInv => TypeOK
  BY DEF ChatInv, ChatShapes
<1> QED  BY <1>1, ChatInvariant, PTL

\* ShownIsCurrent: after an update that ran alone and met no fault, whatever came before it,
\* the anchor shows the screen of the saved state with its revision, or asks again.
THEOREM TheScreenIsCurrent == Spec => []ShownIsCurrent
<1>1. ChatInv => ShownIsCurrent
  BY DEF ChatInv, ShownLast, ShownIsCurrent
<1> QED  BY <1>1, ChatInvariant, PTL

\* ActedOnce: when updates come one at a time, a screen is acted upon at most once.
THEOREM ScreensActOnce == Spec => []ActedOnce
<1>1. ChatInv => ActedOnce
  BY DEF ChatInv, ActInv, Undisturbed, ActedOnce
<1> QED  BY <1>1, ChatInvariant, PTL

\* InputWhenAsked: when updates come one at a time and none fails, texts are taken as values
\* exactly while the chat is at the screen that asks for one.
THEOREM AskedWhereTaken == Spec => []InputWhenAsked
<1>1. ASSUME ChatInv, trouble = {}, Idle
      PROVE  /\ (fsm = WaitingValue) = (ui.waiting # None)
             /\ (ui.waiting # None) = (ui.at.route = "input")
  <2>1. \A u \in Updates : update[u].step = "check"
    BY <1>1 DEF Idle, ChatInv, ChatShapes, Formed
  <2>2. AgreesAfter(<<>>, ui, fsm)
    BY <1>1, <2>1 DEF ChatInv, AskInv
  <2>3. FromWait(ui.waiting) = FromPlace(ui.at) /\ FromFsm(fsm) = FromPlace(ui.at)
    BY <2>2, AgreeNow
  <2>4. ui.waiting # None <=> ui.at.route = "input"
    BY <2>3 DEF FromWait, FromPlace
  <2>5. fsm = WaitingValue <=> ui.at.route = "input"
    BY <2>3 DEF FromFsm, FromPlace
  <2> QED  BY <2>4, <2>5
<1>2. ChatInv => InputWhenAsked
  BY <1>1 DEF InputWhenAsked
<1> QED  BY <1>2, ChatInvariant, PTL

=============================================================================
