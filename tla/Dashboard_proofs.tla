-------------------------- MODULE Dashboard_proofs --------------------------
(***************************************************************************)
(* Theorems about Dashboard, for any filters, pages of rows, buttons and   *)
(* bounds on clicks and polls.                                             *)
(***************************************************************************)
EXTENDS Dashboard, FiniteSetTheorems, TLAPS

(* The types, with a form for every click at most and an open one counted. *)
Typed ==
  /\ key \in {"none", "good", "bad"}
  /\ gate \in {"loading", "form", "checking", "app"}
  /\ page \in Page
  /\ content \in Page \cup {"blank", "login"}
  /\ shown \in Query \cup {Skeleton}
  /\ want \in [Lists -> Query]
  /\ pending \in [Get -> Nat]
  /\ intervals \in 0..1
  /\ form \in Nat /\ form <= clicks
  /\ open \in BOOLEAN /\ busy \subseteq Buttons
  /\ open => form > 0
  /\ posts \subseteq Submit /\ succeeded \subseteq Submit
  /\ clicks \in 0..MaxClicks

(* The requests that are still to come of clicks already made, and of the  *)
(* page load: a submit or a sign-in under way makes one when it succeeds.  *)
Owed == Cardinality(posts) + IF gate \in {"loading", "checking"} THEN 1 ELSE 0

(* Polls alone fill a page's requests up to MaxPending; whatever is beyond *)
(* was made by the page load or by a click of its own.                     *)
Budget ==
  /\ IsFiniteSet(posts)
  /\ Owed <= clicks + 1
  /\ \A g \in Get : pending[g] + Owed <= MaxPending + clicks + 1

(* A submit belongs to a form that was opened.  One in flight for the last *)
(* form has its button disabled; one that succeeded has closed it.         *)
SubmitsHeld ==
  /\ \A s \in posts \cup succeeded : s[1] <= form
  /\ \A s \in posts : s[1] = form => s[2] \in busy
  /\ \A s \in succeeded : s[1] = form => ~open

Inv == Typed /\ Budget /\ SubmitsHeld /\ ScreenFits

-----------------------------------------------------------------------------
(* The requests of a page: one more at most, and only for a page's query.  *)
Polled ==
  /\ pending' \in [Get -> Nat]
  /\ \A g \in Get : pending'[g] <= pending[g] + 1

LEMMA QueryTyped == First \in Query /\ Skeleton \notin Query
BY DashboardAssumption DEF First, Query

LEMMA CurrentTyped ==
  ASSUME Typed, NEW p \in Page
  PROVE  Current(p) \in Query /\ [to |-> p, query |-> Current(p)] \in Get
BY QueryTyped DEF Typed, Current, Get

LEMMA AskPolls ==
  ASSUME Typed, NEW p \in Page, NEW q \in Query,
         [to |-> p, query |-> q] \in Get, Ask(p, q)
  PROVE  Polled
BY DEF Typed, Ask, Polled

LEMMA RenderTyped ==
  ASSUME Typed, NEW p \in Page, Render(p)
  PROVE  /\ content' = p /\ shown' = Skeleton
         /\ want' \in [Lists -> Query]
         /\ Polled
<1>1. [to |-> p, query |-> First] \in Get
  BY QueryTyped DEF Get
<1>2. Polled
  BY <1>1, QueryTyped, AskPolls DEF Render
<1> QED
  BY <1>2, QueryTyped DEF Render, Typed

LEMMA ReloadTyped ==
  ASSUME Typed, NEW p \in Page, Reload(p)
  PROVE  Polled /\ UNCHANGED <<content, shown, want>>
BY CurrentTyped, AskPolls DEF Reload

LEMMA LoadTyped ==
  ASSUME Typed, NEW l \in Lists, NEW q \in Query, Load(l, q)
  PROVE  /\ want' \in [Lists -> Query]
         /\ Polled
         /\ UNCHANGED <<session, page, content, shown, modal>>
<1>1. l \in Page /\ [to |-> l, query |-> q] \in Get
  BY DEF Lists, Page, Get
<1>2. Polled
  BY <1>1, AskPolls DEF Load
<1> QED
  BY <1>2 DEF Load, Typed

LEMMA BootTyped ==
  ASSUME Typed, Boot
  PROVE  /\ key' = "good" /\ gate' = "app" /\ intervals' = 1
         /\ page' = "dashboard" /\ content' = "dashboard" /\ shown' = Skeleton
         /\ want' \in [Lists -> Query]
         /\ Polled
<1>1. "dashboard" \in Page
  BY DEF Page
<1> QED
  BY <1>1, RenderTyped DEF Boot

(* Tick polls a page that has room below MaxPending.                       *)
LEMMA TickTyped ==
  ASSUME Typed, Tick
  PROVE  /\ content' \in {content, page}
         /\ shown' \in {shown, Skeleton}
         /\ want' \in [Lists -> Query]
         /\ Polled
         /\ UNCHANGED <<session, page, modal, clicks>>
         /\ \A g \in Get : pending'[g] = pending[g] \/ pending[g] < MaxPending
<1> DEFINE h == [to |-> page, query |-> Current(page)]
<1>1. page \in Page
  BY DEF Typed
<1>2. h \in Get /\ pending[h] < MaxPending
  BY <1>1, CurrentTyped DEF Tick
<1>3. CASE page \in Rerendered /\ Render(page)
  <2>1. Current(page) = First
    BY <1>3 DEF Rerendered, Current, Lists
  <2>2. \A g \in Get : pending'[g] = pending[g] \/ g = h
    BY <1>2, <1>3, <2>1 DEF Render, Ask, Typed
  <2>3. Polled /\ content' = page /\ shown' = Skeleton /\ want' \in [Lists -> Query]
    BY <1>1, <1>3, RenderTyped
  <2> QED
    BY <1>2, <2>2, <2>3 DEF Tick
<1>4. CASE page \in Reloaded /\ Reload(page)
  <2>1. \A g \in Get : pending'[g] = pending[g] \/ g = h
    BY <1>2, <1>4 DEF Reload, Ask, Typed
  <2>2. Polled /\ UNCHANGED <<content, shown, want>>
    BY <1>1, <1>4, ReloadTyped
  <2> QED
    BY <1>2, <2>1, <2>2 DEF Tick, Typed
<1> QED
  BY <1>3, <1>4 DEF Tick

(* The refresh after a success reaches only the page of the operator.      *)
LEMMA RefreshTyped ==
  ASSUME Typed, Refresh
  PROVE  /\ content' \in {content, page}
         /\ shown' \in {shown, Skeleton}
         /\ want' \in [Lists -> Query]
         /\ Polled
<1>1. CASE page = "tasks" /\ Reload("tasks")
  BY <1>1, ReloadTyped DEF Typed
<1>2. CASE page = "dashboard" /\ Render("dashboard")
  BY <1>2, RenderTyped DEF Typed
<1>3. CASE UNCHANGED <<content, shown, want, pending>>
  BY <1>3 DEF Typed, Polled
<1> QED
  BY <1>1, <1>2, <1>3 DEF Refresh

LEMMA AnswerTyped ==
  ASSUME Typed, NEW g \in Get, Land(g) \/ Fail(g)
  PROVE  /\ pending' \in [Get -> Nat]
         /\ \A h \in Get : pending'[h] <= pending[h]
         /\ shown' \in Query \cup {Skeleton}
         /\ UNCHANGED <<session, page, content, want, modal, clicks>>
<1>1. g.query \in Query
  BY DEF Get
<1> QED
  BY <1>1 DEF Typed, Land, Fail

(* A click on a list: its filter or one of its pages.                      *)
LEMMA ListTyped ==
  ASSUME Typed, NEW l \in Lists, Turn(l) \/ \E f \in Filters : Filter(l, f)
  PROVE  /\ want' \in [Lists -> Query]
         /\ Polled
         /\ Click
         /\ UNCHANGED <<session, page, content, shown, modal>>
<1>1. CASE Turn(l)
  <2>1. PICK n \in Pagination(shown) : Load(l, [want[l] EXCEPT !.no = n])
    BY <1>1 DEF Turn
  <2>2. [want[l] EXCEPT !.no = n] \in Query
    BY DEF Typed, Query, Pagination
  <2> QED
    BY <1>1, <2>1, <2>2, LoadTyped DEF Turn
<1>2. CASE \E f \in Filters : Filter(l, f)
  <2>1. PICK f \in Filters : Filter(l, f)
    BY <1>2
  <2>2. [filter |-> f, no |-> 1] \in Query
    BY DashboardAssumption DEF Query
  <2> QED
    BY <2>1, <2>2, LoadTyped DEF Filter
<1> QED
  BY <1>1, <1>2

-----------------------------------------------------------------------------
LEMMA TypeInit == Init => Typed
<1> SUFFICES ASSUME Init PROVE Typed
  OBVIOUS
<1>1. want \in [Lists -> Query] /\ pending \in [Get -> Nat]
  BY QueryTyped DEF Init
<1>2. gate \in {"loading", "form"} /\ content \in {"blank", "login"} /\ page \in Page
  BY DEF Init, Page
<1>3. 0 \in 0..MaxClicks /\ 0 \in 0..1
  BY DashboardAssumption
<1>4. /\ posts = {} /\ succeeded = {} /\ busy = {} /\ ~open /\ open \in BOOLEAN
      /\ key \in {"none", "good", "bad"} /\ shown = Skeleton
      /\ form = 0 /\ clicks = 0 /\ intervals = 0
  BY DEF Init
<1> QED
  BY <1>1, <1>2, <1>3, <1>4 DEF Typed

LEMMA TypeStep == Typed /\ [Next]_vars => Typed'
<1> SUFFICES ASSUME Typed, [Next]_vars PROVE Typed'
  OBVIOUS
<1> USE DashboardAssumption DEF session, modal
<1>1. CASE Login
  BY <1>1 DEF Typed, Login, Click
<1>2. CASE Logout
  BY <1>2 DEF Typed, Logout, Click, ShowLogin
<1>3. CASE OpenForm
  BY <1>3 DEF Typed, OpenForm, Click
<1>4. CASE CloseForm
  <2>1. clicks \in 0..MaxClicks /\ clicks < MaxClicks /\ clicks' = clicks + 1
    BY <1>4 DEF Typed, CloseForm, Click
  <2>2. clicks' \in 0..MaxClicks /\ (form \in Nat /\ form <= clicks => form <= clicks')
    BY <2>1
  <2> QED
    BY <1>4, <2>2 DEF Typed, CloseForm
<1>5. ASSUME NEW p \in Page, Navigate(p) PROVE Typed'
  <2>1. Render(p)
    BY <1>5 DEF Navigate
  <2> QED
    BY <1>5, <2>1, RenderTyped DEF Typed, Navigate, Click, Polled
<1>6. ASSUME NEW l \in Lists, Turn(l) \/ \E f \in Filters : Filter(l, f) PROVE Typed'
  BY <1>6, ListTyped DEF Typed, Click, Polled
<1>7. ASSUME NEW b \in Buttons, SubmitForm(b) PROVE Typed'
  <2>1. <<form, b>> \in Submit
    BY <1>7 DEF Typed, SubmitForm, Submit
  <2> QED
    BY <1>7, <2>1 DEF Typed, SubmitForm, Click
<1>8. CASE Loaded
  <2>1. CASE Boot
    BY <1>8, <2>1, BootTyped DEF Typed, Loaded, Polled, Page
  <2>2. CASE key' = "none" /\ ShowLogin /\ UNCHANGED intervals
    BY <1>8, <2>2 DEF Typed, Loaded, ShowLogin
  <2> QED
    BY <1>8, <2>1, <2>2 DEF Loaded
<1>9. CASE LoggedIn
  <2>1. CASE Boot
    BY <1>9, <2>1, BootTyped DEF Typed, LoggedIn, Polled, Page
  <2>2. CASE gate' = "form" /\ UNCHANGED <<key, intervals, page, content, shown, want, pending>>
    BY <1>9, <2>2 DEF Typed, LoggedIn
  <2> QED
    BY <1>9, <2>1, <2>2 DEF LoggedIn
<1>10. CASE Tick
  BY <1>10, TickTyped DEF Typed, Polled
<1>11. ASSUME NEW g \in Get, Land(g) \/ Fail(g) PROVE Typed'
  BY <1>11, AnswerTyped DEF Typed
<1>12. ASSUME NEW s \in Submit, SubmitOk(s) PROVE Typed'
  <2>1. Refresh
    BY <1>12 DEF SubmitOk
  <2> QED
    BY <1>12, <2>1, RefreshTyped DEF Typed, SubmitOk, Polled
<1>13. ASSUME NEW s \in Submit, SubmitError(s) PROVE Typed'
  BY <1>13 DEF Typed, SubmitError
<1>14. CASE UNCHANGED vars
  BY <1>14 DEF Typed, vars
<1> QED
  BY <1>1, <1>2, <1>3, <1>4, <1>5, <1>6, <1>7, <1>8, <1>9, <1>10, <1>11, <1>12, <1>13, <1>14
  DEF Next, Operate

-----------------------------------------------------------------------------
(* A step that answers nothing of Owed and asks at most one request for a  *)
(* click stays within the budget, and so does one that asks it for an      *)
(* answered submit or sign-in.                                             *)
LEMMA OwedNat == Typed /\ Budget => Cardinality(posts) \in Nat /\ Owed \in Nat
<1>1. Typed /\ Budget => Cardinality(posts) \in Nat
  BY FS_CardinalityType DEF Budget
<1> QED
  BY <1>1 DEF Owed

LEMMA BudgetKept ==
  ASSUME Typed, Typed', Budget, IsFiniteSet(posts'),
         NEW paid \in Int, Owed' = Owed + paid,
         clicks' >= clicks + paid,
         \A g \in Get : pending'[g] + paid <= pending[g] + clicks' - clicks
  PROVE  Budget'
<1>1. Owed \in Nat
  BY OwedNat
<1>2. clicks \in Nat /\ clicks' \in Nat /\ MaxPending \in Nat
  BY DashboardAssumption DEF Typed
<1>3. \A g \in Get : pending[g] \in Nat /\ pending'[g] \in Nat
  BY DEF Typed
<1> QED
  BY <1>1, <1>2, <1>3 DEF Budget

LEMMA BudgetInit == Init => Budget
<1> SUFFICES ASSUME Init PROVE Budget
  OBVIOUS
<1>1. IsFiniteSet(posts) /\ Cardinality(posts) = 0
  BY FS_EmptySet DEF Init
<1> QED
  BY <1>1, DashboardAssumption DEF Init, Budget, Owed

(* The budget needs the count of submits in flight, action by action.      *)
LEMMA BudgetStep == Typed /\ Budget /\ [Next]_vars => Budget'
<1> SUFFICES ASSUME Typed, Budget, [Next]_vars PROVE Budget'
  OBVIOUS
<1> USE DEF session, modal
<1>a. Typed'
  BY TypeStep
<1>b. Cardinality(posts) \in Nat /\ Owed \in Nat /\ IsFiniteSet(posts)
  BY OwedNat DEF Budget
<1>c. clicks \in Nat /\ MaxPending \in Nat /\ \A g \in Get : pending[g] \in Nat
  BY DashboardAssumption DEF Typed
<1>d. ASSUME posts' = posts, gate' = gate PROVE Owed' = Owed /\ IsFiniteSet(posts')
  BY <1>b, <1>d DEF Owed
<1>e. \A s : s \in posts => /\ IsFiniteSet(posts \ {s})
                            /\ Cardinality(posts \ {s}) = Cardinality(posts) - 1
  BY <1>b, FS_RemoveElement, Zenon
<1>1. CASE Login
  <2>1. clicks' = clicks + 1 /\ pending' = pending /\ posts' = posts
    BY <1>1 DEF Login, Click
  <2>2. Owed' = Owed + 1
    BY <1>1, <1>b, <2>1 DEF Owed, Login
  <2> QED
    BY <1>a, <1>b, <1>c, <2>1, <2>2, BudgetKept
<1>2. CASE Logout
  <2>1. clicks' = clicks + 1 /\ pending' = pending /\ posts' = posts
    BY <1>2 DEF Logout, Click, ShowLogin
  <2>2. Owed' = Owed
    BY <1>2, <1>b, <2>1 DEF Owed, Logout, ShowLogin
  <2> QED
    BY <1>a, <1>b, <1>c, <2>1, <2>2, BudgetKept
<1>3. CASE OpenForm \/ CloseForm
  <2>1. clicks' = clicks + 1 /\ pending' = pending /\ posts' = posts /\ gate' = gate
    BY <1>3 DEF OpenForm, CloseForm, Click
  <2> QED
    BY <1>a, <1>c, <1>d, <2>1, <1>b, BudgetKept
<1>4. ASSUME Polled, Click, posts' = posts, gate' = gate PROVE Budget'
  <2>1. \A g \in Get : pending'[g] \in Nat
    BY <1>4 DEF Polled
  <2>2. \A g \in Get : pending'[g] + 0 <= pending[g] + clicks' - clicks
    BY <1>4, <1>c, <2>1 DEF Polled, Click
  <2>3. clicks' >= clicks + 0
    BY <1>4, <1>c DEF Click
  <2>4. Owed' = Owed + 0 /\ IsFiniteSet(posts')
    BY <1>4, <1>d, <1>b
  <2> QED
    BY <1>a, <2>2, <2>3, <2>4, BudgetKept
<1>5. ASSUME NEW p \in Page, Navigate(p) PROVE Budget'
  <2>1. Render(p) /\ Click /\ posts' = posts /\ gate' = gate
    BY <1>5 DEF Navigate
  <2> QED
    BY <1>4, <2>1, RenderTyped
<1>6. ASSUME NEW l \in Lists, Turn(l) \/ \E f \in Filters : Filter(l, f) PROVE Budget'
  BY <1>4, <1>6, ListTyped
<1>7. ASSUME NEW b \in Buttons, SubmitForm(b) PROVE Budget'
  <2>1. clicks' = clicks + 1 /\ pending' = pending /\ gate' = gate
        /\ posts' = posts \cup {<<form, b>>}
    BY <1>7 DEF SubmitForm, Click
  <2>2. /\ IsFiniteSet(posts')
        /\ \/ Cardinality(posts') = Cardinality(posts)
           \/ Cardinality(posts') = Cardinality(posts) + 1
    BY <1>b, <2>1, FS_AddElement, Zenon
  <2>3. PICK paid \in 0..1 : Cardinality(posts') = Cardinality(posts) + paid
    BY <1>b, <2>2
  <2>4. Owed' = Owed + paid
    BY <1>b, <2>1, <2>3 DEF Owed
  <2>5. clicks' >= clicks + paid
        /\ \A g \in Get : pending'[g] + paid <= pending[g] + clicks' - clicks
    BY <1>c, <2>1
  <2> QED
    BY <1>a, <2>2, <2>4, <2>5, BudgetKept
<1>8. CASE Loaded \/ LoggedIn
  <2>1. clicks' = clicks /\ posts' = posts
    BY <1>8 DEF Loaded, LoggedIn
  <2>2. gate \in {"loading", "checking"} /\ gate' \in {"form", "app"}
    BY <1>8 DEF Loaded, LoggedIn, Boot, ShowLogin
  <2>3. \A g \in Get : pending'[g] \in Nat /\ pending'[g] <= pending[g] + 1
    <3>1. CASE Boot
      BY <3>1, BootTyped DEF Polled
    <3>2. CASE pending' = pending
      BY <1>c, <3>2
    <3> QED
      BY <1>8, <3>1, <3>2 DEF Loaded, LoggedIn, ShowLogin
  <2>4. Owed' = Owed + (-1)
    BY <1>b, <2>1, <2>2 DEF Owed
  <2>5. \A g \in Get : pending'[g] + (-1) <= pending[g] + clicks' - clicks
    BY <1>c, <2>1, <2>3
  <2>6. clicks' >= clicks + (-1) /\ -1 \in Int
    BY <1>c, <2>1
  <2> QED
    BY <1>a, <1>b, <2>1, <2>4, <2>5, <2>6, BudgetKept
<1>9. CASE Tick
  <2>1. posts' = posts /\ gate' = gate /\ clicks' = clicks
    BY <1>9, TickTyped
  <2>2. Owed' = Owed /\ Owed <= clicks + 1 /\ IsFiniteSet(posts')
    BY <1>d, <2>1 DEF Budget
  <2>3. ASSUME NEW g \in Get PROVE pending'[g] + Owed <= MaxPending + clicks + 1
    <3>1. pending'[g] \in Nat /\ pending'[g] <= pending[g] + 1
      BY <1>9, TickTyped DEF Polled
    <3>2. CASE pending'[g] = pending[g]
      BY <3>2 DEF Budget
    <3>3. CASE pending[g] < MaxPending
      BY <1>b, <1>c, <2>2, <3>1, <3>3
    <3> QED
      BY <1>9, <3>2, <3>3, TickTyped
  <2> QED
    BY <2>1, <2>2, <2>3 DEF Budget
<1>10. ASSUME NEW g \in Get, Land(g) \/ Fail(g) PROVE Budget'
  <2>1. posts' = posts /\ gate' = gate /\ clicks' = clicks
    BY <1>10, AnswerTyped
  <2>2. \A h \in Get : pending'[h] \in Nat /\ pending'[h] <= pending[h]
    BY <1>10, AnswerTyped
  <2>3. \A h \in Get : pending'[h] + 0 <= pending[h] + clicks' - clicks
    BY <1>c, <2>1, <2>2
  <2>4. Owed' = Owed + 0 /\ IsFiniteSet(posts') /\ clicks' >= clicks + 0
    BY <1>b, <1>c, <1>d, <2>1
  <2> QED
    BY <1>a, <2>3, <2>4, BudgetKept
<1>11. ASSUME NEW s \in Submit, SubmitOk(s) PROVE Budget'
  <2>1. s \in posts /\ posts' = posts \ {s} /\ gate' = gate /\ clicks' = clicks
    BY <1>11 DEF SubmitOk
  <2>2. \A g \in Get : pending'[g] \in Nat /\ pending'[g] <= pending[g] + 1
    BY <1>11, RefreshTyped DEF SubmitOk, Polled
  <2>3. IsFiniteSet(posts') /\ Owed' = Owed + (-1)
    BY <1>b, <1>e, <2>1 DEF Owed
  <2>4. \A g \in Get : pending'[g] + (-1) <= pending[g] + clicks' - clicks
    BY <1>c, <2>1, <2>2
  <2>5. clicks' >= clicks + (-1) /\ -1 \in Int
    BY <1>c, <2>1
  <2> QED
    BY <1>a, <2>3, <2>4, <2>5, BudgetKept
<1>12. ASSUME NEW s \in Submit, SubmitError(s) PROVE Budget'
  <2>1. s \in posts /\ posts' = posts \ {s} /\ UNCHANGED <<gate, clicks, pending>>
    BY <1>12 DEF SubmitError
  <2>2. IsFiniteSet(posts') /\ Owed' = Owed + (-1)
    BY <1>b, <1>e, <2>1 DEF Owed
  <2>3. \A g \in Get : pending'[g] + (-1) <= pending[g] + clicks' - clicks
    BY <1>c, <2>1
  <2>4. clicks' >= clicks + (-1) /\ -1 \in Int
    BY <1>c, <2>1
  <2> QED
    BY <1>a, <2>2, <2>3, <2>4, BudgetKept
<1>13. CASE UNCHANGED vars
  BY <1>13 DEF Budget, Owed, vars
<1> QED
  BY <1>1, <1>2, <1>3, <1>5, <1>6, <1>7, <1>8, <1>9, <1>10, <1>11, <1>12, <1>13
  DEF Next, Operate

-----------------------------------------------------------------------------
(* Only the form's own actions reach the submits and the form.             *)
LEMMA HeldStep == Typed /\ SubmitsHeld /\ [Next]_vars => SubmitsHeld'
<1> SUFFICES ASSUME Typed, SubmitsHeld, [Next]_vars PROVE SubmitsHeld'
  OBVIOUS
<1> USE DEF SubmitsHeld
<1>1. CASE OpenForm
  BY <1>1 DEF OpenForm, Typed, Submit
<1>2. CASE CloseForm
  BY <1>2 DEF CloseForm
<1>3. ASSUME NEW b \in Buttons, SubmitForm(b) PROVE SubmitsHeld'
  BY <1>3 DEF SubmitForm, Typed
<1>4. ASSUME NEW s \in Submit, SubmitOk(s) PROVE SubmitsHeld'
  BY <1>4 DEF SubmitOk
<1>5. ASSUME NEW s \in Submit, SubmitError(s) PROVE SubmitsHeld'
  <2>1. ASSUME NEW t \in posts', t[1] = form PROVE t[2] \in busy'
    <3>1. t \in posts /\ t # s /\ t \in Submit /\ t[2] \in busy
      BY <1>5, <2>1 DEF SubmitError, Typed
    <3>2. s[1] = form => t[2] # s[2]
      BY <2>1, <3>1 DEF Submit
    <3> QED
      BY <1>5, <3>1, <3>2 DEF SubmitError
  <2> QED
    BY <1>5, <2>1 DEF SubmitError
<1>6. CASE UNCHANGED modal
  BY <1>6 DEF modal
<1>7. CASE \/ Login \/ Logout \/ \E p \in Page : Navigate(p)
           \/ Loaded \/ LoggedIn \/ Tick
           \/ \E g \in Get : Land(g) \/ Fail(g)
           \/ UNCHANGED vars
  BY <1>6, <1>7
  DEF Login, Logout, Navigate, Loaded, LoggedIn, Tick, Land, Fail, vars, modal
<1>8. ASSUME NEW l \in Lists, Turn(l) \/ \E f \in Filters : Filter(l, f)
      PROVE  SubmitsHeld'
  BY <1>6, <1>8, ListTyped
<1> QED
  BY <1>1, <1>2, <1>3, <1>4, <1>5, <1>7, <1>8 DEF Next, Operate

LEMMA ScreenStep == Typed /\ ScreenFits /\ [Next]_vars => ScreenFits'
<1> SUFFICES ASSUME Typed, ScreenFits, [Next]_vars PROVE ScreenFits'
  OBVIOUS
<1> USE DEF ScreenFits, session
<1>1. CASE Login \/ Logout
  BY <1>1 DEF Login, Logout, ShowLogin, Page
<1>2. CASE OpenForm \/ CloseForm
  BY <1>2 DEF OpenForm, CloseForm
<1>3. ASSUME NEW p \in Page, Navigate(p) PROVE ScreenFits'
  BY <1>3 DEF Navigate, Render
<1>4. ASSUME NEW l \in Lists, Turn(l) \/ \E f \in Filters : Filter(l, f)
      PROVE  ScreenFits'
  BY <1>4, ListTyped
<1>5. ASSUME NEW b \in Buttons, SubmitForm(b) PROVE ScreenFits'
  BY <1>5 DEF SubmitForm
<1>6. CASE Loaded
  <2>1. intervals > 0 => FALSE
    BY <1>6 DEF Loaded
  <2> QED
    BY <1>6, <2>1, BootTyped DEF Loaded, ShowLogin, Page
<1>7. CASE LoggedIn
  <2>1. intervals > 0 => FALSE
    BY <1>7 DEF LoggedIn
  <2> QED
    BY <1>7, <2>1, BootTyped DEF LoggedIn
<1>8. CASE Tick
  BY <1>8, TickTyped
<1>9. ASSUME NEW g \in Get, Land(g) \/ Fail(g) PROVE ScreenFits'
  BY <1>9, AnswerTyped
<1>10. ASSUME NEW s \in Submit, SubmitOk(s) PROVE ScreenFits'
  BY <1>10, RefreshTyped DEF SubmitOk
<1>11. ASSUME NEW s \in Submit, SubmitError(s) PROVE ScreenFits'
  BY <1>11 DEF SubmitError
<1>12. CASE UNCHANGED vars
  BY <1>12 DEF vars
<1> QED
  BY <1>1, <1>2, <1>3, <1>4, <1>5, <1>6, <1>7, <1>8, <1>9, <1>10, <1>11, <1>12
  DEF Next, Operate

-----------------------------------------------------------------------------
LEMMA InvInit == Init => Inv
<1> SUFFICES ASSUME Init PROVE SubmitsHeld /\ ScreenFits
  BY TypeInit, BudgetInit DEF Inv
<1> QED
  BY DEF Init, SubmitsHeld, ScreenFits, Page

LEMMA InvStep == Inv /\ [Next]_vars => Inv'
BY TypeStep, BudgetStep, HeldStep, ScreenStep DEF Inv

LEMMA InvAlways == Spec => []Inv
BY InvInit, InvStep, PTL DEF Spec

(* Type correctness; the bound on the requests in flight is the budget.    *)
THEOREM TypeCorrect == Spec => []TypeOK
<1>1. ASSUME Inv PROVE TypeOK
  <2>1. Owed \in Nat
    BY <1>1, OwedNat DEF Inv
  <2>2. MaxPending \in Nat /\ MaxClicks \in Nat /\ clicks \in 0..MaxClicks
    BY <1>1, DashboardAssumption DEF Inv, Typed
  <2>3. \A g \in Get : pending[g] \in 0..(MaxPending + MaxClicks + 1)
    BY <1>1, <2>1, <2>2 DEF Inv, Typed, Budget
  <2>4. pending \in [Get -> 0..(MaxPending + MaxClicks + 1)]
    BY <1>1, <2>3 DEF Inv, Typed
  <2>5. form \in 0..MaxClicks
    BY <1>1, <2>2 DEF Inv, Typed
  <2> QED
    BY <1>1, <2>4, <2>5 DEF Inv, Typed, TypeOK
<1> QED
  BY <1>1, InvAlways, PTL

(* The screen fits the session: the highlighted entry is the page shown,   *)
(* and nothing polls for who signed out, whatever answers come back late.  *)
THEOREM ScreenCorrect == Spec => []ScreenFits
<1>1. Inv => ScreenFits
  BY DEF Inv
<1> QED
  BY <1>1, InvAlways, PTL

(* A button of a form submits again only after an error: not while its     *)
(* submit is under way, and not after one that succeeded.                  *)
THEOREM SubmitsOnceEach == Spec => SubmitsOnce
<1>1. ASSUME Inv, NEW b \in Buttons, SubmitForm(b)
      PROVE  <<form, b>> \notin posts \cup succeeded
  <2>1. open /\ b \notin busy
    BY <1>1 DEF SubmitForm
  <2> QED
    BY <1>1, <2>1 DEF Inv, SubmitsHeld
<1>2. Inv /\ [Next]_vars =>
        [\A b \in Buttons : SubmitForm(b) => <<form, b>> \notin posts \cup succeeded]_vars
  BY <1>1
<1> QED
  BY <1>2, InvAlways, PTL DEF Spec, SubmitsOnce

=============================================================================
