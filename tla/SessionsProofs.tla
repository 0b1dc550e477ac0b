--------------------------- MODULE SessionsProofs ---------------------------
(***************************************************************************)
(* Type correctness of Sessions and its three invariants, for any tabs,    *)
(* tokens and bounds.  The argument turns on the heirs: a refresh token    *)
(* that is on its way to the browser in the answer to a rotation is known  *)
(* to nobody else, so nothing can have used it when the answer arrives.    *)
(***************************************************************************)
EXTENDS Sessions, TLAPS

Slots == Tabs \X Places
Messages ==
  [kind : {"none", "refresh", "logout"},
   step : {"none", "sent", "verified", "rotated", "refused", "cleared"},
   token : 0..MaxTokens, heir : 0..MaxTokens, again : BOOLEAN]
TabStates == [page : Pages, access : BOOLEAN,
              booted : BOOLEAN, want : SUBSET {"boot", "call", "logout"}]

\* What a request in slot `x` may look like.
Sound(x, c) ==
  /\ c \in Messages
  /\ c.kind = "none" => c.step = "none" /\ c.token = 0
  /\ c.step \in {"verified", "rotated"} => c.kind = "refresh" /\ c.token # 0
  /\ c.step = "rotated" <=> c.heir # 0
  /\ x[2] = "refresh" => c.kind # "logout"
  /\ x[2] = "logout" => c.kind # "refresh"
  /\ x[2] = "stray" => c.step # "rotated"

TokensInv ==
  /\ fate \in [Tokens -> Fates]
  /\ cookie \in 0..MaxTokens
  /\ cookie # 0 => fate[cookie] # "unmade"
  /\ lost \subseteq Tokens

CallsInv ==
  /\ call \in [Slots -> Messages]
  /\ \A x \in Slots : Sound(x, call[x])
  /\ \A x \in Slots : call[x].token # 0 => fate[call[x].token] # "unmade"

\* An heir is with one answer only: no cookie, no other request has it.
HeirsInv ==
  \A x \in Slots : call[x].heir # 0 =>
    /\ fate[call[x].heir] \in {"valid", "over"}
    /\ call[x].heir # cookie
    /\ \A y \in Slots : /\ call[y].token # call[x].heir
                        /\ y # x => call[y].heir # call[x].heir

TabsInv ==
  /\ tab \in [Tabs -> TabStates]
  /\ \A t \in Tabs : tab[t].want # {} => Refresh(t).kind = "refresh"
  /\ AppPagesAreSignedIn

EndInv ==
  /\ out \in {"no", "yes", "ended"}
  /\ out = "ended" => cookie = 0 /\ \A t \in Tabs : Refresh(t).token = 0

MiscInv == hint \in BOOLEAN /\ events \in 0..MaxEvents

SessionsInv ==
  /\ TokensInv /\ CallsInv /\ HeirsInv /\ TabsInv /\ EndInv /\ MiscInv
  /\ CookieExplained

\* A request that a step puts into slot `x`: no rotated one, with a token the
\* browser holds after the step or a request held before it.
Tame(x, c) ==
  /\ Sound(x, c)
  /\ c.heir = 0
  /\ c.token \in {0, cookie'} \cup {call[y].token : y \in Slots}
-----------------------------------------------------------------------------
\* The invariant is what it has to be.
LEMMA InvImplies ==
  ASSUME SessionsInv
  PROVE  SessionsTypeOK /\ AnsweredLogoutEnds
<1>1. cookie \in {0} \cup {k \in Tokens : fate[k] # "unmade"}
  BY SessionBoundsAssumption DEF SessionsInv, TokensInv, Tokens
<1>2. \A x \in Tabs \X Places : call[x].step = "rotated" <=> call[x].heir # 0
  BY DEF SessionsInv, CallsInv, Slots, Sound
<1>3. SessionsTypeOK
  BY <1>1, <1>2 DEF SessionsInv, TokensInv, CallsInv, TabsInv, EndInv, MiscInv,
     SessionsTypeOK, Slots, Messages, TabStates, Refresh
<1>4. ASSUME NEW t \in Tabs, Refresh(t).token = 0
      PROVE  Refresh(t).step \notin {"verified", "rotated"}
  <2>1. <<t, "refresh">> \in Slots
    BY DEF Slots, Places
  <2>2. QED
    BY <1>4, <2>1 DEF SessionsInv, CallsInv, Sound, Refresh
<1>5. AnsweredLogoutEnds
  BY <1>4 DEF SessionsInv, EndInv, AnsweredLogoutEnds
<1>6. QED
  BY <1>3, <1>5

\* An empty slot.
LEMMA IdleIsSound ==
  \A x \in Slots : /\ Sound(x, Idle) /\ Idle.heir = 0 /\ Idle.token = 0
                   /\ Idle.kind = "none" /\ Idle.step = "none"
<1> USE SessionBoundsAssumption
<1>1. Idle \in Messages
  BY DEF Idle, Message, Messages
<1>2. QED
  BY <1>1 DEF Sound, Idle, Message

\* A refresh the browser sends.
LEMMA RefreshSent ==
  ASSUME NEW t \in Tabs, NEW k \in 0..MaxTokens, NEW again \in BOOLEAN
  PROVE  /\ Sound(<<t, "refresh">>, Sent("refresh", k, again))
         /\ Sent("refresh", k, again).heir = 0
         /\ Sent("refresh", k, again).token = k
         /\ Sent("refresh", k, again).kind = "refresh"
         /\ Sent("refresh", k, again).step = "sent"
<1> USE SessionBoundsAssumption
<1>1. Sent("refresh", k, again) \in Messages
  BY DEF Sent, Message, Messages
<1>2. <<t, "refresh">>[2] = "refresh"
  OBVIOUS
<1>3. QED
  BY <1>1, <1>2 DEF Sound, Sent, Message

\* A logout the browser sends.
LEMMA LogoutSent ==
  ASSUME NEW t \in Tabs, NEW k \in 0..MaxTokens, NEW again \in BOOLEAN
  PROVE  /\ Sound(<<t, "logout">>, Sent("logout", k, again))
         /\ Sent("logout", k, again).heir = 0
         /\ Sent("logout", k, again).token = k
         /\ Sent("logout", k, again).kind = "logout"
         /\ Sent("logout", k, again).step = "sent"
<1> USE SessionBoundsAssumption
<1>1. Sent("logout", k, again) \in Messages
  BY DEF Sent, Message, Messages
<1>2. <<t, "logout">>[2] = "logout"
  OBVIOUS
<1>3. QED
  BY <1>1, <1>2 DEF Sound, Sent, Message

\* The slots of a tab.
LEMMA SlotsOfTabs ==
  /\ \A t \in Tabs : /\ <<t, "refresh">> \in Slots /\ <<t, "logout">> \in Slots
                     /\ <<t, "stray">> \in Slots
  /\ \A x \in Slots : \E t \in Tabs, p \in Places : x = <<t, p>> /\ x[2] = p
BY DEF Slots, Places

\* A stray carries the token of a request there was.
LEMMA StraysAreTame ==
  ASSUME CallsInv, HeirsInv, NEW t \in Tabs, NEW x \in Slots,
         NEW s \in Strays(t, call[x])
  PROVE  s = call[<<t, "stray">>] \/ Tame(<<t, "stray">>, s)
<1>1. CASE s = call[<<t, "stray">>]
  BY <1>1
<1>2. CASE call[x].step \in {"sent", "verified"} /\ s = [call[x] EXCEPT !.again = FALSE]
  <2>1. PICK c \in Messages : c = call[x]
    BY DEF CallsInv
  <2>2. s = [c EXCEPT !.again = FALSE]
    BY <1>2, <2>1
  <2>3. /\ s \in Messages /\ s.kind = c.kind /\ s.step = c.step /\ s.token = c.token
        /\ s.heir = c.heir
    BY <2>2 DEF Messages
  <2>4. Sound(x, c)
    BY <2>1 DEF CallsInv
  <2>5. <<t, "stray">> [2] = "stray"
    OBVIOUS
  <2>6. Sound(<<t, "stray">>, s) /\ s.heir = 0
    BY <1>2, <2>1, <2>3, <2>4, <2>5 DEF Sound
  <2>7. s.token \in {call[y].token : y \in Slots}
    BY <2>1, <2>3
  <2>8. QED
    BY <2>6, <2>7 DEF Tame
<1>3. QED
  BY <1>1, <1>2 DEF Strays
-----------------------------------------------------------------------------
\* A step that sends only tame requests and gives no heir away keeps what is
\* known of requests and heirs.
LEMMA RequestsKept ==
  ASSUME TokensInv, CallsInv, HeirsInv, TokensInv',
         call' \in [Slots -> Messages],
         \A x \in Slots : call'[x] = call[x] \/ Tame(x, call'[x]),
         \A k \in Tokens : fate[k] # "unmade" => fate'[k] # "unmade",
         \A x \in Slots : call[x].heir # 0 => fate'[call[x].heir] \in {"valid", "over"},
         \A x \in Slots : call'[x].heir # 0 => call'[x].heir # cookie'
  PROVE  CallsInv' /\ HeirsInv'
<1> USE SessionBoundsAssumption
<1>1. \A x \in Slots : Sound(x, call'[x])
  BY DEF CallsInv, Tame
<1>2. \A x \in Slots : call[x].token \in 0..MaxTokens /\ call'[x].token \in 0..MaxTokens
  BY DEF CallsInv, Messages
<1>3. \A x \in Slots : call'[x].token \in {0, cookie'} \cup {call[y].token : y \in Slots}
  BY DEF Tame
<1>4. ASSUME NEW x \in Slots, call'[x].token # 0
      PROVE  fate'[call'[x].token] # "unmade"
  <2>1. CASE call'[x].token = cookie'
    BY <1>4, <2>1 DEF TokensInv
  <2>2. CASE \E y \in Slots : call'[x].token = call[y].token
    BY <1>2, <1>4, <2>2 DEF CallsInv, Tokens
  <2>3. QED
    BY <1>3, <1>4, <2>1, <2>2
<1>5. \A x \in Slots : call'[x].heir # 0 => call'[x] = call[x]
  BY DEF Tame
<1>6. ASSUME NEW x \in Slots, call'[x].heir # 0
      PROVE  /\ fate'[call'[x].heir] \in {"valid", "over"}
             /\ call'[x].heir # cookie'
             /\ \A y \in Slots : /\ call'[y].token # call'[x].heir
                                 /\ y # x => call'[y].heir # call'[x].heir
  <2>1. call'[x] = call[x]
    BY <1>5, <1>6
  <2>2. \A y \in Slots : call'[y].token # call'[x].heir
    BY <1>3, <1>6, <2>1 DEF HeirsInv
  <2>3. ASSUME NEW y \in Slots, y # x PROVE call'[y].heir # call'[x].heir
    <3>1. CASE call'[y].heir = 0
      BY <1>6, <3>1
    <3>2. CASE call'[y].heir # 0
      BY <1>5, <1>6, <2>1, <2>3, <3>2 DEF HeirsInv
    <3>3. QED
      BY <3>1, <3>2
  <2>4. QED
    BY <1>6, <2>1, <2>2, <2>3
<1>7. CallsInv'
  BY <1>1, <1>4 DEF CallsInv
<1>8. QED
  BY <1>6, <1>7 DEF HeirsInv

\* Fates stay as they are.
LEMMA FatesStay ==
  ASSUME CallsInv, HeirsInv, UNCHANGED fate
  PROVE  /\ \A k \in Tokens : fate[k] # "unmade" => fate'[k] # "unmade"
         /\ \A x \in Slots : call[x].heir # 0 => fate'[call[x].heir] \in {"valid", "over"}
BY DEF HeirsInv

\* A rotated cookie stays explained while its answer is on its way or is
\* counted as lost.
LEMMA ExplanationKept ==
  ASSUME CookieExplained, lost \subseteq lost',
         cookie' # 0 /\ fate'[cookie'] = "rotated" =>
           cookie' = cookie /\ fate[cookie] = "rotated",
         \A t \in Tabs : Refresh(t).step = "rotated" =>
           Refresh(t)' = Refresh(t) \/ Refresh(t).token \in lost'
  PROVE  CookieExplained'
<1>1. SUFFICES ASSUME cookie' # 0, fate'[cookie'] = "rotated"
               PROVE  \/ cookie' \in lost'
                      \/ \E t \in Tabs : Refresh(t)'.step = "rotated"
                                         /\ Refresh(t)'.token = cookie'
  BY DEF CookieExplained
<1>2. cookie' = cookie /\ cookie # 0 /\ fate[cookie] = "rotated"
  BY <1>1
<1>3. CASE cookie \in lost
  BY <1>2, <1>3
<1>4. ASSUME NEW t \in Tabs, Refresh(t).step = "rotated", Refresh(t).token = cookie
      PROVE  \/ cookie' \in lost'
             \/ \E u \in Tabs : Refresh(u)'.step = "rotated"
                                /\ Refresh(u)'.token = cookie'
  BY <1>2, <1>4
<1>5. QED
  BY <1>2, <1>3, <1>4 DEF CookieExplained

\* One slot of the requests changes.
LEMMA OneRequest ==
  ASSUME CallsInv, HeirsInv, NEW x \in Slots, NEW d \in Messages, Tame(x, d),
         call' = [call EXCEPT ![x] = d]
  PROVE  /\ call' \in [Slots -> Messages]
         /\ \A y \in Slots : call'[y] = call[y] \/ Tame(y, call'[y])
         /\ call'[x] = d
         /\ \A y \in Slots : y # x => call'[y] = call[y]
BY DEF CallsInv

\* A page load.
LEMMA Loaded ==
  ASSUME SessionsInv, NEW t \in Tabs, NEW page \in Pages, NEW h \in BOOLEAN,
         Load(t, page, cookie', h), cookie' \in 0..MaxTokens
  PROVE  /\ call' \in [Slots -> Messages]
         /\ \A x \in Slots : call'[x] = call[x] \/ Tame(x, call'[x])
         /\ \A u \in Tabs : u # t => Refresh(u)' = Refresh(u)
         /\ Refresh(t)'.token \in {0, cookie'}
         /\ TabsInv'
<1> USE SessionBoundsAssumption
<1>1. PICK s \in Strays(t, Refresh(t)) \cup Strays(t, Logout(t)) :
        call' = [call EXCEPT
          ![<<t, "refresh">>] =
            IF Boots(page, h) THEN Sent("refresh", cookie', FALSE) ELSE Idle,
          ![<<t, "logout">>] = Idle,
          ![<<t, "stray">>] = s]
  BY DEF Load
<1> DEFINE r == IF Boots(page, h) THEN Sent("refresh", cookie', FALSE) ELSE Idle
<1>2. /\ <<t, "refresh">> \in Slots /\ <<t, "logout">> \in Slots /\ <<t, "stray">> \in Slots
      /\ <<t, "refresh">>[2] = "refresh"
  BY SlotsOfTabs
<1>3. CallsInv /\ HeirsInv /\ TokensInv
  BY DEF SessionsInv
<1>4. s = call[<<t, "stray">>] \/ Tame(<<t, "stray">>, s)
  BY <1>2, <1>3, StraysAreTame DEF Refresh, Logout
<1>5. /\ Sound(<<t, "refresh">>, r) /\ r.heir = 0 /\ r.token \in {0, cookie'}
      /\ Boots(page, h) => r.kind = "refresh"
  <2>0. /\ Sound(<<t, "refresh">>, Sent("refresh", cookie', FALSE))
        /\ Sent("refresh", cookie', FALSE).heir = 0
        /\ Sent("refresh", cookie', FALSE).token = cookie'
        /\ Sent("refresh", cookie', FALSE).kind = "refresh"
    <3> HIDE DEF r
    <3>1. PICK k \in 0..MaxTokens : k = cookie'
      OBVIOUS
    <3>2. PICK again \in BOOLEAN : again = FALSE
      OBVIOUS
    <3>3. /\ Sound(<<t, "refresh">>, Sent("refresh", k, again))
          /\ Sent("refresh", k, again).heir = 0
          /\ Sent("refresh", k, again).token = k
          /\ Sent("refresh", k, again).kind = "refresh"
      BY RefreshSent
    <3>4. QED
      BY <3>1, <3>2, <3>3
  <2>1. CASE Boots(page, h)
    BY <2>0, <2>1
  <2>2. CASE ~Boots(page, h)
    BY <1>2, <2>2, IdleIsSound
  <2>3. QED
    BY <2>1, <2>2
<1>6. Tame(<<t, "refresh">>, r)
  BY <1>5 DEF Tame
<1>7. Tame(<<t, "logout">>, Idle)
  BY <1>2, IdleIsSound DEF Tame
<1>8. s \in Messages /\ r \in Messages /\ Idle \in Messages
  BY <1>2, <1>3, <1>4, <1>6, <1>7 DEF Tame, Sound, CallsInv
<1> HIDE DEF r
<1>9. /\ call' \in [Slots -> Messages]
      /\ call'[<<t, "refresh">>] = r
      /\ call'[<<t, "logout">>] = Idle
      /\ call'[<<t, "stray">>] = s
      /\ \A x \in Slots : x \notin {<<t, "refresh">>, <<t, "logout">>, <<t, "stray">>} =>
           call'[x] = call[x]
  BY <1>1, <1>2, <1>3, <1>8 DEF CallsInv, r
<1>10. \A x \in Slots : call'[x] = call[x] \/ Tame(x, call'[x])
  BY <1>4, <1>6, <1>7, <1>9
<1>11. \A u \in Tabs : u # t => Refresh(u)' = Refresh(u)
  <2>1. SUFFICES ASSUME NEW u \in Tabs, u # t
                 PROVE  call'[<<u, "refresh">>] = call[<<u, "refresh">>]
    BY DEF Refresh
  <2>2. <<u, "refresh">> \in Slots
    BY SlotsOfTabs
  <2>3. QED
    BY <1>9, <2>1, <2>2
<1>12. Refresh(t)' = r
  BY <1>9 DEF Refresh
<1>13. PICK b \in BOOLEAN : b = Boots(page, h)
  BY DEF Boots
<1> DEFINE shown == Shows(page, FALSE, b, IF b THEN {"boot"} ELSE {})
<1>14. shown \in TabStates
  BY DEF Shows, TabStates
<1>15. /\ shown.want # {} => Boots(page, h)
       /\ shown.page = "app" => shown.access \/ shown.want # {}
  BY <1>13 DEF Shows, Boots
<1>16. tab' = [tab EXCEPT ![t] = shown]
  BY <1>13 DEF Load
<1> HIDE DEF shown
<1>17. tab' \in [Tabs -> TabStates]
  BY <1>14, <1>16 DEF SessionsInv, TabsInv
<1>18. \A u \in Tabs : tab'[u].want # {} => Refresh(u)'.kind = "refresh"
  BY <1>5, <1>11, <1>12, <1>15, <1>16 DEF SessionsInv, TabsInv
<1>19. \A u \in Tabs : tab'[u].page = "app" => tab'[u].access \/ tab'[u].want # {}
  BY <1>15, <1>16 DEF SessionsInv, TabsInv, AppPagesAreSignedIn
<1>20. TabsInv'
  BY <1>17, <1>18, <1>19 DEF TabsInv, AppPagesAreSignedIn
<1>21. QED
  BY <1>5, <1>9, <1>10, <1>11, <1>12, <1>20

\* A refresh ends without a new session.
LEMMA GivenUp ==
  ASSUME SessionsInv, NEW t \in Tabs, GiveUp(t), UNCHANGED cookie
  PROVE  /\ call' \in [Slots -> Messages]
         /\ \A x \in Slots : call'[x] = call[x] \/ Tame(x, call'[x])
         /\ \A u \in Tabs : u # t => Refresh(u)' = Refresh(u)
         /\ Refresh(t)'.token \in {0, cookie'}
         /\ TabsInv'
         /\ out' \in {out, "yes"}
<1> USE SessionBoundsAssumption
<1>1. CASE /\ tab' = [tab EXCEPT ![t] =
                Shows(IF @.page = "app" THEN "login" ELSE @.page, FALSE, @.booted, {})]
           /\ call' = [call EXCEPT ![<<t, "refresh">>] = Idle]
           /\ UNCHANGED out
  <2>1. <<t, "refresh">> \in Slots /\ Tame(<<t, "refresh">>, Idle)
    BY SlotsOfTabs, IdleIsSound DEF Tame
  <2>2. Idle \in Messages /\ CallsInv /\ HeirsInv /\ tab \in [Tabs -> TabStates]
    BY <2>1 DEF Tame, Sound, SessionsInv, TabsInv
  <2>3. /\ call' \in [Slots -> Messages]
        /\ \A y \in Slots : call'[y] = call[y] \/ Tame(y, call'[y])
        /\ call'[<<t, "refresh">>] = Idle
        /\ \A y \in Slots : y # <<t, "refresh">> => call'[y] = call[y]
    BY <1>1, <2>1, <2>2, OneRequest
  <2>4. \A u \in Tabs : u # t => Refresh(u)' = Refresh(u)
    <3>1. SUFFICES ASSUME NEW u \in Tabs, u # t
                   PROVE  call'[<<u, "refresh">>] = call[<<u, "refresh">>]
      BY DEF Refresh
    <3>2. <<u, "refresh">> \in Slots
      BY SlotsOfTabs
    <3>3. QED
      BY <2>3, <3>1, <3>2
  <2>5. Refresh(t)'.token = 0
    BY <2>1, <2>3, IdleIsSound DEF Refresh
  <2> DEFINE shown == Shows(IF tab[t].page = "app" THEN "login" ELSE tab[t].page,
                            FALSE, tab[t].booted, {})
  <2>6. shown \in TabStates /\ shown.want = {} /\ shown.page # "app"
    BY <2>2 DEF Shows, TabStates, Pages
  <2>7. tab' = [tab EXCEPT ![t] = shown]
    BY <1>1, <2>2
  <2> HIDE DEF shown
  <2>8. TabsInv'
    BY <2>2, <2>4, <2>6, <2>7 DEF SessionsInv, TabsInv, AppPagesAreSignedIn
  <2>9. QED
    BY <1>1, <2>3, <2>4, <2>5, <2>8
<1>2. CASE Load(t, "login", cookie, FALSE) /\ out' \in {out, "yes"}
  <2>1. "login" \in Pages /\ FALSE \in BOOLEAN /\ cookie' \in 0..MaxTokens
    BY DEF Pages, SessionsInv, TokensInv
  <2>2. Load(t, "login", cookie', FALSE)
    BY <1>2
  <2>3. QED
    BY <1>2, <2>1, <2>2, Loaded
<1>3. QED
  BY <1>1, <1>2 DEF GiveUp
-----------------------------------------------------------------------------
\* A step of the browser that leaves the tokens and the cookie alone.
LEMMA QuietStep ==
  ASSUME SessionsInv, UNCHANGED <<fate, cookie>>,
         call' \in [Slots -> Messages],
         \A x \in Slots : call'[x] = call[x] \/ Tame(x, call'[x]),
         lost \subseteq lost', lost' \subseteq Tokens,
         \A t \in Tabs : Refresh(t).step = "rotated" =>
           Refresh(t)' = Refresh(t) \/ Refresh(t).token \in lost',
         \A t \in Tabs : Refresh(t)'.token \in {0, cookie', Refresh(t).token},
         out' \in {out, "yes"}, TabsInv', MiscInv'
  PROVE  SessionsInv'
<1>1. TokensInv /\ CallsInv /\ HeirsInv /\ EndInv /\ CookieExplained
  BY DEF SessionsInv
<1>2. TokensInv'
  BY <1>1 DEF TokensInv
<1>3. /\ \A k \in Tokens : fate[k] # "unmade" => fate'[k] # "unmade"
      /\ \A x \in Slots : call[x].heir # 0 => fate'[call[x].heir] \in {"valid", "over"}
  BY <1>1, FatesStay
<1>4. \A x \in Slots : call'[x].heir # 0 => call'[x].heir # cookie'
  BY <1>1 DEF Tame, HeirsInv
<1>5. CallsInv' /\ HeirsInv'
  BY <1>1, <1>2, <1>3, <1>4, RequestsKept
<1>6. CookieExplained'
  BY <1>1, ExplanationKept
<1>7. EndInv'
  BY <1>1 DEF EndInv
<1>8. QED
  BY <1>2, <1>5, <1>6, <1>7 DEF SessionsInv

\* A bounded event.
LEMMA EventCounts ==
  ASSUME events \in 0..MaxEvents, Event
  PROVE  events' \in 0..MaxEvents
BY SessionBoundsAssumption DEF Event

\* What a request held when its tab gave it up.
LEMMA LostAreTokens ==
  ASSUME SessionsInv, NEW t \in Tabs
  PROVE  /\ LostWith(Refresh(t)) \subseteq Tokens
         /\ Refresh(t).step = "rotated" => Refresh(t).token \in LostWith(Refresh(t))
<1>1. PICK c \in Messages : c = Refresh(t) /\ Sound(<<t, "refresh">>, c)
  BY SlotsOfTabs DEF SessionsInv, CallsInv, Refresh
<1>2. c.token # 0 => c.token \in Tokens
  BY <1>1, SessionBoundsAssumption DEF Messages, Tokens
<1>3. QED
  BY <1>1, <1>2 DEF LostWith, Sound

\* Opening and reloading pages.
LEMMA OpenKeeps ==
  ASSUME SessionsInv, NEW t \in Tabs, NEW page \in Pages, Open(t, page)
  PROVE  SessionsInv'
<1>1. /\ Event /\ Load(t, page, cookie', hint) /\ UNCHANGED <<fate, cookie, hint, out>>
      /\ lost' = lost \cup LostWith(Refresh(t))
  BY DEF Open
<1>2. hint \in BOOLEAN /\ cookie' \in 0..MaxTokens /\ events \in 0..MaxEvents
      /\ lost \subseteq Tokens
  BY <1>1 DEF SessionsInv, MiscInv, TokensInv
<1>3. /\ call' \in [Slots -> Messages]
      /\ \A x \in Slots : call'[x] = call[x] \/ Tame(x, call'[x])
      /\ \A u \in Tabs : u # t => Refresh(u)' = Refresh(u)
      /\ Refresh(t)'.token \in {0, cookie'}
      /\ TabsInv'
  BY <1>1, <1>2, Loaded
<1>4. lost \subseteq lost' /\ lost' \subseteq Tokens
  BY <1>1, <1>2, LostAreTokens
<1>5. \A u \in Tabs : Refresh(u).step = "rotated" =>
        Refresh(u)' = Refresh(u) \/ Refresh(u).token \in lost'
  BY <1>1, <1>3, LostAreTokens
<1>6. \A u \in Tabs : Refresh(u)'.token \in {0, cookie', Refresh(u).token}
  BY <1>3
<1>7. MiscInv'
  BY <1>1, <1>2, EventCounts DEF MiscInv
<1>8. QED
  BY <1>1, <1>3, <1>4, <1>5, <1>6, <1>7, QuietStep

\* A tab that sends a refresh, or joins the one under way.
LEMMA JoinedKeeps ==
  ASSUME SessionsInv, NEW t \in Tabs,
         call' = [call EXCEPT ![<<t, "refresh">>] = Joined(t)], UNCHANGED cookie
  PROVE  /\ call' \in [Slots -> Messages]
         /\ \A x \in Slots : call'[x] = call[x] \/ Tame(x, call'[x])
         /\ \A u \in Tabs : Refresh(u).step = "rotated" => Refresh(u)' = Refresh(u)
         /\ \A u \in Tabs : Refresh(u)'.token \in {0, cookie, Refresh(u).token}
         /\ \A u \in Tabs : u # t => Refresh(u)' = Refresh(u)
         /\ Refresh(t)'.kind = "refresh"
<1> USE SlotsOfTabs
<1>1. PICK c \in Messages : c = Refresh(t) /\ Sound(<<t, "refresh">>, c)
  BY DEF SessionsInv, CallsInv, Refresh
<1>2. call \in [Slots -> Messages]
  BY DEF SessionsInv, CallsInv
<1>3. PICK k \in 0..MaxTokens, no \in BOOLEAN : k = cookie /\ no = FALSE
  BY DEF SessionsInv, TokensInv
<1>4. /\ Sound(<<t, "refresh">>, Sent("refresh", k, no))
      /\ Sent("refresh", k, no).heir = 0
      /\ Sent("refresh", k, no).token = k
      /\ Sent("refresh", k, no).kind = "refresh"
  BY RefreshSent
<1>5. Joined(t) \in Messages
  BY <1>1, <1>3, <1>4 DEF Joined, Sound
<1>6. Joined(t).kind = "refresh" /\ (c.step = "rotated" => Joined(t) = c)
  BY <1>1, <1>3, <1>4 DEF Joined, Sound, Messages
<1>7. Joined(t).token \in {0, cookie, Refresh(t).token}
  BY <1>1, <1>3, <1>4 DEF Joined
<1>8. /\ call' \in [Slots -> Messages]
      /\ call'[<<t, "refresh">>] = Joined(t)
      /\ \A x \in Slots : x # <<t, "refresh">> => call'[x] = call[x]
  BY <1>2, <1>5
<1>9. Refresh(t)' = Joined(t)
  BY <1>8 DEF Refresh
<1>10. \A u \in Tabs : u # t => Refresh(u)' = Refresh(u)
  <2>1. SUFFICES ASSUME NEW u \in Tabs, u # t
                 PROVE  call'[<<u, "refresh">>] = call[<<u, "refresh">>]
    BY DEF Refresh
  <2>2. QED
    BY <1>8, <2>1
<1>11. Joined(t) = call[<<t, "refresh">>] \/ Tame(<<t, "refresh">>, Joined(t))
  BY <1>1, <1>3, <1>4 DEF Joined, Tame, Refresh
<1>12. \A x \in Slots : call'[x] = call[x] \/ Tame(x, call'[x])
  BY <1>8, <1>11
<1>13. \A u \in Tabs : Refresh(u).step = "rotated" => Refresh(u)' = Refresh(u)
  BY <1>1, <1>6, <1>9, <1>10
<1>14. \A u \in Tabs : Refresh(u)'.token \in {0, cookie, Refresh(u).token}
  BY <1>7, <1>9, <1>10
<1>15. QED
  BY <1>6, <1>8, <1>9, <1>10, <1>12, <1>13, <1>14

\* A tab waits for a refresh, and shows what it showed or a dashboard page.
LEMMA JoiningKeeps ==
  ASSUME SessionsInv, NEW t \in Tabs, NEW shown \in TabStates, Event,
         call' = [call EXCEPT ![<<t, "refresh">>] = Joined(t)],
         tab' = [tab EXCEPT ![t] = shown],
         shown.page = "app" => shown.access \/ shown.want # {},
         UNCHANGED <<fate, cookie, hint, lost, out>>
  PROVE  SessionsInv'
<1>1. /\ call' \in [Slots -> Messages]
      /\ \A x \in Slots : call'[x] = call[x] \/ Tame(x, call'[x])
      /\ \A u \in Tabs : Refresh(u).step = "rotated" => Refresh(u)' = Refresh(u)
      /\ \A u \in Tabs : Refresh(u)'.token \in {0, cookie, Refresh(u).token}
      /\ \A u \in Tabs : u # t => Refresh(u)' = Refresh(u)
      /\ Refresh(t)'.kind = "refresh"
  BY JoinedKeeps
<1>2. TabsInv'
  BY <1>1 DEF SessionsInv, TabsInv, AppPagesAreSignedIn
<1>3. MiscInv'
  BY EventCounts DEF SessionsInv, MiscInv
<1>4. lost' = lost /\ lost' \subseteq Tokens
  BY DEF SessionsInv, TokensInv
<1>5. \A u \in Tabs : Refresh(u).step = "rotated" =>
        Refresh(u)' = Refresh(u) \/ Refresh(u).token \in lost'
  BY <1>1
<1>6. \A u \in Tabs : Refresh(u)'.token \in {0, cookie', Refresh(u).token}
  BY <1>1
<1>7. QED
  BY <1>1, <1>2, <1>3, <1>4, <1>5, <1>6, QuietStep

LEMMA WaitKeeps ==
  ASSUME SessionsInv, NEW t \in Tabs, NEW what \in {"call", "logout"}, Event, Wait(t, what)
  PROVE  SessionsInv'
<1>1. PICK old \in TabStates : old = tab[t] /\ (old.page = "app" => old.access \/ old.want # {})
  BY DEF SessionsInv, TabsInv, AppPagesAreSignedIn
<1> DEFINE shown == [old EXCEPT !.want = @ \cup {what}]
<1>2. shown \in TabStates /\ (shown.page = "app" => shown.access \/ shown.want # {})
  BY <1>1 DEF TabStates
<1>3. tab' = [tab EXCEPT ![t] = shown]
  BY <1>1 DEF Wait
<1> HIDE DEF shown
<1>4. QED
  BY <1>2, <1>3, JoiningKeeps DEF Wait

\* From the shop to the dashboard.
LEMMA NavigateKeeps ==
  ASSUME SessionsInv, NEW t \in Tabs, Navigate(t)
  PROVE  SessionsInv'
<1>1. PICK old \in TabStates : old = tab[t]
  BY DEF SessionsInv, TabsInv
<1>2. CASE tab[t].booted
  <2>1. /\ tab' = [tab EXCEPT ![t].page = IF tab[t].access THEN "app" ELSE "login"]
        /\ UNCHANGED <<fate, cookie, hint, call, lost, out>> /\ Event
    BY <1>2 DEF Navigate
  <2>2. PICK page \in Pages : page = IF tab[t].access THEN "app" ELSE "login"
    BY DEF Pages
  <2> DEFINE shown == [old EXCEPT !.page = page]
  <2>3. /\ shown \in TabStates /\ shown.want = old.want
        /\ shown.page = "app" => shown.access
    BY <1>1, <2>2 DEF TabStates
  <2>4. tab' = [tab EXCEPT ![t] = shown]
    BY <1>1, <2>1, <2>2
  <2> HIDE DEF shown
  <2>5. TabsInv'
    BY <1>1, <2>1, <2>3, <2>4 DEF SessionsInv, TabsInv, AppPagesAreSignedIn, Refresh
  <2>6. MiscInv'
    BY <2>1, EventCounts DEF SessionsInv, MiscInv
  <2>7. UNCHANGED <<call, fate, cookie, lost, out>>
    BY <2>1
  <2>8. call' \in [Slots -> Messages] /\ lost \subseteq lost' /\ lost' \subseteq Tokens
    BY <2>7 DEF SessionsInv, CallsInv, TokensInv
  <2>9. \A u \in Tabs : Refresh(u)' = Refresh(u)
    BY <2>7 DEF Refresh
  <2>10. QED
    BY <2>5, <2>6, <2>7, <2>8, <2>9, QuietStep
<1>3. CASE ~tab[t].booted
  <2> DEFINE shown == Shows("app", old.access, TRUE, {"boot"})
  <2>1. shown \in TabStates /\ shown.want # {}
    BY <1>1 DEF Shows, TabStates, Pages
  <2>2. tab' = [tab EXCEPT ![t] = shown]
    BY <1>1, <1>3 DEF Navigate
  <2> HIDE DEF shown
  <2>3. QED
    BY <1>3, <2>1, <2>2, JoiningKeeps DEF Navigate
<1>4. QED
  BY <1>2, <1>3

\* Logging out, with an access token that is good or one that is not.
LEMMA StartLogoutKeeps ==
  ASSUME SessionsInv, NEW t \in Tabs, StartLogout(t)
  PROVE  SessionsInv'
<1>1. CASE Wait(t, "logout")
  <2>1. PICK what \in {"call", "logout"} : what = "logout"
    OBVIOUS
  <2>2. QED
    BY <1>1, <2>1, WaitKeeps DEF StartLogout
<1>2. CASE /\ call' = [call EXCEPT ![<<t, "logout">>] = Sent("logout", cookie, FALSE)]
           /\ UNCHANGED <<fate, cookie, hint, tab, lost, out>>
  <2>1. PICK k \in 0..MaxTokens, no \in BOOLEAN : k = cookie /\ no = FALSE
    BY DEF SessionsInv, TokensInv
  <2>2. /\ Sound(<<t, "logout">>, Sent("logout", k, no))
        /\ Sent("logout", k, no).heir = 0
        /\ Sent("logout", k, no).token = k
    BY LogoutSent
  <2>3. PICK x \in Slots, d \in Messages : x = <<t, "logout">> /\ d = Sent("logout", k, no)
    BY <2>2, SlotsOfTabs DEF Sound
  <2>4. Tame(x, d)
    BY <1>2, <2>1, <2>2, <2>3 DEF Tame
  <2>5. call' = [call EXCEPT ![x] = d] /\ CallsInv /\ HeirsInv
    BY <1>2, <2>1, <2>3 DEF SessionsInv
  <2>6. /\ call' \in [Slots -> Messages]
        /\ \A y \in Slots : call'[y] = call[y] \/ Tame(y, call'[y])
        /\ \A y \in Slots : y # x => call'[y] = call[y]
    BY <2>4, <2>5, OneRequest
  <2>7. \A u \in Tabs : Refresh(u)' = Refresh(u)
    <3>1. SUFFICES ASSUME NEW u \in Tabs
                   PROVE  call'[<<u, "refresh">>] = call[<<u, "refresh">>]
      BY DEF Refresh
    <3>2. <<u, "refresh">> \in Slots /\ <<u, "refresh">> # x
      BY <2>3, SlotsOfTabs
    <3>3. QED
      BY <2>6, <3>2
  <2>8. TabsInv'
    BY <1>2, <2>7 DEF SessionsInv, TabsInv, AppPagesAreSignedIn
  <2>9. MiscInv'
    BY <1>2, EventCounts DEF StartLogout, SessionsInv, MiscInv
  <2>10. lost \subseteq lost' /\ lost' \subseteq Tokens
    BY <1>2 DEF SessionsInv, TokensInv
  <2>11. QED
    BY <1>2, <2>6, <2>7, <2>8, <2>9, <2>10, QuietStep
<1>3. QED
  BY <1>1, <1>2 DEF StartLogout
-----------------------------------------------------------------------------
\* The request in slot `x` is answered without a rotation.
LEMMA AnswerKeeps ==
  ASSUME SessionsInv, NEW x \in Slots, NEW d \in Messages, Tame(x, d),
         call[x].step # "rotated", call[x].step # "none",
         d.kind = call[x].kind, d.token = call[x].token,
         \/ call' = [call EXCEPT ![x] = d]
         \/ Answered(x, d)
  PROVE  /\ call' \in [Slots -> Messages]
         /\ \A y \in Slots : call'[y] = call[y] \/ Tame(y, call'[y])
         /\ \A u \in Tabs : Refresh(u)'.kind = Refresh(u).kind
         /\ \A u \in Tabs : Refresh(u)'.token = Refresh(u).token
         /\ \A u \in Tabs : Refresh(u).step = "rotated" => Refresh(u)' = Refresh(u)
<1>1. CallsInv /\ HeirsInv
  BY DEF SessionsInv
<1>2. Tame(x, Idle) /\ Idle \in Messages
  BY IdleIsSound DEF Tame, Sound
<1>3. PICK e \in Messages : /\ call' = [call EXCEPT ![x] = e]
                            /\ e = d \/ (x[2] = "stray" /\ e = Idle)
  BY <1>2 DEF Answered
<1>4. Tame(x, e)
  BY <1>2, <1>3
<1>5. /\ call' \in [Slots -> Messages]
      /\ \A y \in Slots : call'[y] = call[y] \/ Tame(y, call'[y])
      /\ call'[x] = e
      /\ \A y \in Slots : y # x => call'[y] = call[y]
  BY <1>1, <1>3, <1>4, OneRequest
<1>6. ASSUME NEW u \in Tabs
      PROVE  /\ call'[<<u, "refresh">>].kind = call[<<u, "refresh">>].kind
             /\ call'[<<u, "refresh">>].token = call[<<u, "refresh">>].token
             /\ call[<<u, "refresh">>].step = "rotated" =>
                  call'[<<u, "refresh">>] = call[<<u, "refresh">>]
  <2>1. PICK y \in Slots : y = <<u, "refresh">> /\ y[2] = "refresh"
    BY SlotsOfTabs
  <2>2. CASE y = x
    <3>1. e = d
      BY <1>3, <2>1, <2>2
    <3>2. QED
      BY <1>5, <2>1, <2>2, <3>1
  <2>3. CASE y # x
    BY <1>5, <2>1, <2>3
  <2>4. QED
    BY <2>2, <2>3
<1>7. QED
  BY <1>5, <1>6 DEF Refresh

\* The server looks at the token of a refresh.
LEMMA VerifyKeeps ==
  ASSUME SessionsInv, NEW x \in Slots, Verify(x)
  PROVE  SessionsInv'
<1>1. PICK c \in Messages : c = call[x] /\ Sound(x, c) /\ c.kind = "refresh" /\ c.step = "sent"
  BY DEF SessionsInv, CallsInv, Verify
<1>2. UNCHANGED <<fate, lost, cookie, hint, tab, out, events>>
  BY DEF Verify, ServerOnly
<1>3. PICK d \in Messages :
        /\ d.kind = c.kind /\ d.token = c.token /\ d.heir = 0 /\ Sound(x, d)
        /\ call' = [call EXCEPT ![x] = d] \/ Answered(x, d)
  <2>1. CASE call[x].token # 0 /\ call' = [call EXCEPT ![x].step = "verified"]
    <3> DEFINE d == [c EXCEPT !.step = "verified"]
    <3>1. /\ d \in Messages /\ d.kind = c.kind /\ d.token = c.token /\ d.heir = c.heir
          /\ d.step = "verified"
      BY <1>1 DEF Messages
    <3>2. call' = [call EXCEPT ![x] = d]
      BY <1>1, <2>1
    <3> HIDE DEF d
    <3>3. QED
      BY <1>1, <2>1, <3>1, <3>2 DEF Sound
  <2>2. CASE Refused(x)
    <3> DEFINE d == [c EXCEPT !.step = "refused"]
    <3>1. /\ d \in Messages /\ d.kind = c.kind /\ d.token = c.token /\ d.heir = c.heir
          /\ d.step = "refused"
      BY <1>1 DEF Messages
    <3>2. Answered(x, d)
      BY <1>1, <2>2 DEF Refused
    <3> HIDE DEF d
    <3>3. QED
      BY <1>1, <3>1, <3>2 DEF Sound
  <2>3. QED
    BY <2>1, <2>2 DEF Verify
<1>4. Tame(x, d)
  BY <1>1, <1>3 DEF Tame
<1>5. call[x].step # "rotated" /\ call[x].step # "none"
      /\ d.kind = call[x].kind /\ d.token = call[x].token
  BY <1>1, <1>3
<1>6. /\ call' \in [Slots -> Messages]
      /\ \A y \in Slots : call'[y] = call[y] \/ Tame(y, call'[y])
      /\ \A u \in Tabs : Refresh(u)'.kind = Refresh(u).kind
      /\ \A u \in Tabs : Refresh(u)'.token = Refresh(u).token
      /\ \A u \in Tabs : Refresh(u).step = "rotated" => Refresh(u)' = Refresh(u)
  BY <1>3, <1>4, <1>5, AnswerKeeps
<1>7. TabsInv' /\ MiscInv' /\ lost \subseteq lost' /\ lost' \subseteq Tokens
  BY <1>2, <1>6 DEF SessionsInv, TabsInv, MiscInv, TokensInv, AppPagesAreSignedIn
<1>8. QED
  BY <1>2, <1>6, <1>7, QuietStep

\* The server ends the session of a logout.
LEMMA EndSessionKeeps ==
  ASSUME SessionsInv, NEW x \in Slots, EndSession(x)
  PROVE  SessionsInv'
<1> USE SessionBoundsAssumption
<1>1. PICK c \in Messages : c = call[x] /\ Sound(x, c) /\ c.kind = "logout" /\ c.step = "sent"
  BY DEF SessionsInv, CallsInv, EndSession
<1>2. UNCHANGED <<lost, cookie, hint, tab, out, events>>
  BY DEF EndSession, ServerOnly
<1>3. PICK step \in {"cleared", "refused"} : Answered(x, [call[x] EXCEPT !.step = step])
  BY DEF EndSession, Refused
<1> DEFINE d == [c EXCEPT !.step = step]
<1>4. /\ d \in Messages /\ d.kind = c.kind /\ d.token = c.token /\ d.heir = c.heir
      /\ d.step = step
  BY <1>1 DEF Messages
<1>5. Answered(x, d)
  BY <1>1, <1>3
<1> HIDE DEF d
<1>6. Tame(x, d)
  BY <1>1, <1>4 DEF Tame, Sound
<1>7. call[x].step # "rotated" /\ call[x].step # "none"
      /\ d.kind = call[x].kind /\ d.token = call[x].token
  BY <1>1, <1>4
<1>8. /\ call' \in [Slots -> Messages]
      /\ \A y \in Slots : call'[y] = call[y] \/ Tame(y, call'[y])
      /\ \A u \in Tabs : Refresh(u)'.kind = Refresh(u).kind
      /\ \A u \in Tabs : Refresh(u)'.token = Refresh(u).token
      /\ \A u \in Tabs : Refresh(u).step = "rotated" => Refresh(u)' = Refresh(u)
  BY <1>4, <1>5, <1>6, <1>7, AnswerKeeps
<1>9. \/ UNCHANGED fate
      \/ c.token # 0 /\ fate[c.token] = "valid" /\ fate' = [fate EXCEPT ![c.token] = "ended"]
  BY <1>1 DEF EndSession
<1>10. TokensInv /\ CallsInv /\ HeirsInv /\ CookieExplained /\ EndInv
  BY DEF SessionsInv
<1>11. c.token # 0 => c.token \in Tokens
  BY DEF Messages, Tokens
<1>12. /\ fate' \in [Tokens -> Fates]
       /\ \A k \in Tokens : fate[k] # "unmade" => fate'[k] # "unmade"
       /\ \A k \in Tokens : fate'[k] = "rotated" => fate[k] = "rotated"
       /\ \A k \in Tokens : k # c.token => fate'[k] = fate[k]
  BY <1>9, <1>10, <1>11 DEF TokensInv, Fates
<1>13. \A y \in Slots : call[y].heir # 0 => fate'[call[y].heir] \in {"valid", "over"}
  <2>1. \A y \in Slots : call[y].heir # 0 => call[y].heir \in Tokens
    BY <1>10 DEF CallsInv, Messages, Tokens
  <2>2. QED
    BY <1>1, <1>10, <1>12, <2>1 DEF HeirsInv
<1>14. TokensInv'
  BY <1>2, <1>10, <1>12 DEF TokensInv, Tokens
<1>15. \A y \in Slots : call'[y].heir # 0 => call'[y].heir # cookie'
  BY <1>2, <1>8, <1>10 DEF Tame, HeirsInv
<1>16. CallsInv' /\ HeirsInv'
  BY <1>8, <1>10, <1>12, <1>13, <1>14, <1>15, RequestsKept
<1>17. CookieExplained'
  <2>1. cookie' # 0 /\ fate'[cookie'] = "rotated" =>
          cookie' = cookie /\ fate[cookie] = "rotated"
    BY <1>2, <1>10, <1>12 DEF TokensInv, Tokens
  <2>2. QED
    BY <1>2, <1>8, <1>10, <2>1, ExplanationKept
<1>18. TabsInv' /\ MiscInv' /\ EndInv'
  BY <1>2, <1>8 DEF SessionsInv, TabsInv, MiscInv, EndInv, AppPagesAreSignedIn
<1>19. QED
  BY <1>14, <1>16, <1>17, <1>18 DEF SessionsInv

\* The token the server makes next was not there before.
LEMMA NextTokenIsNew ==
  ASSUME fate \in [Tokens -> Fates], Unmade # {}
  PROVE  NextToken \in Tokens /\ fate[NextToken] = "unmade" /\ NextToken # 0
<1>1. NextToken \in Unmade
  BY DEF NextToken
<1>2. QED
  BY <1>1 DEF Unmade, Tokens

\* What the requests carry are tokens that were made.
LEMMA HeldAreMade ==
  ASSUME SessionsInv, NEW y \in Slots
  PROVE  /\ call[y].token \in 0..MaxTokens /\ call[y].heir \in 0..MaxTokens
         /\ call[y].token # 0 => call[y].token \in Tokens /\ fate[call[y].token] # "unmade"
         /\ call[y].heir # 0 => call[y].heir \in Tokens /\ fate[call[y].heir] # "unmade"
BY SessionBoundsAssumption DEF SessionsInv, CallsInv, HeirsInv, Messages, Tokens

\* A rotation: the new heir is known to its answer only.
LEMMA RotateKeeps ==
  ASSUME SessionsInv, NEW x \in Slots, Rotate(x)
  PROVE  SessionsInv'
<1> USE SessionBoundsAssumption
<1>1. PICK c \in Messages :
        /\ c = call[x] /\ Sound(x, c) /\ c.step = "verified"
        /\ c.kind = "refresh" /\ c.token # 0 /\ c.heir = 0
  BY DEF SessionsInv, CallsInv, Rotate, Sound
<1>2. UNCHANGED <<cookie, hint, tab, out, events>>
  BY DEF Rotate, ServerOnly
<1>3. TokensInv /\ CallsInv /\ HeirsInv /\ CookieExplained /\ EndInv
  BY DEF SessionsInv
<1>4. PICK h \in Tokens : h = NextToken /\ fate[h] = "unmade" /\ h # 0
  BY <1>3, NextTokenIsNew DEF Rotate, TokensInv
<1>5. PICK k \in Tokens : k = c.token /\ fate[k] # "unmade"
  BY <1>1, HeldAreMade
<1>6. /\ fate' = [fate EXCEPT ![k] = IF @ = "valid" THEN "rotated" ELSE @, ![h] = "valid"]
      /\ lost' = IF x[2] = "stray" THEN lost \cup {k} ELSE lost
      /\ Answered(x, Message("refresh", "rotated", k, h, c.again))
  BY <1>1, <1>4, <1>5 DEF Rotate
<1>7. /\ fate' \in [Tokens -> Fates]
      /\ fate'[h] = "valid"
      /\ fate'[k] # "unmade"
      /\ \A j \in Tokens : j # k /\ j # h => fate'[j] = fate[j]
      /\ fate[k] = "rotated" => fate'[k] = "rotated"
  BY <1>3, <1>4, <1>5, <1>6 DEF TokensInv, Fates
<1> DEFINE d == Message("refresh", "rotated", k, h, c.again)
<1>8. /\ d \in Messages /\ d.kind = "refresh" /\ d.step = "rotated" /\ d.token = k
      /\ d.heir = h
  BY <1>1 DEF Message, Messages, Tokens
<1>9. PICK e \in Messages :
        /\ call' = [call EXCEPT ![x] = e]
        /\ (x[2] = "stray" /\ e = Idle) \/ (x[2] # "stray" /\ e = d)
  <2>1. Idle \in Messages
    BY IdleIsSound DEF Sound
  <2>2. QED
    BY <1>6, <1>8, <2>1 DEF Answered
<1> HIDE DEF d
<1>10. Sound(x, e) /\ e.token \in {0, k} /\ e.heir \in {0, h}
  <2>1. CASE x[2] = "stray" /\ e = Idle
    BY <2>1, IdleIsSound
  <2>2. CASE x[2] # "stray" /\ e = d
    BY <1>1, <1>4, <1>5, <1>8, <2>2 DEF Sound
  <2>3. QED
    BY <1>9, <2>1, <2>2
<1>11. /\ call' \in [Slots -> Messages]
       /\ call'[x] = e
       /\ \A y \in Slots : y # x => call'[y] = call[y]
  BY <1>3, <1>9 DEF CallsInv
<1>12. TokensInv'
  <2>1. lost' \subseteq Tokens
    BY <1>3, <1>6 DEF TokensInv
  <2>2. \A j \in Tokens : fate[j] # "unmade" => fate'[j] # "unmade"
    BY <1>4, <1>7
  <2>3. cookie # 0 => cookie \in Tokens
    BY <1>3 DEF TokensInv, Tokens
  <2>4. QED
    BY <1>2, <1>3, <1>7, <2>1, <2>2, <2>3 DEF TokensInv
<1>13. CallsInv'
  <2>1. \A y \in Slots : Sound(y, call'[y])
    BY <1>3, <1>10, <1>11 DEF CallsInv
  <2>2. ASSUME NEW y \in Slots, call'[y].token # 0
        PROVE  fate'[call'[y].token] # "unmade"
    <3>1. CASE y = x
      BY <1>7, <1>10, <1>11, <2>2, <3>1
    <3>2. CASE y # x
      <4>1. call[y].token \in Tokens /\ fate[call[y].token] # "unmade"
        BY <1>11, <2>2, <3>2, HeldAreMade
      <4>2. QED
        BY <1>7, <1>11, <3>2, <4>1
    <3>3. QED
      BY <3>1, <3>2
  <2>3. QED
    BY <1>11, <2>1, <2>2 DEF CallsInv
<1>14. ASSUME NEW y \in Slots, call'[y].heir # 0
       PROVE  /\ fate'[call'[y].heir] \in {"valid", "over"}
              /\ call'[y].heir # cookie'
              /\ \A z \in Slots : /\ call'[z].token # call'[y].heir
                                  /\ z # y => call'[z].heir # call'[y].heir
  <2>1. CASE y = x
    <3>1. call'[y].heir = h
      BY <1>10, <1>11, <1>14, <2>1
    <3>2. h # cookie
      BY <1>3, <1>4 DEF TokensInv
    <3>3. ASSUME NEW z \in Slots
          PROVE  call'[z].token # h /\ (z # x => call'[z].heir # h)
      <4>1. CASE z = x
        BY <1>4, <1>5, <1>10, <1>11, <4>1
      <4>2. CASE z # x
        BY <1>4, <1>11, <4>2, HeldAreMade
      <4>3. QED
        BY <4>1, <4>2
    <3>4. QED
      BY <1>2, <1>7, <2>1, <3>1, <3>2, <3>3
  <2>2. CASE y # x
    <3>1. call'[y].heir = call[y].heir /\ call[y].heir \in Tokens
          /\ fate[call[y].heir] # "unmade"
      BY <1>11, <1>14, <2>2, HeldAreMade
    <3>2. call[y].heir # k /\ call[y].heir # h
      BY <1>1, <1>3, <1>4, <1>5, <1>14, <3>1 DEF HeirsInv
    <3>3. fate'[call[y].heir] \in {"valid", "over"}
      BY <1>3, <1>7, <1>14, <3>1, <3>2 DEF HeirsInv
    <3>4. call[y].heir # cookie'
      BY <1>2, <1>3, <1>14, <3>1 DEF HeirsInv
    <3>5. ASSUME NEW z \in Slots
          PROVE  call'[z].token # call[y].heir /\ (z # y => call'[z].heir # call[y].heir)
      <4>1. CASE z = x
        BY <1>10, <1>11, <1>14, <3>1, <3>2, <4>1
      <4>2. CASE z # x
        BY <1>3, <1>11, <1>14, <3>1, <4>2 DEF HeirsInv
      <4>3. QED
        BY <4>1, <4>2
    <3>6. QED
      BY <3>1, <3>3, <3>4, <3>5
  <2>3. QED
    BY <2>1, <2>2
<1>15. HeirsInv'
  BY <1>14 DEF HeirsInv
<1>16. ASSUME NEW u \in Tabs
       PROVE  /\ Refresh(u).token = 0 => Refresh(u)'.token = 0
              /\ Refresh(u).kind = "refresh" => Refresh(u)'.kind = "refresh"
              /\ Refresh(u).step = "rotated" => Refresh(u)' = Refresh(u)
  <2>1. PICK y \in Slots : y = <<u, "refresh">> /\ y[2] = "refresh"
    BY SlotsOfTabs
  <2>2. CASE y = x
    <3>1. e = d
      BY <1>9, <2>1, <2>2
    <3>2. QED
      BY <1>1, <1>8, <1>11, <2>1, <2>2, <3>1 DEF Refresh
  <2>3. CASE y # x
    BY <1>11, <2>1, <2>3 DEF Refresh
  <2>4. QED
    BY <2>2, <2>3
<1>17. EndInv' /\ TabsInv' /\ MiscInv'
  BY <1>2, <1>16 DEF SessionsInv, EndInv, TabsInv, MiscInv, AppPagesAreSignedIn
<1>18. CookieExplained'
  <2>1. CASE cookie = k
    <3>1. CASE x[2] = "stray"
      BY <1>2, <1>6, <2>1, <3>1 DEF CookieExplained
    <3>2. CASE x[2] # "stray"
      <4>1. PICK u \in Tabs, p \in Places : x = <<u, p>> /\ x[2] = p
        BY SlotsOfTabs
      <4>2. p = "refresh"
        BY <1>1, <3>2, <4>1 DEF Places, Sound
      <4>3. Refresh(u)' = d
        BY <1>9, <1>11, <3>2, <4>1, <4>2 DEF Refresh
      <4>4. QED
        BY <1>2, <1>8, <2>1, <4>3 DEF CookieExplained
    <3>3. QED
      BY <3>1, <3>2
  <2>2. CASE cookie # k
    <3>1. cookie # h
      BY <1>3, <1>4 DEF TokensInv
    <3>2. cookie' # 0 /\ fate'[cookie'] = "rotated" =>
            cookie' = cookie /\ fate[cookie] = "rotated"
      BY <1>2, <1>3, <1>7, <2>2, <3>1 DEF TokensInv, Tokens
    <3>3. QED
      BY <1>3, <1>6, <1>16, <3>2, ExplanationKept
  <2>3. QED
    BY <2>1, <2>2
<1>19. QED
  BY <1>12, <1>13, <1>15, <1>17, <1>18 DEF SessionsInv

\* Tokens that expire or are revoked.
LEMMA AgeingKeeps ==
  ASSUME SessionsInv, Event, UNCHANGED <<cookie, hint, tab, call, lost, out>>,
         fate' \in [Tokens -> Fates],
         \A k \in Tokens : fate'[k] = fate[k] \/ (fate[k] = "valid" /\ fate'[k] = "over")
  PROVE  SessionsInv'
<1> USE SessionBoundsAssumption
<1>1. TokensInv /\ CallsInv /\ HeirsInv /\ CookieExplained /\ call \in [Slots -> Messages]
  BY DEF SessionsInv, CallsInv
<1>2. cookie # 0 => cookie \in Tokens
  BY <1>1 DEF TokensInv, Tokens
<1>3. TokensInv'
  BY <1>1, <1>2 DEF TokensInv
<1>4. \A y \in Slots : call[y].heir # 0 => fate'[call[y].heir] \in {"valid", "over"}
  BY <1>1, HeldAreMade DEF HeirsInv
<1>5. \A y \in Slots : call'[y].heir # 0 => call'[y].heir # cookie'
  BY <1>1 DEF HeirsInv
<1>6. /\ call' \in [Slots -> Messages]
      /\ \A y \in Slots : call'[y] = call[y] \/ Tame(y, call'[y])
      /\ \A k \in Tokens : fate[k] # "unmade" => fate'[k] # "unmade"
  BY <1>1
<1>7. CallsInv' /\ HeirsInv'
  BY <1>1, <1>3, <1>4, <1>5, <1>6, RequestsKept
<1>8. \A u \in Tabs : Refresh(u)' = Refresh(u)
  BY DEF Refresh
<1>9. cookie' # 0 /\ fate'[cookie'] = "rotated" =>
        cookie' = cookie /\ fate[cookie] = "rotated"
  BY <1>2
<1>10. CookieExplained'
  BY <1>1, <1>8, <1>9, ExplanationKept
<1>11. TabsInv' /\ EndInv' /\ MiscInv'
  BY <1>8, EventCounts DEF SessionsInv, TabsInv, EndInv, MiscInv, AppPagesAreSignedIn
<1>12. QED
  BY <1>3, <1>7, <1>10, <1>11 DEF SessionsInv

LEMMA ExpireKeeps ==
  ASSUME SessionsInv, NEW k \in Tokens, Expire(k)
  PROVE  SessionsInv'
<1>1. fate' = [fate EXCEPT ![k] = "over"] /\ fate[k] = "valid" /\ fate \in [Tokens -> Fates]
  BY DEF Expire, SessionsInv, TokensInv
<1>2. /\ fate' \in [Tokens -> Fates]
      /\ \A j \in Tokens : fate'[j] = fate[j] \/ (fate[j] = "valid" /\ fate'[j] = "over")
  BY <1>1 DEF Fates
<1>3. QED
  BY <1>2, AgeingKeeps DEF Expire

LEMMA RevokeAllKeeps ==
  ASSUME SessionsInv, RevokeAll
  PROVE  SessionsInv'
<1>1. PICK revoked \in SUBSET {k \in Tokens : fate[k] = "valid"} :
        fate' = [k \in Tokens |-> IF k \in revoked THEN "over" ELSE fate[k]]
  BY DEF RevokeAll
<1>2. fate \in [Tokens -> Fates]
  BY DEF SessionsInv, TokensInv
<1>3. /\ fate' \in [Tokens -> Fates]
      /\ \A j \in Tokens : fate'[j] = fate[j] \/ (fate[j] = "valid" /\ fate'[j] = "over")
  BY <1>1, <1>2 DEF Fates
<1>4. QED
  BY <1>3, AgeingKeeps DEF RevokeAll

\* A login.
LEMMA LoginKeeps ==
  ASSUME SessionsInv, NEW t \in Tabs, Login(t)
  PROVE  SessionsInv'
<1> USE SessionBoundsAssumption
<1>1. TokensInv /\ CallsInv /\ HeirsInv /\ call \in [Slots -> Messages]
  BY DEF SessionsInv, CallsInv
<1>2. PICK h \in Tokens : h = NextToken /\ fate[h] = "unmade" /\ h # 0
  BY <1>1, NextTokenIsNew DEF Login, TokensInv
<1>3. /\ fate' = [fate EXCEPT ![h] = "valid"] /\ cookie' = h /\ hint' = TRUE /\ out' = "no"
      /\ UNCHANGED <<call, lost, events>>
  BY <1>2 DEF Login
<1>4. /\ fate' \in [Tokens -> Fates] /\ fate'[h] = "valid"
      /\ \A k \in Tokens : k # h => fate'[k] = fate[k]
  BY <1>1, <1>3 DEF TokensInv, Fates
<1>5. TokensInv'
  BY <1>1, <1>2, <1>3, <1>4 DEF TokensInv, Tokens
<1>6. \A y \in Slots : call[y].heir # 0 =>
        fate'[call[y].heir] \in {"valid", "over"} /\ call[y].heir # h
  BY <1>1, <1>2, <1>4, HeldAreMade DEF HeirsInv
<1>7. /\ call' \in [Slots -> Messages]
      /\ \A y \in Slots : call'[y] = call[y] \/ Tame(y, call'[y])
      /\ \A k \in Tokens : fate[k] # "unmade" => fate'[k] # "unmade"
      /\ \A y \in Slots : call'[y].heir # 0 => call'[y].heir # cookie'
      /\ \A y \in Slots : call[y].heir # 0 => fate'[call[y].heir] \in {"valid", "over"}
  BY <1>1, <1>2, <1>3, <1>4, <1>6
<1>8. CallsInv' /\ HeirsInv'
  BY <1>1, <1>5, <1>7, RequestsKept
<1>9. CookieExplained'
  BY <1>3, <1>4 DEF CookieExplained
<1>10. PICK old \in TabStates : old = tab[t] /\ tab \in [Tabs -> TabStates]
  BY DEF SessionsInv, TabsInv
<1> DEFINE shown == Shows("app", TRUE, old.booted, {})
<1>11. shown \in TabStates /\ shown.access /\ shown.want = {}
  BY <1>10 DEF Shows, TabStates, Pages
<1>12. tab' = [tab EXCEPT ![t] = shown]
  BY <1>10 DEF Login
<1> HIDE DEF shown
<1>13. TabsInv'
  BY <1>3, <1>10, <1>11, <1>12 DEF SessionsInv, TabsInv, AppPagesAreSignedIn, Refresh
<1>14. EndInv' /\ MiscInv'
  BY <1>3 DEF SessionsInv, EndInv, MiscInv
<1>15. QED
  BY <1>5, <1>8, <1>9, <1>13, <1>14 DEF SessionsInv
-----------------------------------------------------------------------------
\* The refresh of a tab is answered: its heir becomes the cookie, and nobody
\* else has it.
LEMMA RefreshedKeeps ==
  ASSUME SessionsInv, NEW t \in Tabs, Refreshed(t)
  PROVE  SessionsInv'
<1> USE SessionBoundsAssumption
<1>1. PICK x \in Slots : x = <<t, "refresh">> /\ x[2] = "refresh"
  BY SlotsOfTabs
<1>2. PICK c \in Messages : c = call[x] /\ Sound(x, c) /\ c.step = "rotated"
  BY <1>1 DEF SessionsInv, CallsInv, Refreshed, Refresh
<1>3. TokensInv /\ CallsInv /\ HeirsInv /\ EndInv /\ call \in [Slots -> Messages]
  BY DEF SessionsInv, CallsInv
<1>4. PICK h \in Tokens : h = c.heir /\ h # 0 /\ fate[h] \in {"valid", "over"}
  BY <1>2, <1>3, HeldAreMade DEF Sound, HeirsInv
<1>5. /\ cookie' = h /\ hint' = TRUE /\ UNCHANGED <<fate, lost, out, events>>
      /\ tab' = [tab EXCEPT ![t] = SignedIn(@)]
      /\ call' = [call EXCEPT ![<<t, "refresh">>] = Idle,
           ![<<t, "logout">>] = IF "logout" \in tab[t].want
                                THEN Sent("logout", h, FALSE) ELSE @]
  BY <1>1, <1>2, <1>4 DEF Refreshed, Refresh
<1> DEFINE e == IF "logout" \in tab[t].want
                THEN Sent("logout", h, FALSE) ELSE call[<<t, "logout">>]
<1>6. e = call[<<t, "logout">>] \/ Tame(<<t, "logout">>, e)
  <2>0. h \in 0..MaxTokens
    BY DEF Tokens
  <2>1. PICK k \in 0..MaxTokens, no \in BOOLEAN : k = h /\ no = FALSE
    BY <2>0
  <2>2. /\ Sound(<<t, "logout">>, Sent("logout", k, no))
        /\ Sent("logout", k, no).heir = 0
        /\ Sent("logout", k, no).token = k
    BY LogoutSent
  <2>3. Tame(<<t, "logout">>, Sent("logout", h, FALSE))
    BY <1>5, <2>1, <2>2 DEF Tame
  <2>4. QED
    BY <2>3
<1>7. Tame(x, Idle)
  BY IdleIsSound DEF Tame
<1>8. e \in Messages /\ Idle \in Messages /\ <<t, "logout">> \in Slots
  BY <1>3, <1>6, <1>7, SlotsOfTabs DEF Tame, Sound
<1> HIDE DEF e
<1>9. call' = [call EXCEPT ![<<t, "refresh">>] = Idle, ![<<t, "logout">>] = e]
  BY <1>1, <1>3, <1>5, <1>8 DEF e
<1>10. /\ call' \in [Slots -> Messages]
       /\ call'[x] = Idle
       /\ call'[<<t, "logout">>] = e
       /\ \A y \in Slots : y # x /\ y # <<t, "logout">> => call'[y] = call[y]
  BY <1>1, <1>3, <1>8, <1>9
<1>11. \A y \in Slots : call'[y] = call[y] \/ Tame(y, call'[y])
  BY <1>6, <1>7, <1>10
<1>12. ASSUME NEW y \in Slots, call'[y].heir # 0
       PROVE  call'[y].heir # cookie'
  <2>1. y # x /\ call'[y] = call[y]
    BY <1>10, <1>11, <1>12, IdleIsSound DEF Tame
  <2>2. call[x].heir # 0 /\ call[x].heir = h
    BY <1>2, <1>4
  <2>3. QED
    BY <1>3, <1>5, <2>1, <2>2 DEF HeirsInv
<1>13. TokensInv'
  BY <1>3, <1>4, <1>5 DEF TokensInv, Tokens
<1>14. /\ \A k \in Tokens : fate[k] # "unmade" => fate'[k] # "unmade"
       /\ \A y \in Slots : call[y].heir # 0 => fate'[call[y].heir] \in {"valid", "over"}
  BY <1>3, <1>5, FatesStay
<1>15. CallsInv' /\ HeirsInv'
  BY <1>3, <1>10, <1>11, <1>12, <1>13, <1>14, RequestsKept
<1>16. CookieExplained'
  BY <1>4, <1>5 DEF CookieExplained
<1>17. out # "ended"
  BY <1>1, <1>2, <1>3 DEF EndInv, Refresh, Sound
<1>18. \A u \in Tabs : u # t => Refresh(u)' = Refresh(u)
  <2>1. SUFFICES ASSUME NEW u \in Tabs, u # t
                 PROVE  call'[<<u, "refresh">>] = call[<<u, "refresh">>]
    BY DEF Refresh
  <2>2. <<u, "refresh">> \in Slots
    BY SlotsOfTabs
  <2>3. QED
    BY <1>1, <1>10, <2>1, <2>2
<1>19. PICK old \in TabStates : old = tab[t] /\ tab \in [Tabs -> TabStates]
  BY DEF SessionsInv, TabsInv
<1>20. PICK shown \in TabStates : shown = SignedIn(old) /\ shown.access /\ shown.want = {}
  <2>1. PICK page \in Pages : page = IF old.page = "login" THEN "app" ELSE old.page
    BY DEF TabStates, Pages
  <2>2. SignedIn(old) = Shows(page, TRUE, old.booted, {})
    BY <2>1 DEF SignedIn
  <2>3. Shows(page, TRUE, old.booted, {}) \in TabStates
    BY DEF Shows, TabStates
  <2>4. Shows(page, TRUE, old.booted, {}).access /\ Shows(page, TRUE, old.booted, {}).want = {}
    BY DEF Shows
  <2>5. QED
    BY <2>2, <2>3, <2>4
<1>21. tab' = [tab EXCEPT ![t] = shown]
  BY <1>5, <1>19, <1>20
<1>22. TabsInv'
  BY <1>18, <1>19, <1>20, <1>21 DEF SessionsInv, TabsInv, AppPagesAreSignedIn
<1>23. EndInv' /\ MiscInv'
  BY <1>3, <1>5, <1>17 DEF SessionsInv, EndInv, MiscInv
<1>24. QED
  BY <1>13, <1>15, <1>16, <1>22, <1>23 DEF SessionsInv

\* The refresh is refused.
LEMMA DeniedKeeps ==
  ASSUME SessionsInv, NEW t \in Tabs, Denied(t)
  PROVE  SessionsInv'
<1>1. /\ Refresh(t).step = "refused" /\ GiveUp(t)
      /\ UNCHANGED <<fate, cookie, lost, events>>
      /\ hint' = (hint /\ Refresh(t).again /\ tab[t].want = {"boot"})
  BY DEF Denied
<1>2. /\ call' \in [Slots -> Messages]
      /\ \A x \in Slots : call'[x] = call[x] \/ Tame(x, call'[x])
      /\ \A u \in Tabs : u # t => Refresh(u)' = Refresh(u)
      /\ Refresh(t)'.token \in {0, cookie'}
      /\ TabsInv' /\ out' \in {out, "yes"}
  BY <1>1, GivenUp
<1>3. hint' \in BOOLEAN
  BY <1>1
<1>4. MiscInv'
  BY <1>1, <1>3 DEF SessionsInv, MiscInv
<1>5. lost \subseteq lost' /\ lost' \subseteq Tokens
  BY <1>1 DEF SessionsInv, TokensInv
<1>6. \A u \in Tabs : Refresh(u).step = "rotated" =>
        Refresh(u)' = Refresh(u) \/ Refresh(u).token \in lost'
  BY <1>1, <1>2
<1>7. \A u \in Tabs : Refresh(u)'.token \in {0, cookie', Refresh(u).token}
  BY <1>2
<1>8. QED
  BY <1>1, <1>2, <1>4, <1>5, <1>6, <1>7, QuietStep

\* A refresh without an answer is sent again: the second request is tame, and so
\* is the first, which runs on.
LEMMA Resent ==
  ASSUME SessionsInv, NEW t \in Tabs, NEW s \in Strays(t, Refresh(t)),
         call' = [call EXCEPT ![<<t, "refresh">>] = Sent("refresh", cookie, TRUE),
                              ![<<t, "stray">>] = s],
         UNCHANGED cookie
  PROVE  /\ call' \in [Slots -> Messages]
         /\ \A x \in Slots : call'[x] = call[x] \/ Tame(x, call'[x])
         /\ \A u \in Tabs : u # t => Refresh(u)' = Refresh(u)
         /\ Refresh(t)'.token \in {0, cookie'}
         /\ Refresh(t)'.kind = "refresh"
<1>1. /\ <<t, "refresh">> \in Slots /\ <<t, "stray">> \in Slots
  BY SlotsOfTabs
<1>2. CallsInv /\ HeirsInv /\ call \in [Slots -> Messages]
  BY DEF SessionsInv, CallsInv
<1>3. s = call[<<t, "stray">>] \/ Tame(<<t, "stray">>, s)
  BY <1>1, <1>2, StraysAreTame DEF Refresh
<1>4. PICK k \in 0..MaxTokens, yes \in BOOLEAN : k = cookie /\ yes = TRUE
  BY DEF SessionsInv, TokensInv
<1>5. /\ Sound(<<t, "refresh">>, Sent("refresh", k, yes))
      /\ Sent("refresh", k, yes).heir = 0
      /\ Sent("refresh", k, yes).token = k
      /\ Sent("refresh", k, yes).kind = "refresh"
  BY RefreshSent
<1>6. PICK r \in Messages : r = Sent("refresh", cookie, TRUE) /\ r.token = cookie
                            /\ r.kind = "refresh" /\ Tame(<<t, "refresh">>, r)
  BY <1>4, <1>5 DEF Tame, Sound
<1>7. s \in Messages
  BY <1>1, <1>2, <1>3 DEF Tame, Sound
<1>8. /\ call' \in [Slots -> Messages]
      /\ call'[<<t, "refresh">>] = r
      /\ call'[<<t, "stray">>] = s
      /\ \A x \in Slots : x \notin {<<t, "refresh">>, <<t, "stray">>} => call'[x] = call[x]
  BY <1>1, <1>2, <1>6, <1>7
<1>9. \A x \in Slots : call'[x] = call[x] \/ Tame(x, call'[x])
  BY <1>3, <1>6, <1>8
<1>10. \A u \in Tabs : u # t => Refresh(u)' = Refresh(u)
  <2>1. SUFFICES ASSUME NEW u \in Tabs, u # t
                 PROVE  call'[<<u, "refresh">>] = call[<<u, "refresh">>]
    BY DEF Refresh
  <2>2. <<u, "refresh">> \in Slots
    BY SlotsOfTabs
  <2>3. QED
    BY <1>8, <2>1, <2>2
<1>11. QED
  BY <1>6, <1>8, <1>9, <1>10 DEF Refresh

LEMMA BrokenKeeps ==
  ASSUME SessionsInv, NEW t \in Tabs, Broken(t)
  PROVE  SessionsInv'
<1>1. /\ lost' = lost \cup LostWith(Refresh(t))
      /\ UNCHANGED <<fate, cookie, events>>
  BY DEF Broken
<1>2. lost \subseteq lost' /\ lost' \subseteq Tokens
  BY <1>1, LostAreTokens DEF SessionsInv, TokensInv
<1>3. /\ call' \in [Slots -> Messages]
      /\ \A x \in Slots : call'[x] = call[x] \/ Tame(x, call'[x])
      /\ \A u \in Tabs : u # t => Refresh(u)' = Refresh(u)
      /\ Refresh(t)'.token \in {0, cookie'}
      /\ TabsInv' /\ out' \in {out, "yes"} /\ hint' \in BOOLEAN
  <2>1. CASE /\ UNCHANGED <<hint, tab, out>>
             /\ \E s \in Strays(t, Refresh(t)) :
                  call' = [call EXCEPT
                    ![<<t, "refresh">>] = Sent("refresh", cookie, TRUE),
                    ![<<t, "stray">>] = s]
    <3>1. PICK s \in Strays(t, Refresh(t)) :
            call' = [call EXCEPT ![<<t, "refresh">>] = Sent("refresh", cookie, TRUE),
                                 ![<<t, "stray">>] = s]
      BY <2>1
    <3>2. /\ call' \in [Slots -> Messages]
          /\ \A x \in Slots : call'[x] = call[x] \/ Tame(x, call'[x])
          /\ \A u \in Tabs : u # t => Refresh(u)' = Refresh(u)
          /\ Refresh(t)'.token \in {0, cookie'}
          /\ Refresh(t)'.kind = "refresh"
      BY <1>1, <3>1, Resent
    <3>3. TabsInv'
      BY <2>1, <3>2 DEF SessionsInv, TabsInv, AppPagesAreSignedIn
    <3>4. hint' \in BOOLEAN
      BY <2>1 DEF SessionsInv, MiscInv
    <3>5. QED
      BY <2>1, <3>2, <3>3, <3>4
  <2>2. CASE GiveUp(t) /\ hint' = (hint /\ tab[t].want = {"boot"})
    <3>1. hint' \in BOOLEAN
      BY <2>2
    <3>2. UNCHANGED cookie
      BY <1>1
    <3>3. QED
      BY <2>2, <3>1, <3>2, GivenUp
  <2>3. QED
    BY <2>1, <2>2 DEF Broken
<1>4. MiscInv'
  BY <1>1, <1>3 DEF SessionsInv, MiscInv
<1>5. \A u \in Tabs : Refresh(u).step = "rotated" =>
        Refresh(u)' = Refresh(u) \/ Refresh(u).token \in lost'
  BY <1>1, <1>3, LostAreTokens
<1>6. \A u \in Tabs : Refresh(u)'.token \in {0, cookie', Refresh(u).token}
  BY <1>3
<1>7. QED
  BY <1>1, <1>2, <1>3, <1>4, <1>5, <1>6, QuietStep

\* A logout comes to its end.
LEMMA LoggedOutKeeps ==
  ASSUME SessionsInv, NEW t \in Tabs, LoggedOut(t)
  PROVE  SessionsInv'
<1> USE SessionBoundsAssumption
<1>1. PICK received \in BOOLEAN :
        /\ cookie' = IF received THEN 0 ELSE cookie
        /\ Load(t, "login", cookie', FALSE)
        /\ out' = IF received /\ \A u \in Tabs : Refresh(u).kind = "none"
                  THEN "ended" ELSE "yes"
  <2>1. (Logout(t).step = "cleared") \in BOOLEAN
    OBVIOUS
  <2>2. QED
    BY <2>1 DEF LoggedOut
<1>2. /\ hint' = FALSE /\ UNCHANGED <<fate, events>>
      /\ lost' = lost \cup LostWith(Refresh(t))
  BY DEF LoggedOut
<1>3. TokensInv /\ CallsInv /\ HeirsInv /\ CookieExplained
  BY DEF SessionsInv
<1>4. cookie' \in {0, cookie}
  BY <1>1
<1>5. lost \subseteq lost' /\ lost' \subseteq Tokens
  BY <1>2, <1>3, LostAreTokens DEF TokensInv
<1>6. TokensInv'
  BY <1>2, <1>3, <1>4, <1>5 DEF TokensInv
<1>7. "login" \in Pages /\ FALSE \in BOOLEAN /\ cookie' \in 0..MaxTokens
  BY <1>6 DEF Pages, TokensInv
<1>8. /\ call' \in [Slots -> Messages]
      /\ \A x \in Slots : call'[x] = call[x] \/ Tame(x, call'[x])
      /\ \A u \in Tabs : u # t => Refresh(u)' = Refresh(u)
      /\ Refresh(t)'.token \in {0, cookie'}
      /\ TabsInv'
  BY <1>1, <1>7, Loaded
<1>9. \A y \in Slots : call'[y].heir # 0 => call'[y].heir # cookie'
  BY <1>3, <1>4, <1>8 DEF Tame, HeirsInv
<1>10. /\ \A k \in Tokens : fate[k] # "unmade" => fate'[k] # "unmade"
       /\ \A y \in Slots : call[y].heir # 0 => fate'[call[y].heir] \in {"valid", "over"}
  BY <1>2, <1>3, FatesStay
<1>11. CallsInv' /\ HeirsInv'
  BY <1>3, <1>6, <1>8, <1>9, <1>10, RequestsKept
<1>12. \A u \in Tabs : Refresh(u).step = "rotated" =>
         Refresh(u)' = Refresh(u) \/ Refresh(u).token \in lost'
  BY <1>2, <1>8, LostAreTokens
<1>13. cookie' # 0 /\ fate'[cookie'] = "rotated" =>
         cookie' = cookie /\ fate[cookie] = "rotated"
  BY <1>2, <1>4
<1>14. CookieExplained'
  BY <1>3, <1>5, <1>12, <1>13, ExplanationKept
<1>15. MiscInv'
  BY <1>2 DEF SessionsInv, MiscInv
<1>16. EndInv'
  <2>1. \A u \in Tabs : Refresh(u).kind = "none" => Refresh(u).token = 0
    BY <1>3, SlotsOfTabs DEF CallsInv, Sound, Refresh
  <2>2. QED
    BY <1>1, <1>8, <2>1 DEF EndInv
<1>17. QED
  BY <1>6, <1>8, <1>11, <1>14, <1>15, <1>16 DEF SessionsInv
-----------------------------------------------------------------------------
LEMMA StutterKeeps ==
  ASSUME SessionsInv, UNCHANGED sessionVars
  PROVE  SessionsInv'
BY DEF SessionsInv, TokensInv, CallsInv, HeirsInv, TabsInv, EndInv, MiscInv,
   CookieExplained, AppPagesAreSignedIn, Refresh, sessionVars

LEMMA InitHolds == SessionsInit => SessionsInv
<1> SUFFICES ASSUME SessionsInit PROVE SessionsInv
  OBVIOUS
<1> USE SessionBoundsAssumption
<1>1. PICK signedIn \in BOOLEAN :
        /\ fate = [k \in Tokens |-> IF signedIn /\ k = 1 THEN "valid" ELSE "unmade"]
        /\ cookie = (IF signedIn THEN 1 ELSE 0)
        /\ hint = signedIn
        /\ tab = [t \in Tabs |->
             Shows(IF signedIn THEN "app" ELSE "shop", signedIn, signedIn, {})]
        /\ call = [x \in Tabs \X Places |-> Idle]
        /\ lost = {} /\ out = "no" /\ events = 0
  BY DEF SessionsInit
<1>2. \A x \in Slots : /\ call[x] = Idle /\ Sound(x, Idle) /\ Idle \in Messages
                       /\ Idle.heir = 0 /\ Idle.token = 0
  BY <1>1, IdleIsSound DEF Slots, Sound
<1>3. CallsInv /\ HeirsInv
  BY <1>1, <1>2 DEF CallsInv, HeirsInv, Slots
<1>4. TokensInv
  BY <1>1 DEF TokensInv, Tokens, Fates
<1>5. TabsInv
  BY <1>1 DEF TabsInv, TabStates, Shows, Pages, AppPagesAreSignedIn
<1>6. EndInv /\ MiscInv
  BY <1>1 DEF EndInv, MiscInv
<1>7. CookieExplained
  BY <1>1 DEF CookieExplained, Tokens
<1>8. QED
  BY <1>3, <1>4, <1>5, <1>6, <1>7 DEF SessionsInv

LEMMA NextKeeps ==
  ASSUME SessionsInv, SessionsNext
  PROVE  SessionsInv'
<1>1. ASSUME NEW t \in Tabs, Browser(t) PROVE SessionsInv'
  <2>1. CASE \E page \in Pages : Open(t, page)
    BY <2>1, OpenKeeps
  <2>2. CASE Navigate(t)
    BY <2>2, NavigateKeeps
  <2>3. CASE Login(t)
    BY <2>3, LoginKeeps
  <2>4. CASE Call(t)
    <3>1. PICK what \in {"call", "logout"} : what = "call"
      OBVIOUS
    <3>2. QED
      BY <2>4, <3>1, WaitKeeps DEF Call
  <2>5. CASE StartLogout(t)
    BY <2>5, StartLogoutKeeps
  <2>6. CASE Refreshed(t)
    BY <2>6, RefreshedKeeps
  <2>7. CASE Denied(t)
    BY <2>7, DeniedKeeps
  <2>8. CASE Broken(t)
    BY <2>8, BrokenKeeps
  <2>9. CASE LoggedOut(t)
    BY <2>9, LoggedOutKeeps
  <2>10. QED
    BY <1>1, <2>1, <2>2, <2>3, <2>4, <2>5, <2>6, <2>7, <2>8, <2>9 DEF Browser
<1>2. ASSUME NEW x \in Tabs \X Places, Serve(x) PROVE SessionsInv'
  BY <1>2, VerifyKeeps, RotateKeeps, EndSessionKeeps DEF Serve, Slots
<1>3. ASSUME NEW k \in Tokens, Expire(k) PROVE SessionsInv'
  BY <1>3, ExpireKeeps
<1>4. CASE RevokeAll
  BY <1>4, RevokeAllKeeps
<1>5. QED
  BY <1>1, <1>2, <1>3, <1>4 DEF SessionsNext

\* The invariant of every reachable state.
LEMMA SessionsInvariance == SessionsSpec => []SessionsInv
<1>1. SessionsInv /\ [SessionsNext]_sessionVars => SessionsInv'
  BY NextKeeps, StutterKeeps
<1>2. QED
  BY InitHolds, <1>1, PTL DEF SessionsSpec

\* Every reachable state is well typed, and every tab that waits has a refresh
\* under way (api.ts, refreshAuthTokens).
THEOREM SessionsTypes == SessionsSpec => []SessionsTypeOK
<1>1. SessionsInv => SessionsTypeOK
  BY InvImplies
<1>2. QED
  BY <1>1, SessionsInvariance, PTL

\* However tabs, reloads, lost answers and logins interleave, the cookie holds a
\* used token only while the answer that replaces it is on its way or lost
\* (RefreshTokenView).
THEOREM UsedCookiesAreExplained == SessionsSpec => []CookieExplained
<1>1. SessionsInv => CookieExplained
  BY DEF SessionsInv
<1>2. QED
  BY <1>1, SessionsInvariance, PTL

\* A logout that was answered while no refresh was under way is final
\* (LogoutView).
THEOREM AnsweredLogoutsAreFinal == SessionsSpec => []AnsweredLogoutEnds
<1>1. SessionsInv => AnsweredLogoutEnds
  BY InvImplies
<1>2. QED
  BY <1>1, SessionsInvariance, PTL

\* A dashboard page has an access token or waits for one (router guard).
THEOREM AppPagesStaySignedIn == SessionsSpec => []AppPagesAreSignedIn
<1>1. SessionsInv => AppPagesAreSignedIn
  BY DEF SessionsInv, TabsInv
<1>2. QED
  BY <1>1, SessionsInvariance, PTL
=============================================================================
