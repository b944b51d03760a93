-------------------------- MODULE HttpClientProofs --------------------------
(***************************************************************************)
(* Theorems about HttpClient, for every value of its constants.            *)
(***************************************************************************)
EXTENDS HttpClient, TLAPS

-----------------------------------------------------------------------------
(***************************************************************************)
(* Type correctness.  That proxyLck and stage agree, and that hops stays    *)
(* below its bound, takes knowing where a request can be: after the request *)
(* no label of a request, outside its hops no hop counted.                  *)
(***************************************************************************)
SettingLabel == {"save", "write", "apply", "rollback", "install"}
RequestLabel == {"headers", "hop", "await", "redirect"}

StageKnown == \A g \in Goroutine :
  /\ pc[g] \in RequestLabel => stage[g] # "after"
  /\ pc[g] \notin RequestLabel \cup SettingLabel => stage[g] = "none"

HopsBounded == \A g \in Goroutine :
  /\ pc[g] \notin {"hop", "await", "redirect"} => hops[g] = 0
  /\ pc[g] = "hop" => hops[g] < MaxHop

TypeInv == TypeOK /\ StageKnown /\ HopsBounded

\* SetProxy, returning to the user or to DoWithProxy, keeps types.
LEMMA SetProxyReturnsType ==
  ASSUME TypeInv, NEW g \in Goroutine, NEW r \in {"ok", "error"},
         pc[g] \in SettingLabel, SetProxyReturns(g, r),
         UNCHANGED <<option, proxyUrl, policy, headerLck, target, saved, outer,
                     route, hops>>,
         transport' \in Proxy, broken' \in BOOLEAN
  PROVE  TypeInv'
<1> USE HttpClientAssumption
    DEF TypeInv, TypeOK, StageKnown, HopsBounded, SettingLabel, RequestLabel, Label,
        Outcome, Return, Goto, policy, HttpClientAssumption
<1>1. CASE stage[g] = "none"
  BY <1>1 DEF SetProxyReturns
<1>2. CASE stage[g] = "before" /\ r = "ok"
  BY <1>2 DEF SetProxyReturns
<1>3. CASE stage[g] = "before" /\ r = "error"
  BY <1>3 DEF SetProxyReturns
<1>4. CASE stage[g] = "after"
  BY <1>4 DEF SetProxyReturns
<1> QED
  BY <1>1, <1>2, <1>3, <1>4

\* Do, returning to the user or to DoWithProxy, keeps types.
LEMMA DoReturnsType ==
  ASSUME TypeInv, NEW g \in Goroutine, NEW r \in Outcome, pc[g] \in RequestLabel,
         DoReturns(g, r),
         UNCHANGED <<config, policy, proxyLck, saved, outer, retrying, next, route>>,
         headerLck' \in Goroutine \cup {NoOne}
  PROVE  TypeInv'
<1> USE HttpClientAssumption
    DEF TypeInv, TypeOK, StageKnown, HopsBounded, SettingLabel, RequestLabel, Label,
        Outcome, Return, Goto, config, policy, HttpClientAssumption
<1>1. CASE stage[g] = "before"
  BY <1>1 DEF DoReturns
<1>2. CASE stage[g] = "none"
  BY <1>2 DEF DoReturns
<1> QED
  BY <1>1, <1>2

\* So does a panic.
LEMMA DoPanicsType ==
  ASSUME TypeInv, NEW g \in Goroutine, pc[g] \in RequestLabel, DoPanics(g),
         UNCHANGED <<config, policy, saved, outer, retrying, next, route>>,
         headerLck' \in Goroutine \cup {NoOne}
  PROVE  TypeInv'
<1>1. CASE option.catchPanics
  BY <1>1, DoReturnsType DEF DoPanics, Outcome
<1>2. CASE ~option.catchPanics
  <2> USE HttpClientAssumption
      DEF TypeInv, TypeOK, StageKnown, HopsBounded, SettingLabel, RequestLabel,
          Label, Outcome, Return, Goto, config, policy, HttpClientAssumption
  <2>1. CASE stage[g] = "before"
    <3>1. proxyLck' = NoOne /\ stage' = [stage EXCEPT ![g] = "none"]
      BY <1>2, <2>1 DEF DoPanics
    <3>2. \A h \in Goroutine \ {g} : stage[h] = "none"
      BY <2>1
    <3> QED  BY <1>2, <3>1, <3>2 DEF DoPanics
  <2>2. CASE stage[g] = "none"  BY <1>2, <2>2 DEF DoPanics
  <2> QED  BY <2>1, <2>2
<1> QED
  BY <1>1, <1>2

\* And one inside applyProxy.
LEMMA ApplyPanicsType ==
  ASSUME TypeInv, NEW g \in Goroutine, ApplyPanics(g)
  PROVE  TypeInv'
<1> USE HttpClientAssumption
    DEF TypeInv, TypeOK, StageKnown, HopsBounded, SettingLabel, RequestLabel, Label,
        Outcome, Return, Goto, config, policy, HttpClientAssumption
<1>1. CASE stage[g] = "none"
  BY <1>1 DEF ApplyPanics
<1>2. CASE stage[g] # "none"
  <2>1. proxyLck' = NoOne /\ stage' = [stage EXCEPT ![g] = "none"]
    BY <1>2 DEF ApplyPanics
  <2>2. \A h \in Goroutine \ {g} : stage[h] = "none"
    BY <1>2
  <2> QED
    BY <2>1, <2>2 DEF ApplyPanics
<1> QED
  BY <1>1, <1>2

LEMMA TypeStep ==
  ASSUME TypeInv, [Next]_vars
  PROVE  TypeInv'
<1> USE HttpClientAssumption
    DEF TypeInv, TypeOK, StageKnown, HopsBounded, SettingLabel, RequestLabel, Label,
        Outcome, Enter, Return, Goto, config, policy, locks, setting, request,
        HttpClientAssumption
<1>1. ASSUME NEW g \in Goroutine, NEW p \in Proxy, SetProxy(g, p)
      PROVE  TypeInv'
  BY <1>1 DEF SetProxy
<1>2. ASSUME NEW g \in Goroutine, NEW p \in Proxy, DoWithProxy(g, p)
      PROVE  TypeInv'
  BY <1>2 DEF DoWithProxy
<1>3. ASSUME NEW g \in Goroutine, Do(g)
      PROVE  TypeInv'
  BY <1>3 DEF Do
<1>4. ASSUME NEW g \in Goroutine, NEW b \in BOOLEAN, SetFollowRedirect(g, b)
      PROVE  TypeInv'
  BY <1>4 DEF SetFollowRedirect
<1>5. ASSUME NEW g \in Goroutine, LockProxy(g)
      PROVE  TypeInv'
  BY <1>5 DEF LockProxy
<1>6. ASSUME NEW g \in Goroutine, SaveProxy(g)
      PROVE  TypeInv'
  BY <1>6 DEF SaveProxy
<1>7. ASSUME NEW g \in Goroutine, WriteProxy(g)
      PROVE  TypeInv'
  BY <1>7 DEF WriteProxy
<1>8. ASSUME NEW g \in Goroutine, Apply(g)
      PROVE  TypeInv'
  BY <1>8 DEF Apply
<1>9. ASSUME NEW g \in Goroutine, ApplyFails(g)
      PROVE  TypeInv'
  <2>1. CASE retrying[g]
    BY <1>9, <2>1, SetProxyReturnsType DEF ApplyFails
  <2>2. CASE ~retrying[g]
    BY <1>9, <2>2 DEF ApplyFails
  <2> QED
    BY <2>1, <2>2
<1>10. ASSUME NEW g \in Goroutine, Rollback(g)
       PROVE  TypeInv'
  BY <1>10 DEF Rollback
<1>11. ASSUME NEW g \in Goroutine, Install(g)
       PROVE  TypeInv'
  BY <1>11, SetProxyReturnsType DEF Install
<1>12. ASSUME NEW g \in Goroutine, SetHeaders(g)
       PROVE  TypeInv'
  BY <1>12 DEF SetHeaders
<1>13. ASSUME NEW g \in Goroutine, SetHeadersPanics(g)
       PROVE  TypeInv'
  BY <1>13, DoPanicsType DEF SetHeadersPanics
<1>14. ASSUME NEW g \in Goroutine, Hop(g)
       PROVE  TypeInv'
  BY <1>14 DEF Hop
<1>15. ASSUME NEW g \in Goroutine, Respond(g) \/ Fail(g)
       PROVE  TypeInv'
  BY <1>15, DoReturnsType DEF Respond, Fail
<1>16. ASSUME NEW g \in Goroutine, TransportPanics(g)
       PROVE  TypeInv'
  BY <1>16, DoPanicsType DEF TransportPanics
<1>17. ASSUME NEW g \in Goroutine, Redirect(g)
       PROVE  TypeInv'
  BY <1>17 DEF Redirect
<1>18. ASSUME NEW g \in Goroutine, Follow(g)
       PROVE  TypeInv'
  BY <1>18 DEF Follow
<1>19. ASSUME NEW g \in Goroutine, StopRedirect(g)
       PROVE  TypeInv'
  BY <1>19, DoReturnsType DEF StopRedirect
<1>20. ASSUME NEW g \in Goroutine, ApplyFollow(g)
       PROVE  TypeInv'
  BY <1>20 DEF ApplyFollow
<1>21. ASSUME NEW g \in Goroutine, WriteFollow(g)
       PROVE  TypeInv'
  BY <1>21 DEF WriteFollow
<1>22. ASSUME NEW g \in Goroutine, ApplyCustom(g)
       PROVE  TypeInv'
  BY <1>22 DEF ApplyCustom
<1>23. ASSUME NEW g \in Goroutine, WriteCustom(g)
       PROVE  TypeInv'
  BY <1>23 DEF WriteCustom
<1>24. ASSUME NEW g \in Goroutine, ApplyPanics(g)
       PROVE  TypeInv'
  BY <1>24, ApplyPanicsType
<1>25. CASE UNCHANGED vars
  BY <1>25 DEF vars
<1> HIDE DEF TypeInv, TypeOK, StageKnown, HopsBounded, SettingLabel, RequestLabel,
             Label, Outcome, Enter, Return, Goto
<1> QED
  BY <1>1, <1>2, <1>3, <1>4, <1>5, <1>6, <1>7, <1>8, <1>9, <1>10, <1>11, <1>12,
     <1>13, <1>14, <1>15, <1>16, <1>17, <1>18, <1>19, <1>20, <1>21, <1>22, <1>23,
     <1>24, <1>25
  DEF Next, Call, Step, Answer

LEMMA TypeInvariant == Spec => []TypeInv
<1>1. ASSUME Init
      PROVE  TypeInv
  <2>1. /\ option \in Option /\ proxyUrl \in Proxy /\ transport \in Proxy /\ broken \in BOOLEAN
        /\ followRedirects \in BOOLEAN /\ checkRedirect \in {"useLast", "default", "custom"}
    BY <1>1 DEF Init, Policy
  <2>2. /\ NoProxy \in Proxy /\ NoOne \notin Goroutine /\ MaxHop \in Nat \ {0}
    BY HttpClientAssumption DEF HttpClientAssumption
  <2> QED
    BY <1>1, <2>1, <2>2
    DEF Init, TypeInv, TypeOK, StageKnown, HopsBounded, SettingLabel, RequestLabel,
        Label, Outcome
<1> QED
  BY <1>1, TypeStep, PTL DEF Spec

\* Every variable keeps its type, and proxyLck is held by the one goroutine
\* that is inside DoWithProxy.
THEOREM TypeCorrect == Spec => []TypeOK
<1>1. TypeInv => TypeOK
  BY DEF TypeInv
<1> QED
  BY <1>1, TypeInvariant, PTL

-----------------------------------------------------------------------------
(***************************************************************************)
(* SetFollowRedirect, which takes no lock.                                  *)
(***************************************************************************)
\* A step that leaves the policy alone and starts or ends no SetFollowRedirect.
Elsewhere(g) ==
  /\ pc[g] \notin FollowLabel
  /\ \E l \in Label \ FollowLabel : Goto(g, l)
  /\ UNCHANGED <<option, policy>>

FollowStep(g) ==
  \/ \E b \in BOOLEAN : SetFollowRedirect(g, b)
  \/ ApplyFollow(g) \/ WriteFollow(g) \/ ApplyCustom(g) \/ WriteCustom(g)

LEMMA PolicySteps ==
  ASSUME NEW g \in Goroutine, Call(g) \/ LockProxy(g) \/ Step(g) \/ Answer(g)
  PROVE  Elsewhere(g) \/ FollowStep(g)
<1> USE DEF Elsewhere, Label, FollowLabel, Goto
<1>1. ASSUME NEW r, SetProxyReturns(g, r) \/ DoReturns(g, r) \/ DoPanics(g)
      PROVE  \E l \in Label \ FollowLabel : Goto(g, l)
  BY <1>1 DEF SetProxyReturns, DoReturns, DoPanics, Return
<1>2. CASE \E p \in Proxy : SetProxy(g, p) \/ DoWithProxy(g, p)
  BY <1>2 DEF SetProxy, DoWithProxy, Enter, config
<1>3. CASE Do(g) \/ SetHeaders(g) \/ Hop(g) \/ Redirect(g) \/ Follow(g)
  BY <1>3 DEF Do, Enter, SetHeaders, Hop, Redirect, Follow, config
<1>4. CASE SaveProxy(g) \/ WriteProxy(g) \/ Apply(g) \/ Rollback(g) \/ LockProxy(g)
  BY <1>4 DEF SaveProxy, WriteProxy, Apply, Rollback, LockProxy, config
<1>5. CASE ApplyFails(g) \/ ApplyPanics(g)
  BY <1>1, <1>5 DEF ApplyFails, ApplyPanics, Return, config
<1>6. CASE Install(g)
  BY <1>1, <1>6 DEF Install
<1>7. CASE \/ SetHeadersPanics(g) \/ TransportPanics(g) \/ Respond(g) \/ Fail(g)
           \/ StopRedirect(g)
  BY <1>1, <1>7 DEF SetHeadersPanics, TransportPanics, Respond, Fail, StopRedirect, config
<1> QED
  BY <1>2, <1>3, <1>4, <1>5, <1>6, <1>7 DEF Call, Step, Answer, FollowStep

\* With any calls at once: while redirects are to be followed and the custom
\* function is not in force, somebody has yet to find out and put it back.
CustomInv ==
  option.customRedirect /\ followRedirects =>
    checkRedirect = "custom" \/ \E g \in Goroutine : pc[g] \in FollowLabel

LEMMA CustomStep ==
  ASSUME TypeInv, CustomInv, [Next]_vars
  PROVE  CustomInv'
<1>0. pc \in [Goroutine -> Label]
  BY DEF TypeInv, TypeOK
<1>1. ASSUME NEW g \in Goroutine, Elsewhere(g)
      PROVE  CustomInv'
  <2>1. \A h \in Goroutine \ {g} : pc'[h] = pc[h]
    BY <1>0, <1>1 DEF Elsewhere, Goto
  <2> QED
    BY <1>1, <2>1 DEF Elsewhere, CustomInv, policy
<1>2. ASSUME NEW g \in Goroutine, FollowStep(g)
      PROVE  CustomInv'
  <2>1. CASE WriteCustom(g)
    BY <2>1 DEF WriteCustom, CustomInv
  <2>2. CASE ApplyCustom(g) /\ ~(option.customRedirect /\ followRedirects)
    BY <2>2 DEF ApplyCustom, CustomInv, config, policy
  <2>3. CASE ~WriteCustom(g) /\ (ApplyCustom(g) => option.customRedirect /\ followRedirects)
    <3>1. pc'[g] \in FollowLabel
      BY <1>0, <1>2, <2>3
      DEF FollowStep, SetFollowRedirect, Enter, ApplyFollow, WriteFollow, ApplyCustom,
          Goto, FollowLabel
    <3> QED
      BY <3>1 DEF CustomInv
  <2> QED
    BY <2>1, <2>2, <2>3
<1>3. CASE UNCHANGED vars
  BY <1>3 DEF vars, config, policy, CustomInv
<1> QED
  BY <1>1, <1>2, <1>3, PolicySteps DEF Next

\* However many calls of SetFollowRedirect ran at once, the custom redirect
\* function is in force where redirects are to be followed: whoever found it
\* overwritten puts it back (client.go 200-223).
THEOREM CustomRedirectStays == Spec => []CustomRedirectKept
<1>1. Init => CustomInv
  BY DEF Init, Policy, CustomInv
<1>2. CustomInv => CustomRedirectKept
  BY DEF CustomInv, CustomRedirectKept
<1> QED
  BY <1>1, <1>2, CustomStep, TypeInvariant, PTL DEF Spec

\* No two goroutines set the policy at once.
FollowersAlone ==
  \A g, h \in Goroutine : pc[g] \in FollowLabel /\ pc[h] \in FollowLabel => g = h

PolicyInv ==
  /\ RedirectPolicy
  /\ \A g \in Goroutine :
       /\ pc[g] = "writeFollow" => follow[g] = followRedirects
       /\ pc[g] = "applyCustom" =>
            checkRedirect = IF followRedirects THEN "default" ELSE "useLast"
       /\ pc[g] = "writeCustom" => option.customRedirect /\ followRedirects

LEMMA PolicyStep ==
  ASSUME TypeInv, PolicyInv, FollowersAlone, FollowersAlone', [Next]_vars
  PROVE  PolicyInv'
<1>0. /\ pc \in [Goroutine -> Label] /\ follow \in [Goroutine -> BOOLEAN]
      /\ followRedirects \in BOOLEAN
  BY DEF TypeInv, TypeOK
<1>1. ASSUME NEW g \in Goroutine, Elsewhere(g)
      PROVE  PolicyInv'
  <2>1. pc'[g] \notin FollowLabel /\ \A h \in Goroutine \ {g} : pc'[h] = pc[h]
    BY <1>0, <1>1 DEF Elsewhere, Goto
  <2> QED
    BY <1>1, <2>1 DEF Elsewhere, PolicyInv, RedirectPolicy, Policy, policy, FollowLabel
<1>2. ASSUME NEW g \in Goroutine, FollowStep(g)
      PROVE  PolicyInv'
  <2>1. pc[g] \in FollowLabel \/ pc'[g] \in FollowLabel
    BY <1>0, <1>2
    DEF FollowStep, SetFollowRedirect, Enter, ApplyFollow, WriteFollow, ApplyCustom,
        WriteCustom, Goto, FollowLabel
  <2>2. \E l \in Label : Goto(g, l)
    BY <1>2
    DEF FollowStep, SetFollowRedirect, Enter, ApplyFollow, WriteFollow, ApplyCustom,
        WriteCustom, Return, Goto, Label
  <2>3. \A h \in Goroutine \ {g} : pc'[h] = pc[h]
    BY <1>0, <2>2 DEF Goto
  <2>4. \A h \in Goroutine \ {g} : pc'[h] \notin FollowLabel
    BY <2>1, <2>3 DEF FollowersAlone
  <2>5. CASE \E b \in BOOLEAN : SetFollowRedirect(g, b)
    <3>1. pc'[g] = "applyFollow"
      BY <1>0, <2>5 DEF SetFollowRedirect, Enter, Goto
    <3> QED
      BY <2>4, <3>1 DEF PolicyInv, RedirectPolicy, FollowLabel
  <2>6. CASE ApplyFollow(g)
    <3>1. pc'[g] = "writeFollow" /\ follow'[g] = followRedirects'
      BY <1>0, <2>6 DEF ApplyFollow, Goto
    <3> QED
      BY <2>4, <3>1 DEF PolicyInv, RedirectPolicy, FollowLabel
  <2>7. CASE WriteFollow(g)
    <3>1. /\ pc'[g] = "applyCustom"
          /\ checkRedirect' = IF followRedirects' THEN "default" ELSE "useLast"
      BY <1>0, <2>7 DEF WriteFollow, Goto, PolicyInv
    <3> QED
      BY <2>4, <3>1 DEF PolicyInv, RedirectPolicy, FollowLabel
  <2>8. CASE ApplyCustom(g) /\ option.customRedirect /\ followRedirects
    <3>1. pc'[g] = "writeCustom" /\ option'.customRedirect /\ followRedirects'
      BY <1>0, <2>8 DEF ApplyCustom, Goto, config, policy
    <3> QED
      BY <2>4, <3>1 DEF PolicyInv, RedirectPolicy, FollowLabel
  <2>9. CASE ApplyCustom(g) /\ ~(option.customRedirect /\ followRedirects)
    <3>1. /\ pc'[g] = "idle"
          /\ checkRedirect' = IF followRedirects' THEN "default" ELSE "useLast"
          /\ option' = option /\ followRedirects' = followRedirects
      BY <1>0, <2>9 DEF ApplyCustom, Return, Goto, config, policy, PolicyInv
    <3> QED
      BY <2>4, <2>9, <3>1 DEF PolicyInv, RedirectPolicy, Policy, FollowLabel
  <2>10. CASE WriteCustom(g)
    <3>1. /\ pc'[g] = "idle" /\ checkRedirect' = "custom"
          /\ option'.customRedirect /\ followRedirects'
      BY <1>0, <2>10 DEF WriteCustom, Return, Goto, config, PolicyInv
    <3> QED
      BY <2>4, <3>1 DEF PolicyInv, RedirectPolicy, Policy, FollowLabel
  <2> QED
    BY <1>2, <2>5, <2>6, <2>7, <2>8, <2>9, <2>10 DEF FollowStep
<1>3. CASE UNCHANGED vars
  BY <1>3 DEF vars, config, policy, PolicyInv, RedirectPolicy, Policy
<1> QED
  BY <1>1, <1>2, <1>3, PolicySteps DEF Next

\* Where no two goroutines are inside SetFollowRedirect at once, whatever else
\* runs, CheckRedirect is what NewHttpClient would have made it for the policy
\* set last.  Two may leave another: one reads the option, the other sets it and
\* is done, and then the first writes (client.go 212-217).
THEOREM RedirectPolicyKept == Spec /\ []FollowersAlone => []RedirectPolicy
<1>1. Init => PolicyInv
  BY DEF Init, PolicyInv, RedirectPolicy
<1>2. PolicyInv => RedirectPolicy
  BY DEF PolicyInv
<1> QED
  BY <1>1, <1>2, PolicyStep, TypeInvariant, PTL DEF Spec

-----------------------------------------------------------------------------
(***************************************************************************)
(* SetProxy, where no two goroutines set the proxy at once: SetProxy and    *)
(* DoWithProxy write the config and the transport without a lock that both  *)
(* take.  Requests may run meanwhile, and so may anything else.             *)
(***************************************************************************)
SettersAlone ==
  \A g, h \in Goroutine : pc[g] \in SettingLabel /\ pc[h] \in SettingLabel => g = h

SettingInv ==
  /\ (\A g \in Goroutine : pc[g] \notin SettingLabel) => broken \/ transport = proxyUrl
  /\ \A g \in Goroutine :
       /\ op[g] = "SetProxy" => pc[g] \in SettingLabel /\ stage[g] = "none"
       /\ pc[g] \notin {"apply", "install"} => ~retrying[g]
       /\ pc[g] = "save" => broken \/ transport = proxyUrl
       /\ pc[g] = "write" => (broken \/ transport = proxyUrl) /\ saved[g] = proxyUrl
       /\ pc[g] \in {"apply", "rollback"} => broken \/ transport = saved[g]
       /\ pc[g] = "apply" => proxyUrl = IF retrying[g] THEN saved[g] ELSE target[g]
       /\ pc[g] = "install" => proxyUrl \in {saved[g], target[g]} /\ next[g] = proxyUrl

LEMMA SettingInitially == Init => SettingInv
  BY DEF Init, SettingInv, SettingLabel

\* A goroutine that is not in SetProxy takes a step outside it.
LEMMA ElsewhereStep ==
  ASSUME TypeInv, SettingInv, NEW g \in Goroutine,
         pc[g] \notin SettingLabel, pc'[g] \notin SettingLabel,
         pc' = [pc EXCEPT ![g] = pc'[g]],
         op'[g] # "SetProxy",
         op' = [op EXCEPT ![g] = op'[g]],
         \A h \in Goroutine \ {g} : stage'[h] = stage[h] /\ target'[h] = target[h],
         UNCHANGED <<config, saved, retrying, next>>
  PROVE  SettingInv'
<1>0. pc \in [Goroutine -> Label] /\ op \in [Goroutine -> Operation \cup {"none"}]
  BY DEF TypeInv, TypeOK
<1>1. \A h \in Goroutine \ {g} : pc'[h] = pc[h] /\ op'[h] = op[h]
  BY <1>0
<1>2. (\A h \in Goroutine : pc'[h] \notin SettingLabel) => broken' \/ transport' = proxyUrl'
  BY <1>1 DEF SettingInv, config
<1>3. ASSUME NEW h \in Goroutine \ {g}
      PROVE  /\ op'[h] = "SetProxy" => pc'[h] \in SettingLabel /\ stage'[h] = "none"
             /\ pc'[h] \notin {"apply", "install"} => ~retrying'[h]
             /\ pc'[h] = "save" => broken' \/ transport' = proxyUrl'
             /\ pc'[h] = "write" => (broken' \/ transport' = proxyUrl') /\ saved'[h] = proxyUrl'
             /\ pc'[h] \in {"apply", "rollback"} => broken' \/ transport' = saved'[h]
             /\ pc'[h] = "apply" =>
                  proxyUrl' = IF retrying'[h] THEN saved'[h] ELSE target'[h]
             /\ pc'[h] = "install" =>
                  proxyUrl' \in {saved'[h], target'[h]} /\ next'[h] = proxyUrl'
  BY <1>1, <1>3 DEF SettingInv, config
<1>4. pc'[g] \notin {"apply", "install"} => ~retrying'[g]
  BY DEF SettingInv, SettingLabel
<1> QED
  BY <1>2, <1>3, <1>4 DEF SettingInv, SettingLabel

\* A goroutine enters SetProxy, called by its user or by DoWithProxy.
LEMMA EnteringStep ==
  ASSUME TypeInv, SettingInv, SettersAlone', NEW g \in Goroutine,
         pc[g] \notin SettingLabel, pc' = [pc EXCEPT ![g] = "save"],
         op'[g] = "SetProxy" => stage'[g] = "none",
         op' = [op EXCEPT ![g] = op'[g]],
         \A h \in Goroutine \ {g} : stage'[h] = stage[h],
         UNCHANGED <<config, saved, retrying, next>>
  PROVE  SettingInv'
<1>0. pc \in [Goroutine -> Label] /\ op \in [Goroutine -> Operation \cup {"none"}]
  BY DEF TypeInv, TypeOK
<1>1. pc'[g] = "save" /\ \A h \in Goroutine \ {g} : pc'[h] = pc[h] /\ op'[h] = op[h]
  BY <1>0
<1>2. \A h \in Goroutine \ {g} : pc'[h] \notin SettingLabel
  BY <1>1 DEF SettersAlone, SettingLabel
<1>3. broken \/ transport = proxyUrl
  BY <1>1, <1>2 DEF SettingInv
<1>4. ASSUME NEW h \in Goroutine \ {g}
      PROVE  ~retrying'[h] /\ op'[h] # "SetProxy"
  BY <1>1, <1>2, <1>4 DEF SettingInv, SettingLabel
<1>5. ~retrying'[g]
  BY DEF SettingInv, SettingLabel
<1>6. broken' \/ transport' = proxyUrl'
  BY <1>3 DEF config
<1> QED
  BY <1>1, <1>2, <1>4, <1>5, <1>6 DEF SettingInv, SettingLabel

\* SetProxy returns or panics, with config and transport at one or not.
LEMMA LeavingStep ==
  ASSUME TypeInv, SettingInv, SettersAlone, NEW g \in Goroutine, NEW r \in {"ok", "error"},
         pc[g] \in SettingLabel, SetProxyReturns(g, r) \/ ApplyPanics(g),
         broken' \/ transport' = proxyUrl'
  PROVE  SettingInv'
<1>0. /\ pc \in [Goroutine -> Label] /\ op \in [Goroutine -> Operation \cup {"none"}]
      /\ retrying \in [Goroutine -> BOOLEAN]
      /\ stage \in [Goroutine -> {"none", "before", "after"}]
  BY DEF TypeInv, TypeOK
<1>1. /\ pc'[g] \in {"idle", "headers"}
      /\ \A h \in Goroutine \ {g} : pc'[h] = pc[h] /\ op'[h] = op[h]
      /\ op'[g] # "SetProxy"
      /\ retrying' = [retrying EXCEPT ![g] = FALSE]
  BY <1>0 DEF SetProxyReturns, ApplyPanics, Return, Goto, SettingInv
<1>2. \A h \in Goroutine : pc'[h] \notin SettingLabel
  BY <1>1 DEF SettersAlone, SettingLabel
<1>3. \A h \in Goroutine : op'[h] # "SetProxy" /\ ~retrying'[h]
  BY <1>0, <1>1, <1>2 DEF SettingInv, SettingLabel
<1> QED
  BY <1>2, <1>3 DEF SettingInv, SettingLabel

\* Do returns, or panics.
LEMMA DoEndsStep ==
  ASSUME TypeInv, SettingInv, SettersAlone', NEW g \in Goroutine, NEW r,
         pc[g] \in RequestLabel, DoReturns(g, r) \/ DoPanics(g),
         UNCHANGED <<config, saved, retrying, next>>
  PROVE  SettingInv'
<1>0. /\ pc \in [Goroutine -> Label] /\ op \in [Goroutine -> Operation \cup {"none"}]
      /\ stage \in [Goroutine -> {"none", "before", "after"}]
      /\ target \in [Goroutine -> Proxy]
  BY DEF TypeInv, TypeOK
<1>1. pc[g] \notin SettingLabel /\ op[g] # "SetProxy"
  BY DEF SettingInv, SettingLabel, RequestLabel
<1>2. ASSUME NEW s, DoReturns(g, s)
      PROVE  SettingInv'
  <2>1. CASE stage[g] = "before"
    <3>1. /\ pc' = [pc EXCEPT ![g] = "save"] /\ op' = op
          /\ stage' = [stage EXCEPT ![g] = "after"]
      BY <1>2, <2>1 DEF DoReturns, Goto
    <3>2. /\ op'[g] # "SetProxy" /\ op' = [op EXCEPT ![g] = op'[g]]
          /\ \A h \in Goroutine \ {g} : stage'[h] = stage[h]
      BY <1>0, <1>1, <3>1
    <3> QED
      BY <1>1, <3>1, <3>2, EnteringStep
  <2>2. CASE stage[g] # "before"
    <3>1. /\ pc' = [pc EXCEPT ![g] = "idle"] /\ op' = [op EXCEPT ![g] = "none"]
          /\ stage' = stage /\ target' = target
      BY <1>2, <2>2 DEF DoReturns, Return, Goto
    <3>2. /\ pc'[g] = "idle" /\ op'[g] = "none"
          /\ pc' = [pc EXCEPT ![g] = pc'[g]] /\ op' = [op EXCEPT ![g] = op'[g]]
      BY <1>0, <3>1
    <3> QED
      BY <1>1, <3>1, <3>2, ElsewhereStep DEF SettingLabel
  <2> QED
    BY <2>1, <2>2
<1>3. CASE DoPanics(g) /\ ~option.catchPanics
  <2>1. /\ pc' = [pc EXCEPT ![g] = "idle"] /\ op' = [op EXCEPT ![g] = "none"]
        /\ stage' = [stage EXCEPT ![g] = "none"] /\ target' = target
    BY <1>3 DEF DoPanics, Return, Goto
  <2>2. /\ pc'[g] = "idle" /\ op'[g] = "none"
        /\ pc' = [pc EXCEPT ![g] = pc'[g]] /\ op' = [op EXCEPT ![g] = op'[g]]
        /\ \A h \in Goroutine \ {g} : stage'[h] = stage[h] /\ target'[h] = target[h]
    BY <1>0, <2>1
  <2> QED
    BY <1>1, <2>2, ElsewhereStep DEF SettingLabel
<1>4. CASE DoPanics(g) /\ option.catchPanics
  BY <1>2, <1>4 DEF DoPanics
<1> QED
  BY <1>2, <1>3, <1>4

\* A step of a goroutine inside SetProxy: no other one is inside it.
LEMMA InsideStep ==
  ASSUME TypeInv, SettingInv, SettersAlone, NEW g \in Goroutine,
         SaveProxy(g) \/ WriteProxy(g) \/ Rollback(g) \/ Apply(g)
  PROVE  SettingInv'
<1>0. /\ pc \in [Goroutine -> Label] /\ retrying \in [Goroutine -> BOOLEAN]
      /\ saved \in [Goroutine -> Proxy] /\ next \in [Goroutine -> Proxy]
  BY DEF TypeInv, TypeOK
<1>1. pc[g] \in SettingLabel /\ op' = op /\ stage' = stage /\ target' = target
  BY DEF SaveProxy, WriteProxy, Rollback, Apply, SettingLabel, setting
<1>2. \A h \in Goroutine \ {g} : pc[h] \notin SettingLabel
  BY <1>1 DEF SettersAlone
<1>3. \A h \in Goroutine \ {g} : pc'[h] = pc[h] /\ retrying'[h] = retrying[h]
  BY <1>0 DEF SaveProxy, WriteProxy, Rollback, Apply, Goto, setting
<1>4. pc'[g] \in {"write", "apply", "install"}
  BY <1>0 DEF SaveProxy, WriteProxy, Rollback, Apply, Goto
<1>5. ASSUME NEW h \in Goroutine \ {g}
      PROVE  pc'[h] \notin SettingLabel /\ ~retrying'[h] /\ op'[h] # "SetProxy"
  BY <1>1, <1>2, <1>3, <1>5 DEF SettingInv, SettingLabel
<1>6. op'[g] = "SetProxy" => stage'[g] = "none"
  BY <1>1 DEF SettingInv
<1>7. /\ pc'[g] = "write" =>
           /\ ~retrying'[g] /\ saved'[g] = proxyUrl'
           /\ broken' \/ transport' = proxyUrl'
      /\ pc'[g] = "apply" =>
           /\ broken' \/ transport' = saved'[g]
           /\ proxyUrl' = IF retrying'[g] THEN saved'[g] ELSE target'[g]
      /\ pc'[g] = "install" => proxyUrl' \in {saved'[g], target'[g]} /\ next'[g] = proxyUrl'
  <2>1. CASE SaveProxy(g)
    BY <1>0, <2>1 DEF SaveProxy, Goto, SettingInv, config
  <2>2. CASE WriteProxy(g)
    BY <1>0, <2>2 DEF WriteProxy, Goto, SettingInv, setting
  <2>3. CASE Rollback(g)
    BY <1>0, <2>3 DEF Rollback, Goto, SettingInv
  <2>4. CASE Apply(g)
    BY <1>0, <2>4 DEF Apply, Goto, SettingInv, config
  <2> QED
    BY <2>1, <2>2, <2>3, <2>4
<1> QED
  BY <1>4, <1>5, <1>6, <1>7 DEF SettingInv, SettingLabel

\* What an attempt to apply ends with, when it ends SetProxy.
LEMMA SetProxyEnds ==
  ASSUME TypeInv, SettingInv, SettersAlone, NEW g \in Goroutine,
         Install(g) \/ ApplyFails(g) \/ ApplyPanics(g)
  PROVE  /\ SettingInv'
         /\ pc'[g] # "rollback" =>
              /\ proxyUrl' \in {target[g], saved[g]}
              /\ broken' \/ transport' = proxyUrl'
         /\ op[g] = "SetProxy" /\ pc'[g] # "rollback" =>
              /\ result'[g] = "error" => proxyUrl' = saved[g]
              /\ result'[g] = "ok" => transport' = proxyUrl'
<1>0. /\ pc \in [Goroutine -> Label] /\ retrying \in [Goroutine -> BOOLEAN]
      /\ result \in [Goroutine -> Outcome]
  BY DEF TypeInv, TypeOK
<1>a. op[g] = "SetProxy" => stage[g] = "none"
  BY DEF SettingInv
<1>1. CASE Install(g)
  <2>1. proxyUrl' \in {target[g], saved[g]} /\ transport' = proxyUrl'
    BY <1>1 DEF Install, SettingInv
  <2>2. op[g] = "SetProxy" => result'[g] = "ok"
    BY <1>0, <1>a, <1>1 DEF Install, SetProxyReturns, Return
  <2> QED
    BY <1>1, <2>1, <2>2, LeavingStep DEF Install, SettingLabel
<1>2. CASE ApplyFails(g) /\ retrying[g]
  <2>1. proxyUrl' = saved[g] /\ (broken' \/ transport' = proxyUrl')
    BY <1>2 DEF ApplyFails, SettingInv, config
  <2>2. op[g] = "SetProxy" => result'[g] = "error"
    BY <1>0, <1>a, <1>2 DEF ApplyFails, SetProxyReturns, Return
  <2> QED
    BY <1>2, <2>1, <2>2, LeavingStep DEF ApplyFails, SettingLabel
<1>4. CASE ApplyPanics(g)
  <2>1. proxyUrl' \in {target[g], saved[g]} /\ broken' /\ result'[g] = "panic"
    BY <1>0, <1>4 DEF ApplyPanics, Return, SettingInv
  <2> QED
    BY <1>4, <2>1, LeavingStep DEF ApplyPanics, SettingLabel
<1>3. CASE ApplyFails(g) /\ ~retrying[g]
  <2>1. /\ pc' = [pc EXCEPT ![g] = "rollback"]
        /\ UNCHANGED <<op, stage, retrying, next, target, saved, config>>
        /\ pc[g] = "apply"
    BY <1>3 DEF ApplyFails, Goto
  <2>2. pc'[g] = "rollback" /\ \A h \in Goroutine \ {g} : pc'[h] = pc[h]
    BY <1>0, <2>1
  <2>3. \A h \in Goroutine \ {g} : pc[h] \notin SettingLabel
    BY <2>1 DEF SettersAlone, SettingLabel
  <2> QED
    BY <1>3, <2>1, <2>2, <2>3 DEF SettingInv, SettingLabel, config
<1> QED
  BY <1>1, <1>2, <1>3, <1>4

LEMMA SettingStep ==
  ASSUME TypeInv, SettingInv, SettersAlone, SettersAlone', [Next]_vars
  PROVE  SettingInv'
<1>0. /\ pc \in [Goroutine -> Label] /\ op \in [Goroutine -> Operation \cup {"none"}]
      /\ stage \in [Goroutine -> {"none", "before", "after"}]
      /\ target \in [Goroutine -> Proxy]
  BY DEF TypeInv, TypeOK
<1>1. ASSUME NEW g \in Goroutine, NEW p \in Proxy, SetProxy(g, p)
      PROVE  SettingInv'
  <2>1. /\ pc[g] = "idle" /\ pc' = [pc EXCEPT ![g] = "save"]
        /\ op' = [op EXCEPT ![g] = "SetProxy"] /\ op'[g] = "SetProxy"
        /\ UNCHANGED <<config, saved, stage, retrying, next>>
    BY <1>0, <1>1 DEF SetProxy, Enter, Goto
  <2>2. stage[g] = "none"
    BY <2>1 DEF TypeInv, StageKnown, RequestLabel, SettingLabel
  <2> QED
    BY <2>1, <2>2, EnteringStep DEF SettingLabel
<1>2. ASSUME NEW g \in Goroutine, LockProxy(g)
      PROVE  SettingInv'
  <2>1. /\ pc[g] = "lockProxy" /\ pc' = [pc EXCEPT ![g] = "save"]
        /\ op' = op /\ op' = [op EXCEPT ![g] = op'[g]]
        /\ UNCHANGED <<config, saved, retrying, next>>
        /\ \A h \in Goroutine \ {g} : stage'[h] = stage[h]
    BY <1>0, <1>2 DEF LockProxy, Goto
  <2>2. op'[g] # "SetProxy"
    BY <2>1 DEF SettingInv, SettingLabel
  <2> QED
    BY <2>1, <2>2, EnteringStep DEF SettingLabel
<1>3. ASSUME NEW g \in Goroutine, NEW l \in Label \ SettingLabel, NEW m \in Operation \ {"SetProxy"},
             pc[g] = "idle", pc' = [pc EXCEPT ![g] = l], op' = [op EXCEPT ![g] = m],
             stage' = stage, \A h \in Goroutine \ {g} : target'[h] = target[h],
             UNCHANGED <<config, saved, retrying, next>>
      PROVE  SettingInv'
  <2>1. pc'[g] = l /\ op'[g] = m /\ pc[g] \notin SettingLabel
    BY <1>0, <1>3 DEF SettingLabel
  <2> QED
    BY <1>3, <2>1, ElsewhereStep
<1>4. ASSUME NEW g \in Goroutine, NEW p \in Proxy, DoWithProxy(g, p)
      PROVE  SettingInv'
  <2>1. /\ pc[g] = "idle" /\ pc' = [pc EXCEPT ![g] = "lockProxy"]
        /\ op' = [op EXCEPT ![g] = "DoWithProxy"] /\ "DoWithProxy" \in Operation
        /\ UNCHANGED <<config, saved, stage, retrying, next>>
        /\ \A h \in Goroutine \ {g} : target'[h] = target[h]
    BY <1>0, <1>4 DEF DoWithProxy, Enter, Goto
  <2> QED
    BY <1>3, <2>1 DEF Label, SettingLabel
<1>5. ASSUME NEW g \in Goroutine, Do(g)
      PROVE  SettingInv'
  <2>1. /\ pc[g] = "idle" /\ pc' = [pc EXCEPT ![g] = "headers"]
        /\ op' = [op EXCEPT ![g] = "Do"] /\ "Do" \in Operation
        /\ UNCHANGED <<config, saved, stage, retrying, next, target>>
    BY <1>5 DEF Do, Enter, Goto, setting
  <2> QED
    BY <1>3, <2>1 DEF Label, SettingLabel
<1>6. ASSUME NEW g \in Goroutine, NEW b \in BOOLEAN, SetFollowRedirect(g, b)
      PROVE  SettingInv'
  <2>1. /\ pc[g] = "idle" /\ pc' = [pc EXCEPT ![g] = "applyFollow"]
        /\ op' = [op EXCEPT ![g] = "SetFollowRedirect"] /\ "SetFollowRedirect" \in Operation
        /\ UNCHANGED <<config, saved, stage, retrying, next, target>>
    BY <1>6 DEF SetFollowRedirect, Enter, Goto, setting
  <2> QED
    BY <1>3, <2>1 DEF Label, SettingLabel
<1>7. ASSUME NEW g \in Goroutine,
             \/ SetHeaders(g) \/ Hop(g) \/ Redirect(g) \/ Follow(g)
             \/ ApplyFollow(g) \/ WriteFollow(g) \/ ApplyCustom(g) \/ WriteCustom(g)
      PROVE  SettingInv'
  <2>1. /\ pc[g] \notin SettingLabel
        /\ \E l \in {"hop", "await", "redirect", "idle"} \cup FollowLabel :
             pc' = [pc EXCEPT ![g] = l]
        /\ op' = op \/ op' = [op EXCEPT ![g] = "none"]
        /\ UNCHANGED <<config, saved, stage, retrying, next, target>>
    BY <1>7 DEF SetHeaders, Hop, Redirect, Follow, ApplyFollow, WriteFollow, ApplyCustom,
                WriteCustom, Goto, Return, SettingLabel, FollowLabel, setting
  <2>2. /\ pc'[g] \notin SettingLabel /\ pc' = [pc EXCEPT ![g] = pc'[g]]
        /\ op' = [op EXCEPT ![g] = op'[g]]
    BY <1>0, <2>1 DEF SettingLabel, FollowLabel
  <2>3. op'[g] # "SetProxy"
    BY <1>0, <2>1 DEF SettingInv
  <2> QED
    BY <2>1, <2>2, <2>3, ElsewhereStep
<1>8. ASSUME NEW g \in Goroutine,
             \/ SetHeadersPanics(g) \/ TransportPanics(g) \/ Respond(g) \/ Fail(g)
             \/ StopRedirect(g)
      PROVE  SettingInv'
  BY <1>8, DoEndsStep DEF SetHeadersPanics, TransportPanics, Respond, Fail,
                          StopRedirect, RequestLabel
<1>9. CASE UNCHANGED vars
  BY <1>9 DEF vars, config, setting, SettingInv
<1> QED
  BY <1>1, <1>2, <1>4, <1>5, <1>6, <1>7, <1>8, <1>9, InsideStep, SetProxyEnds
  DEF Next, Call, Step, Answer

\* SetProxy sets the proxy it is given or leaves the one there was, also when
\* neither can be applied; config and transport are at one when it returns unless
\* applyProxy panicked, and at one again after the next call that returns without
\* error: whatever requests run meanwhile, in any number of goroutines that do not
\* set the proxy at once, for any proxies, failures and panics (client.go 225-245).
THEOREM SetProxyIsAllOrNothing == Spec /\ []SettersAlone => AllOrNothing
<1> DEFINE Ends == \A g \in Goroutine : op[g] = "SetProxy" /\ pc'[g] = "idle" =>
             /\ proxyUrl' \in {target[g], saved[g]}
             /\ result'[g] = "error" => proxyUrl' = saved[g]
             /\ (result'[g] = "ok" \/ ~broken') => transport' = proxyUrl'
<1>1. ASSUME TypeInv, SettingInv, SettersAlone, [Next]_vars
      PROVE  Ends
  <2> SUFFICES ASSUME NEW g \in Goroutine, op[g] = "SetProxy", pc'[g] = "idle"
               PROVE  /\ proxyUrl' \in {target[g], saved[g]}
                      /\ result'[g] = "error" => proxyUrl' = saved[g]
                      /\ (result'[g] = "ok" \/ ~broken') => transport' = proxyUrl'
    OBVIOUS
  <2>0. pc \in [Goroutine -> Label] /\ pc[g] \in SettingLabel
    BY <1>1 DEF TypeInv, TypeOK, SettingInv
  <2>1. pc[g] # pc'[g]
    BY <2>0 DEF SettingLabel
  <2>2. ASSUME NEW h \in Goroutine, Call(h) \/ LockProxy(h) \/ Step(h) \/ Answer(h), h # g
        PROVE  FALSE
    <3>1. \E l \in Label : Goto(h, l)
      <4>1. CASE Elsewhere(h)
        BY <4>1 DEF Elsewhere
      <4>2. CASE FollowStep(h)
        BY <4>2
        DEF FollowStep, SetFollowRedirect, Enter, ApplyFollow, WriteFollow, ApplyCustom,
            WriteCustom, Return, Label
      <4> QED
        BY <2>2, <4>1, <4>2, PolicySteps
    <3> QED
      BY <2>0, <2>1, <2>2, <3>1 DEF Goto
  <2>3. Call(g) \/ LockProxy(g) \/ Step(g) \/ Answer(g)
    BY <1>1, <2>1, <2>2 DEF Next, vars
  <2>4. \/ Install(g) \/ ApplyFails(g) \/ ApplyPanics(g)
        \/ SaveProxy(g) \/ WriteProxy(g) \/ Rollback(g) \/ Apply(g)
    BY <2>0, <2>3
    DEF SettingLabel, Call, SetProxy, DoWithProxy, Do, SetFollowRedirect, Enter,
        LockProxy, Step, Answer, SetHeaders, SetHeadersPanics, Hop, Respond, Fail,
        TransportPanics, Redirect, Follow, StopRedirect, ApplyFollow, WriteFollow,
        ApplyCustom, WriteCustom
  <2>5. ~(SaveProxy(g) \/ WriteProxy(g) \/ Rollback(g) \/ Apply(g))
    BY <2>0 DEF SaveProxy, WriteProxy, Rollback, Apply, Goto
  <2> QED
    BY <1>1, <2>4, <2>5, SetProxyEnds
<1> QED
  BY <1>1, TypeInvariant, SettingInitially, SettingStep, PTL DEF AllOrNothing, Spec

\* One goroutine sets alone.
COROLLARY OneGoroutineSetsAlone ==
  ASSUME \A g, h \in Goroutine : g = h
  PROVE  Spec => AllOrNothing
<1>1. SettersAlone
  BY DEF SettersAlone
<1> QED
  BY <1>1, SetProxyIsAllOrNothing, PTL

-----------------------------------------------------------------------------
(***************************************************************************)
(* DoWithProxy, where nothing else switches the proxy.  Whoever is inside   *)
(* decides alone about config.proxyUrl and c.Transport, so that SettersAlone *)
(* holds and with it SettingInv.  Proxies may be rejected, factories fail    *)
(* and panics end the request.                                              *)
(***************************************************************************)
OnlyDoWithProxy == "SetProxy" \notin Operation

\* What a goroutine's proxies are while it is inside DoWithProxy.
LoanAt(g) ==
  /\ pc[g] \in SettingLabel => stage[g] # "none"
  /\ pc[g] = "lockProxy" => route[g] = {}
  /\ stage[g] = "before" /\ pc[g] \in SettingLabel \cup {"headers"} => route[g] = {}
  /\ stage[g] = "before" /\ pc[g] \in RequestLabel =>
       ~broken /\ transport \in Granted(g) /\ route[g] \subseteq {transport}
  /\ stage[g] = "before" /\ pc[g] = "save" => proxyUrl = outer[g]
  /\ stage[g] = "before" /\ pc[g] \in {"write", "apply", "rollback", "install"} =>
       saved[g] = outer[g]
  /\ stage[g] = "after" => ~broken /\ target[g] = outer[g]
  /\ pc[g] = "rollback" => Rejects(target[g])
  /\ pc[g] = "apply" /\ retrying[g] => Rejects(target[g])
  /\ pc[g] = "install" =>
       /\ broken \/ transport = saved[g]
       /\ Applies(next[g])
       /\ next[g] = target[g] \/ (next[g] = saved[g] /\ Rejects(target[g]))
  /\ stage[g] # "none" /\ ~option.factory => outer[g] \notin Invalid

\* The transport is always one that could be made.  What the config names need
\* not be, where applyProxy panicked for it, but nothing rejects it.
LoanInv ==
  /\ Applies(transport)
  /\ proxyLck = NoOne /\ ~option.factory => proxyUrl \notin Invalid
  /\ broken => option.factory \/ option.nilConnect
  /\ \A g \in Goroutine : LoanAt(g)

\* Only one goroutine is inside DoWithProxy.
LEMMA OneInside ==
  ASSUME TypeInv, NEW g \in Goroutine, NEW h \in Goroutine, stage[g] # "none",
         stage[h] # "none"
  PROVE  g = h
  BY DEF TypeInv, TypeOK

\* So no two goroutines set the proxy at once.
LEMMA InsideAlone ==
  ASSUME TypeInv, LoanInv
  PROVE  SettersAlone
  BY OneInside DEF LoanInv, LoanAt, SettersAlone

\* A step that leaves the proxies alone does not concern the other goroutines.
LEMMA LoanElsewhere ==
  ASSUME LoanInv, NEW g \in Goroutine,
         UNCHANGED <<config, retrying, next>>,
         proxyLck' = NoOne /\ ~option.factory => proxyUrl \notin Invalid,
         \A h \in Goroutine \ {g} :
           /\ pc'[h] = pc[h] /\ stage'[h] = stage[h] /\ route'[h] = route[h]
           /\ saved'[h] = saved[h] /\ target'[h] = target[h] /\ outer'[h] = outer[h],
         LoanAt(g)'
  PROVE  LoanInv'
<1>1. ASSUME NEW h \in Goroutine \ {g}
      PROVE  LoanAt(h)'
  BY <1>1 DEF LoanInv, LoanAt, Granted, Rejects, Applies, config
<1> QED
  BY <1>1 DEF LoanInv, Applies, config

LEMMA DoReturnsLoan ==
  ASSUME TypeInv, LoanInv, NEW g \in Goroutine, NEW r, pc[g] \in RequestLabel,
         DoReturns(g, r),
         UNCHANGED <<config, proxyLck, saved, outer, retrying, next, route>>
  PROVE  LoanInv'
<1>0. /\ pc \in [Goroutine -> Label] /\ target \in [Goroutine -> Proxy]
      /\ stage \in [Goroutine -> {"none", "before", "after"}]
      /\ stage[g] # "after"
  BY DEF TypeInv, TypeOK, StageKnown
<1>1. LoanAt(g) /\ (proxyLck' = NoOne /\ ~option.factory => proxyUrl \notin Invalid)
  BY DEF LoanInv
<1>2. CASE stage[g] = "before"
  <2>1. /\ pc'[g] = "save" /\ stage'[g] = "after" /\ target'[g] = outer[g]
        /\ \A h \in Goroutine \ {g} :
             pc'[h] = pc[h] /\ stage'[h] = stage[h] /\ target'[h] = target[h]
    BY <1>0, <1>2 DEF DoReturns, Goto
  <2>2. LoanAt(g)'
    BY <1>1, <1>2, <2>1 DEF LoanAt, Rejects, SettingLabel, RequestLabel, config
  <2> QED
    BY <1>1, <2>1, <2>2, LoanElsewhere
<1>3. CASE stage[g] = "none"
  <2>1. /\ pc'[g] = "idle" /\ stage'[g] = "none" /\ target' = target
        /\ \A h \in Goroutine \ {g} : pc'[h] = pc[h] /\ stage'[h] = stage[h]
    BY <1>0, <1>3 DEF DoReturns, Return, Goto
  <2>2. LoanAt(g)'
    BY <2>1 DEF LoanAt, SettingLabel
  <2> QED
    BY <1>1, <2>1, <2>2, LoanElsewhere
<1> QED
  BY <1>0, <1>2, <1>3

\* In a request of the borrower, config and transport are at one.
LEMMA AtOneInRequest ==
  ASSUME TypeInv, LoanInv, SettingInv, NEW g \in Goroutine, pc[g] \in RequestLabel,
         stage[g] = "before"
  PROVE  transport = proxyUrl
<1>1. ASSUME NEW h \in Goroutine
      PROVE  pc[h] \notin SettingLabel
  BY <1>1, OneInside DEF LoanInv, LoanAt, SettingLabel, RequestLabel
<1>2. ~broken
  BY DEF LoanInv, LoanAt
<1> QED
  BY <1>1, <1>2 DEF SettingInv

LEMMA DoPanicsLoan ==
  ASSUME TypeInv, LoanInv, SettingInv, NEW g \in Goroutine, pc[g] \in RequestLabel,
         DoPanics(g), UNCHANGED <<config, saved, outer, retrying, next, route>>
  PROVE  LoanInv'
<1>1. CASE option.catchPanics
  BY <1>1, DoReturnsLoan DEF DoPanics
<1>2. CASE ~option.catchPanics
  <2>0. /\ pc \in [Goroutine -> Label]
        /\ stage \in [Goroutine -> {"none", "before", "after"}]
        /\ stage[g] # "after"
    BY DEF TypeInv, TypeOK, StageKnown
  <2>1. /\ pc'[g] = "idle" /\ stage'[g] = "none" /\ target' = target
        /\ \A h \in Goroutine \ {g} : pc'[h] = pc[h] /\ stage'[h] = stage[h]
    BY <1>2, <2>0 DEF DoPanics, Return, Goto
  <2>2. LoanAt(g)'
    BY <2>1 DEF LoanAt, SettingLabel
  <2>3. proxyLck' = NoOne /\ ~option.factory => proxyUrl \notin Invalid
    <3>1. CASE stage[g] = "before"
      BY <3>1, AtOneInRequest DEF LoanInv, Applies
    <3>2. CASE stage[g] = "none"
      BY <1>2, <3>2 DEF DoPanics, LoanInv
    <3> QED
      BY <2>0, <3>1, <3>2
  <2> QED
    BY <2>1, <2>2, <2>3, LoanElsewhere
<1> QED
  BY <1>1, <1>2

\* The end of an attempt to apply, for whom it does not concern.
LEMMA LoanOfOthers ==
  ASSUME TypeInv, LoanInv, NEW g \in Goroutine, NEW h \in Goroutine \ {g},
         stage[g] # "none", pc'[h] = pc[h], stage'[h] = stage[h], route' = route
  PROVE  LoanAt(h)'
<1>1. stage[h] = "none" /\ LoanAt(h)
  BY OneInside DEF LoanInv
<1>2. pc[h] \notin SettingLabel
  BY <1>1 DEF LoanAt
<1> QED
  BY <1>1, <1>2 DEF LoanAt, SettingLabel

\* SetProxy returns to DoWithProxy.
LEMMA SetProxyReturnsLoan ==
  ASSUME TypeInv, LoanInv, SettingInv, NEW g \in Goroutine,
         Install(g) \/ (ApplyFails(g) /\ retrying[g])
  PROVE  LoanInv'
<1>0. /\ pc \in [Goroutine -> Label] /\ target \in [Goroutine -> Proxy]
      /\ stage \in [Goroutine -> {"none", "before", "after"}]
      /\ next \in [Goroutine -> Proxy] /\ retrying \in [Goroutine -> BOOLEAN]
  BY DEF TypeInv, TypeOK
<1>1. LoanAt(g) /\ stage[g] # "none"
  BY DEF LoanInv, LoanAt, Install, ApplyFails, SettingLabel
<1>2. /\ option' = option /\ target' = target /\ saved' = saved /\ outer' = outer
      /\ route' = route /\ proxyUrl' = proxyUrl
  BY DEF Install, ApplyFails, config
<1>3. /\ Applies(transport)'
      /\ broken' => broken
      /\ ~option.factory => Install(g) /\ transport' = proxyUrl
  <2>1. CASE Install(g)
    BY <1>1, <1>2, <2>1 DEF Install, LoanAt, Applies, SettingInv
  <2>2. CASE ApplyFails(g) /\ retrying[g]
    <3>1. pc[g] = "apply" /\ proxyUrl = saved[g] /\ Rejects(proxyUrl)
      BY <2>2 DEF ApplyFails, SettingInv
    <3>2. Applies(transport)
      BY DEF LoanInv
    <3>3. stage[g] = "after" => saved[g] = transport
      BY <1>1, <3>1 DEF LoanAt, SettingInv
    <3>4. ~option.factory => saved[g] \notin Invalid
      BY <1>0, <1>1, <3>1, <3>2, <3>3 DEF LoanAt, Applies
    <3>5. option.factory
      BY <3>1, <3>4 DEF Rejects
    <3> QED
      BY <2>2, <3>2, <3>5 DEF ApplyFails, Applies, config
  <2> QED
    BY <2>1, <2>2
<1>4. \E r \in {"ok", "error"} : SetProxyReturns(g, r) /\ (r = "ok" => Install(g))
  BY DEF Install, ApplyFails
<1>5. /\ \A h \in Goroutine \ {g} : pc'[h] = pc[h] /\ stage'[h] = stage[h]
      /\ \/ stage'[g] = "none" /\ pc'[g] = "idle"
         \/ /\ stage[g] = "before" /\ stage'[g] = "before" /\ pc'[g] = "headers"
            /\ Install(g)
  BY <1>0, <1>1, <1>4 DEF SetProxyReturns, Return, Goto
<1>6. \A h \in Goroutine \ {g} : LoanAt(h)'
  BY <1>1, <1>2, <1>5, LoanOfOthers
<1>7. LoanAt(g)'
  <2>1. CASE stage'[g] = "none" /\ pc'[g] = "idle"
    BY <2>1 DEF LoanAt, SettingLabel
  <2>2. CASE /\ stage[g] = "before" /\ stage'[g] = "before" /\ pc'[g] = "headers"
             /\ Install(g)
    <3>1. /\ transport' = next[g] /\ saved[g] = outer[g] /\ route[g] = {}
          /\ pc[g] = "install" /\ ~broken'
      BY <1>1, <2>2 DEF Install, LoanAt, SettingLabel
    <3>2. next[g] \in Granted(g)
      BY <1>1, <3>1 DEF LoanAt, Granted
    <3>3. transport' \in Granted(g)'
      BY <1>2, <3>1, <3>2 DEF Granted, Applies, Rejects
    <3> QED
      BY <1>1, <1>2, <2>2, <3>1, <3>3 DEF LoanAt, SettingLabel
  <2> QED
    BY <1>5, <2>1, <2>2
<1> QED
  BY <1>2, <1>3, <1>6, <1>7 DEF LoanInv, Applies

\* A panic in applyProxy ends DoWithProxy.
LEMMA ApplyPanicsLoan ==
  ASSUME TypeInv, LoanInv, NEW g \in Goroutine, ApplyPanics(g)
  PROVE  LoanInv'
<1>0. /\ pc \in [Goroutine -> Label]
      /\ stage \in [Goroutine -> {"none", "before", "after"}]
  BY DEF TypeInv, TypeOK
<1>1. stage[g] # "none"
  BY DEF LoanInv, LoanAt, ApplyPanics, SettingLabel
<1>2. /\ pc'[g] = "idle" /\ stage'[g] = "none" /\ route' = route
      /\ \A h \in Goroutine \ {g} : pc'[h] = pc[h] /\ stage'[h] = stage[h]
  BY <1>0 DEF ApplyPanics, Return, Goto
<1>3. \A h \in Goroutine \ {g} : LoanAt(h)'
  BY <1>1, <1>2, LoanOfOthers
<1>4. LoanAt(g)'
  BY <1>2 DEF LoanAt, SettingLabel
<1>5. /\ option' = option /\ transport' = transport /\ proxyUrl' = proxyUrl
      /\ option.factory \/ (option.nilConnect /\ proxyUrl \in WithUser)
  BY DEF ApplyPanics, Panics
<1>6. ~option.factory => proxyUrl \notin Invalid
  BY <1>5, HttpClientAssumption DEF HttpClientAssumption
<1> QED
  BY <1>3, <1>4, <1>5, <1>6 DEF LoanInv, Applies

LEMMA LoanStep ==
  ASSUME OnlyDoWithProxy, TypeInv, LoanInv, SettingInv, [Next]_vars
  PROVE  LoanInv'
<1>0. /\ pc \in [Goroutine -> Label]
      /\ target \in [Goroutine -> Proxy] /\ outer \in [Goroutine -> Proxy]
      /\ saved \in [Goroutine -> Proxy]
      /\ next \in [Goroutine -> Proxy] /\ route \in [Goroutine -> SUBSET Proxy]
      /\ stage \in [Goroutine -> {"none", "before", "after"}]
      /\ retrying \in [Goroutine -> BOOLEAN]
      /\ StageKnown
  BY DEF TypeInv, TypeOK
<1>1. ASSUME NEW g \in Goroutine, NEW p \in Proxy, SetProxy(g, p)
      PROVE  FALSE
  BY <1>1 DEF SetProxy, Enter, OnlyDoWithProxy
\* A call: nothing is lent yet.
<1>2. ASSUME NEW g \in Goroutine, Call(g), ~\E p \in Proxy : SetProxy(g, p)
      PROVE  LoanInv'
  <2>1. /\ pc[g] = "idle" /\ route' = [route EXCEPT ![g] = {}]
        /\ \E l \in {"lockProxy", "headers", "applyFollow"} : Goto(g, l)
        /\ \A h \in Goroutine \ {g} : target'[h] = target[h]
        /\ UNCHANGED <<config, retrying, next, stage, saved, outer, proxyLck>>
    BY <1>0, <1>2 DEF Call, DoWithProxy, Do, SetFollowRedirect, Enter, setting, locks
  <2>2. stage[g] = "none"
    BY <1>0, <2>1 DEF StageKnown, SettingLabel, RequestLabel
  <2>3. /\ pc'[g] \in {"lockProxy", "headers", "applyFollow"} /\ route'[g] = {}
        /\ \A h \in Goroutine \ {g} : pc'[h] = pc[h] /\ route'[h] = route[h]
    BY <1>0, <2>1 DEF Goto
  <2>4. LoanAt(g)'
    BY <2>1, <2>2, <2>3 DEF LoanAt, SettingLabel
  <2> QED
    BY <2>1, <2>3, <2>4, LoanElsewhere DEF LoanInv
<1>3. ASSUME NEW g \in Goroutine, LockProxy(g)
      PROVE  LoanInv'
  <2>1. /\ pc[g] = "lockProxy" /\ proxyLck = NoOne
        /\ pc'[g] = "save" /\ stage'[g] = "before" /\ outer'[g] = proxyUrl
        /\ \A h \in Goroutine \ {g} :
             pc'[h] = pc[h] /\ stage'[h] = stage[h] /\ outer'[h] = outer[h]
        /\ UNCHANGED <<config, retrying, next, saved, target, route>>
    BY <1>0, <1>3 DEF LockProxy, Goto, request
  <2>2. LoanAt(g) /\ (~option.factory => proxyUrl \notin Invalid)
    BY <2>1 DEF LoanInv
  <2>3. LoanAt(g)'
    BY <2>1, <2>2 DEF LoanAt, Rejects, SettingLabel, RequestLabel, config
  <2>4. proxyLck' # NoOne
    BY <1>3, HttpClientAssumption DEF LockProxy, HttpClientAssumption
  <2> QED
    BY <2>1, <2>3, <2>4, LoanElsewhere
\* A step inside SetProxy: everybody else is outside DoWithProxy.
<1>4. ASSUME NEW g \in Goroutine,
             \/ SaveProxy(g) \/ WriteProxy(g) \/ Apply(g) \/ Rollback(g)
             \/ (ApplyFails(g) /\ ~retrying[g])
      PROVE  LoanInv'
  <2>1. pc[g] \in SettingLabel /\ LoanAt(g) /\ stage[g] # "none"
    BY <1>4 DEF SaveProxy, WriteProxy, Apply, Rollback, ApplyFails, SettingLabel,
                LoanInv, LoanAt
  <2>2. ASSUME NEW h \in Goroutine \ {g}
        PROVE  stage[h] = "none" /\ LoanAt(h) /\ pc[h] \notin SettingLabel
    BY <2>1, <2>2, OneInside DEF LoanInv, LoanAt
  <2>3. /\ UNCHANGED <<option, transport, broken, proxyLck, stage, target, outer, route>>
        /\ \E l \in SettingLabel : Goto(g, l)
    BY <1>4 DEF SaveProxy, WriteProxy, Apply, Rollback, ApplyFails, SettingLabel,
                config, setting, request, locks
  <2>4. pc'[g] \in SettingLabel /\ \A h \in Goroutine \ {g} : pc'[h] = pc[h]
    BY <1>0, <2>3 DEF Goto, SettingLabel
  <2>5. ASSUME NEW h \in Goroutine \ {g}
        PROVE  LoanAt(h)'
    BY <2>2, <2>3, <2>4, <2>5 DEF LoanAt, SettingLabel
  <2>6. LoanAt(g)'
    <3>1. CASE SaveProxy(g)
      <4>1. pc[g] = "save" /\ pc'[g] = "write" /\ saved'[g] = proxyUrl
        BY <1>0, <3>1 DEF SaveProxy, Goto
      <4> QED
        BY <2>1, <2>3, <4>1 DEF LoanAt, Rejects, Applies, SettingLabel, RequestLabel
    <3>2. CASE WriteProxy(g)
      <4>1. /\ pc[g] = "write" /\ pc'[g] = "apply" /\ ~retrying[g]
            /\ UNCHANGED <<saved, retrying>>
        BY <1>0, <3>2 DEF WriteProxy, Goto, setting, SettingInv
      <4> QED
        BY <2>1, <2>3, <4>1 DEF LoanAt, Rejects, Applies, SettingLabel, RequestLabel
    <3>3. CASE Apply(g)
      <4>1. /\ pc[g] = "apply" /\ pc'[g] = "install" /\ next'[g] = proxyUrl
            /\ Applies(proxyUrl)
            /\ UNCHANGED saved
        BY <1>0, <3>3 DEF Apply, Goto
      <4>2. /\ broken \/ transport = saved[g]
            /\ proxyUrl = IF retrying[g] THEN saved[g] ELSE target[g]
        BY <4>1 DEF SettingInv
      <4> QED
        BY <2>1, <2>3, <4>1, <4>2 DEF LoanAt, Rejects, Applies, SettingLabel, RequestLabel
    <3>4. CASE Rollback(g)
      <4>1. pc[g] = "rollback" /\ pc'[g] = "apply" /\ saved' = saved
        BY <1>0, <3>4 DEF Rollback, Goto
      <4> QED
        BY <2>1, <2>3, <4>1 DEF LoanAt, Rejects, Applies, SettingLabel, RequestLabel
    <3>5. CASE ApplyFails(g) /\ ~retrying[g]
      <4>1. /\ pc[g] = "apply" /\ pc'[g] = "rollback" /\ saved' = saved
            /\ Rejects(proxyUrl)
        BY <1>0, <3>5 DEF ApplyFails, Goto
      <4>2. proxyUrl = target[g]
        BY <3>5, <4>1 DEF SettingInv
      <4> QED
        BY <2>1, <2>3, <4>1, <4>2 DEF LoanAt, Rejects, Applies, SettingLabel, RequestLabel
    <3> QED
      BY <1>4, <3>1, <3>2, <3>3, <3>4, <3>5
  <2>7. proxyLck' # NoOne
    BY <2>1, <2>3, HttpClientAssumption DEF TypeInv, TypeOK, HttpClientAssumption
  <2> QED
    BY <2>3, <2>5, <2>6, <2>7 DEF LoanInv, Applies
<1>5. ASSUME NEW g \in Goroutine, Install(g) \/ (ApplyFails(g) /\ retrying[g])
      PROVE  LoanInv'
  BY <1>5, SetProxyReturnsLoan
\* A step of a request.
<1>6. ASSUME NEW g \in Goroutine,
             \/ SetHeaders(g) \/ Hop(g) \/ Redirect(g) \/ Follow(g)
             \/ ApplyFollow(g) \/ WriteFollow(g) \/ ApplyCustom(g) \/ WriteCustom(g)
      PROVE  LoanInv'
  <2>1. /\ UNCHANGED <<config, setting, proxyLck>>
        /\ \A h \in Goroutine \ {g} : pc'[h] = pc[h] /\ route'[h] = route[h]
        /\ \/ /\ pc[g] \in RequestLabel /\ pc'[g] \in {"hop", "await", "redirect"}
              /\ route'[g] \in {route[g], route[g] \cup {transport}}
           \/ pc'[g] \in FollowLabel \cup {"idle"} /\ stage[g] = "none"
    BY <1>0, <1>6 DEF SetHeaders, Hop, Redirect, Follow, ApplyFollow, WriteFollow,
                      ApplyCustom, WriteCustom, Goto, Return, RequestLabel, FollowLabel,
                      StageKnown, SettingLabel, config, request, locks
  <2>2. LoanAt(g)
    BY DEF LoanInv
  <2>3. LoanAt(g)'
    BY <2>1, <2>2 DEF LoanAt, Granted, Rejects, Applies, SettingLabel, RequestLabel,
                      FollowLabel, setting, config
  <2> QED
    BY <2>1, <2>3, LoanElsewhere DEF setting, LoanInv
<1>7. ASSUME NEW g \in Goroutine,
             \/ SetHeadersPanics(g) \/ TransportPanics(g) \/ Respond(g) \/ Fail(g)
             \/ StopRedirect(g)
      PROVE  LoanInv'
  BY <1>7, DoReturnsLoan, DoPanicsLoan
  DEF SetHeadersPanics, TransportPanics, Respond, Fail, StopRedirect, RequestLabel, locks
<1>8. CASE UNCHANGED vars
  BY <1>8 DEF vars, config, setting, request, locks, LoanInv, LoanAt, Granted, Rejects,
              Applies
<1> QED
  BY <1>1, <1>2, <1>3, <1>4, <1>5, <1>6, <1>7, <1>8, ApplyPanicsLoan
  DEF Next, Step, Answer, Call

LEMMA LoanInvariant ==
  ASSUME OnlyDoWithProxy
  PROVE  Spec => [](TypeInv /\ LoanInv /\ SettingInv)
<1>1. Init => LoanInv
  BY DEF Init, LoanInv, LoanAt, Applies, SettingLabel, RequestLabel
<1>2. TypeInv /\ TypeInv' /\ LoanInv /\ SettingInv /\ [Next]_vars => LoanInv' /\ SettingInv'
  <2> SUFFICES ASSUME TypeInv, TypeInv', LoanInv, SettingInv, [Next]_vars
               PROVE  LoanInv' /\ SettingInv'
    OBVIOUS
  <2>1. LoanInv'
    BY LoanStep, OnlyDoWithProxy
  <2>2. SettersAlone
    BY InsideAlone
  <2>3. SettersAlone'
    <3>1. ASSUME NEW g \in Goroutine, NEW h \in Goroutine,
                 pc'[g] \in SettingLabel, pc'[h] \in SettingLabel
          PROVE  g = h
      <4>1. stage'[g] # "none" /\ stage'[h] # "none"
        BY <2>1, <3>1 DEF LoanInv, LoanAt
      <4> QED
        BY <4>1 DEF TypeInv, TypeOK
    <3> QED
      BY <3>1 DEF SettersAlone
  <2> QED
    BY <2>1, <2>2, <2>3, SettingStep
<1> QED
  BY <1>1, <1>2, TypeInvariant, SettingInitially, PTL DEF Spec

\* However many goroutines call DoWithProxy and Do, every hop of a DoWithProxy
\* request goes through the proxy it names; where that is rejected, or a factory
\* fails for it, all of them go through the client's own (client.go 423-434).
THEOREM RoutedThroughItsProxy ==
  ASSUME OnlyDoWithProxy
  PROVE  Spec => []RoutedAsAsked
<1>1. ASSUME TypeInv, LoanInv
      PROVE  RoutedAsAsked
  <2> SUFFICES ASSUME NEW g \in Goroutine, stage[g] = "before", route[g] # {}
               PROVE  \E p \in Granted(g) : route[g] = {p}
    BY DEF RoutedAsAsked
  <2>1. LoanAt(g)
    BY <1>1 DEF LoanInv
  <2>2. pc[g] \in RequestLabel
    BY <1>1, <2>1 DEF TypeInv, StageKnown, LoanAt
  <2> QED
    BY <2>1, <2>2 DEF LoanAt
<1> QED
  BY <1>1, LoanInvariant, OnlyDoWithProxy, PTL

-----------------------------------------------------------------------------
(***************************************************************************)
(* The client implements ProxyLoan.  The steps of SetProxy but the last are  *)
(* invisible there, and so are those of a request but its hops and its end.  *)
(* InsidePhase and OutsidePhase read the mapping.                            *)
(***************************************************************************)
\* The mapping, where somebody is inside DoWithProxy and where nobody is.
LEMMA InsidePhase ==
  ASSUME TypeInv, NEW g \in Goroutine, stage[g] # "none"
  PROVE  /\ proxyLck = g /\ proxyLck # NoOne
         /\ LoanPhase = IF stage[g] = "after" THEN "returning"
                        ELSE IF pc[g] \in RequestLabel THEN "lent" ELSE "asked"
         /\ Owned = outer[g]
         /\ AskedFor = IF stage[g] = "after" THEN NoProxy ELSE target[g]
  BY HttpClientAssumption
  DEF TypeInv, TypeOK, LoanPhase, Owned, AskedFor, RequestLabel, HttpClientAssumption

LEMMA OutsidePhase ==
  ASSUME TypeInv, proxyLck = NoOne
  PROVE  /\ LoanPhase = "free" /\ Owned = proxyUrl /\ AskedFor = NoProxy
         /\ \A g \in Goroutine : stage[g] = "none"
  BY HttpClientAssumption
  DEF TypeInv, TypeOK, LoanPhase, Owned, AskedFor, HttpClientAssumption

LEMMA InsideNext ==
  ASSUME TypeInv', NEW g \in Goroutine, stage'[g] # "none"
  PROVE  /\ proxyLck' = g
         /\ LoanPhase' = IF stage'[g] = "after" THEN "returning"
                         ELSE IF pc'[g] \in RequestLabel THEN "lent" ELSE "asked"
         /\ Owned' = outer'[g]
         /\ AskedFor' = IF stage'[g] = "after" THEN NoProxy ELSE target'[g]
  BY HttpClientAssumption
  DEF TypeInv, TypeOK, LoanPhase, Owned, AskedFor, RequestLabel, HttpClientAssumption

LEMMA OutsideNext ==
  ASSUME TypeInv', proxyLck' = NoOne
  PROVE  /\ LoanPhase' = "free" /\ Owned' = proxyUrl' /\ AskedFor' = NoProxy
         /\ \A g \in Goroutine : stage'[g] = "none"
  BY HttpClientAssumption
  DEF TypeInv, TypeOK, LoanPhase, Owned, AskedFor, HttpClientAssumption

\* A step that tells nothing of the loan.
LEMMA LoanStays ==
  ASSUME TypeInv, TypeInv', proxyLck' = proxyLck,
         proxyLck = NoOne => proxyUrl' = proxyUrl,
         \A g \in Goroutine : stage[g] # "none" =>
           /\ stage'[g] = stage[g] /\ outer'[g] = outer[g] /\ target'[g] = target[g]
           /\ pc'[g] \in RequestLabel <=> pc[g] \in RequestLabel
  PROVE  Owned' = Owned /\ AskedFor' = AskedFor /\ LoanPhase' = LoanPhase
<1>1. CASE proxyLck = NoOne
  BY <1>1 DEF Owned, AskedFor, LoanPhase
<1>2. CASE proxyLck # NoOne
  <2>1. proxyLck \in Goroutine /\ stage[proxyLck] # "none"
    BY <1>2 DEF TypeInv, TypeOK
  <2> QED
    BY <1>2, <2>1 DEF Owned, AskedFor, LoanPhase, RequestLabel
<1> QED
  BY <1>1, <1>2

LEMMA Unseen ==
  ASSUME UNCHANGED <<option, transport, proxyLck, route>>,
         Owned' = Owned, AskedFor' = AskedFor, LoanPhase' = LoanPhase
  PROVE  UNCHANGED Loan!vars
  BY DEF Loan!vars

\* The end of a request ends the borrower's turn, or nobody's.
LEMMA DoReturnsImplements ==
  ASSUME TypeInv, TypeInv', NEW g \in Goroutine, NEW r, pc[g] \in RequestLabel,
         DoReturns(g, r),
         UNCHANGED <<config, proxyLck, saved, outer, retrying, next, route>>
  PROVE  [Loan!Next]_Loan!vars
<1>0. /\ pc \in [Goroutine -> Label] /\ target \in [Goroutine -> Proxy]
      /\ stage \in [Goroutine -> {"none", "before", "after"}]
      /\ stage[g] # "after"
  BY DEF TypeInv, TypeOK, StageKnown
<1>1. CASE stage[g] = "before"
  <2>1. stage'[g] = "after"
    BY <1>0, <1>1 DEF DoReturns
  <2>2. /\ LoanPhase = "lent" /\ LoanPhase' = "returning"
        /\ Owned' = Owned /\ AskedFor' = NoProxy
    BY <1>1, <2>1, InsidePhase, InsideNext
  <2>3. Loan!Finish
    BY <2>2 DEF Loan!Finish, config
  <2> QED
    BY <2>3 DEF Loan!Next
<1>2. CASE stage[g] = "none"
  <2>1. /\ stage' = stage /\ target' = target
        /\ \A h \in Goroutine \ {g} : pc'[h] = pc[h]
    BY <1>0, <1>2 DEF DoReturns, Return, Goto
  <2>2. Owned' = Owned /\ AskedFor' = AskedFor /\ LoanPhase' = LoanPhase
    BY <1>2, <2>1, LoanStays DEF config
  <2> QED
    BY <2>2, Unseen DEF config
<1> QED
  BY <1>0, <1>1, <1>2

LEMMA DoPanicsImplements ==
  ASSUME TypeInv, TypeInv', LoanInv, SettingInv, NEW g \in Goroutine,
         pc[g] \in RequestLabel, DoPanics(g),
         UNCHANGED <<config, saved, outer, retrying, next, route>>
  PROVE  [Loan!Next]_Loan!vars
<1>0. /\ pc \in [Goroutine -> Label]
      /\ stage \in [Goroutine -> {"none", "before", "after"}]
      /\ stage[g] # "after"
  BY DEF TypeInv, TypeOK, StageKnown
<1>1. CASE option.catchPanics
  BY <1>1, DoReturnsImplements DEF DoPanics
<1>2. CASE ~option.catchPanics /\ stage[g] = "before"
  <2>1. proxyLck' = NoOne
    BY <1>2 DEF DoPanics
  <2>2. LoanPhase = "lent"
    BY <1>2, InsidePhase
  <2>3. LoanPhase' = "free" /\ Owned' = proxyUrl' /\ AskedFor' = NoProxy
    BY <2>1, OutsideNext
  <2>4. transport = proxyUrl
    BY <1>2, AtOneInRequest
  <2>5. Loan!Abandon
    BY <1>2, <2>1, <2>2, <2>3, <2>4 DEF Loan!Abandon, Loan!Free, config
  <2> QED
    BY <2>5 DEF Loan!Next
<1>3. CASE ~option.catchPanics /\ stage[g] = "none"
  <2>1. /\ proxyLck' = proxyLck /\ target' = target
        /\ \A h \in Goroutine \ {g} : pc'[h] = pc[h] /\ stage'[h] = stage[h]
    BY <1>0, <1>3 DEF DoPanics, Return, Goto
  <2>2. Owned' = Owned /\ AskedFor' = AskedFor /\ LoanPhase' = LoanPhase
    BY <1>3, <2>1, LoanStays DEF config
  <2> QED
    BY <2>1, <2>2, Unseen DEF config
<1> QED
  BY <1>0, <1>1, <1>2, <1>3

\* The last step of SetProxy is the one that shows.
LEMMA SetProxyImplements ==
  ASSUME TypeInv, TypeInv', LoanInv, SettingInv, NEW g \in Goroutine,
         Install(g) \/ ApplyPanics(g) \/ (ApplyFails(g) /\ retrying[g])
  PROVE  [Loan!Next]_Loan!vars
<1>0. /\ pc \in [Goroutine -> Label] /\ target \in [Goroutine -> Proxy]
      /\ stage \in [Goroutine -> {"none", "before", "after"}]
      /\ retrying \in [Goroutine -> BOOLEAN]
  BY DEF TypeInv, TypeOK
<1>1. LoanAt(g) /\ stage[g] # "none" /\ pc[g] \in SettingLabel
  BY DEF LoanInv, LoanAt, Install, ApplyFails, ApplyPanics, SettingLabel
<1>2. /\ option' = option /\ target' = target /\ outer' = outer /\ route' = route
      /\ proxyUrl' = proxyUrl
  BY DEF Install, ApplyFails, ApplyPanics, config
<1>3. /\ pc[g] \notin RequestLabel /\ Owned = outer[g] /\ proxyLck = g
      /\ LoanPhase = IF stage[g] = "after" THEN "returning" ELSE "asked"
      /\ stage[g] # "after" => AskedFor = target[g]
  BY <1>1, InsidePhase DEF SettingLabel, RequestLabel
\* What the transport is before and after.
<1>4. CASE Install(g)
  <2>1. /\ transport' = next[g] /\ pc[g] = "install" /\ SetProxyReturns(g, "ok")
        /\ next[g] = proxyUrl
    BY <1>4 DEF Install, SettingInv
  <2>2. CASE stage[g] = "before"
    <3>1. stage'[g] = "before" /\ pc'[g] = "headers"
      BY <1>0, <2>1, <2>2 DEF SetProxyReturns, Goto
    <3>2. /\ LoanPhase' = "lent" /\ Owned' = Owned /\ AskedFor' = AskedFor
          /\ proxyLck' = proxyLck
      BY <1>2, <1>3, <2>2, <3>1, InsideNext DEF RequestLabel
    <3>3. transport' \in Loan!Granted(AskedFor)
      BY <1>1, <1>3, <2>1, <2>2 DEF Loan!Granted, Loan!Rejects, Loan!Applies, Rejects, Applies, LoanAt
    <3>4. Loan!Lend
      BY <1>2, <1>3, <2>2, <3>2, <3>3 DEF Loan!Lend
    <3> QED
      BY <3>4 DEF Loan!Next
  <2>3. CASE stage[g] = "after"
    <3>1. proxyLck' = NoOne
      BY <2>1, <2>3 DEF SetProxyReturns
    <3>2. LoanPhase' = "free" /\ Owned' = proxyUrl' /\ AskedFor' = NoProxy
      BY <3>1, OutsideNext
    <3>3. Owned' \in {p \in {Owned} : Loan!Applies(p)} \cup {p \in {transport} : option.factory}
      BY <1>1, <1>2, <1>3, <2>1, <2>3, <3>2 DEF LoanAt, Loan!Applies, Applies, Rejects
    <3>4. Loan!Return
      BY <1>2, <1>3, <2>1, <2>3, <3>1, <3>2, <3>3 DEF Loan!Return, Loan!Free
    <3> QED
      BY <3>4 DEF Loan!Next
  <2> QED
    BY <1>0, <1>1, <2>2, <2>3
<1>5. CASE ApplyFails(g) /\ retrying[g]
  <2>1. /\ pc[g] = "apply" /\ SetProxyReturns(g, "error") /\ transport' = transport
        /\ Rejects(proxyUrl) /\ proxyUrl = saved[g]
        /\ broken \/ transport = saved[g]
    BY <1>5 DEF ApplyFails, SettingInv, config
  <2>2. option.factory
    BY <1>0, <1>1, <2>1 DEF LoanInv, LoanAt, Rejects, Applies
  <2>3. proxyLck' = NoOne
    BY <1>0, <1>1, <2>1 DEF SetProxyReturns
  <2>4. LoanPhase' = "free" /\ Owned' = proxyUrl' /\ AskedFor' = NoProxy
    BY <2>3, OutsideNext
  <2>5. CASE stage[g] = "before"
    <3>1. saved[g] = outer[g]
      BY <1>1, <2>1, <2>5 DEF LoanAt
    <3>2. Loan!Refuse
      BY <1>2, <1>3, <2>1, <2>2, <2>3, <2>4, <2>5, <3>1 DEF Loan!Refuse, Loan!Free
    <3> QED
      BY <3>2 DEF Loan!Next
  <2>6. CASE stage[g] = "after"
    <3>1. transport = saved[g]
      BY <1>1, <2>1, <2>6 DEF LoanAt
    <3>2. Loan!Return
      BY <1>2, <1>3, <2>1, <2>2, <2>3, <2>4, <2>6, <3>1 DEF Loan!Return, Loan!Free
    <3> QED
      BY <3>2 DEF Loan!Next
  <2> QED
    BY <1>0, <1>1, <2>5, <2>6
<1>6. CASE ApplyPanics(g)
  <2>1. /\ pc[g] = "apply" /\ transport' = transport /\ proxyLck' = NoOne
        /\ option.factory \/ (option.nilConnect /\ proxyUrl \in WithUser)
        /\ proxyUrl = IF retrying[g] THEN saved[g] ELSE target[g]
        /\ broken \/ transport = saved[g]
        /\ retrying[g] => option.factory \/ target[g] \in Invalid
    BY <1>1, <1>6 DEF ApplyPanics, Panics, Rejects, SettingInv, LoanAt
  <2>2. LoanPhase' = "free" /\ Owned' = proxyUrl' /\ AskedFor' = NoProxy
    BY <2>1, OutsideNext
  <2>3. Loan!Panics(Owned')
    BY <1>2, <2>1, <2>2 DEF Loan!Panics
  <2>4. CASE stage[g] = "before"
    <3>1. saved[g] = outer[g]
      BY <1>1, <2>1, <2>4 DEF LoanAt
    <3>2. \/ Owned' = AskedFor
          \/ Owned' = Owned /\ Loan!Rejects(AskedFor)
      BY <1>0, <1>2, <1>3, <2>1, <2>2, <2>4, <3>1 DEF Loan!Rejects
    <3>3. Loan!Break
      BY <1>2, <1>3, <2>1, <2>2, <2>3, <2>4, <3>2 DEF Loan!Break, Loan!Free
    <3> QED
      BY <3>3 DEF Loan!Next
  <2>5. CASE stage[g] = "after"
    <3>1. target[g] = outer[g] /\ saved[g] = transport
      BY <1>1, <2>1, <2>5 DEF LoanAt
    <3>2. \/ Owned' = Owned
          \/ Owned' = transport /\ Loan!Rejects(Owned)
      BY <1>0, <1>2, <1>3, <2>1, <2>2, <3>1 DEF Loan!Rejects
    <3>3. Loan!Break
      BY <1>2, <1>3, <2>1, <2>2, <2>3, <2>5, <3>2 DEF Loan!Break, Loan!Free
    <3> QED
      BY <3>3 DEF Loan!Next
  <2> QED
    BY <1>0, <1>1, <2>4, <2>5
<1> QED
  BY <1>4, <1>5, <1>6

LEMMA LoanStepImplements ==
  ASSUME OnlyDoWithProxy, TypeInv, TypeInv', LoanInv, SettingInv, [Next]_vars
  PROVE  [Loan!Next]_Loan!vars
<1>0. /\ pc \in [Goroutine -> Label]
      /\ target \in [Goroutine -> Proxy] /\ outer \in [Goroutine -> Proxy]
      /\ stage \in [Goroutine -> {"none", "before", "after"}]
      /\ route \in [Goroutine -> SUBSET Proxy]
      /\ StageKnown
  BY DEF TypeInv, TypeOK
<1>1. ASSUME NEW g \in Goroutine, NEW p \in Proxy, SetProxy(g, p)
      PROVE  FALSE
  BY <1>1 DEF SetProxy, Enter, OnlyDoWithProxy
<1>2. ASSUME NEW g \in Goroutine, Call(g), ~\E p \in Proxy : SetProxy(g, p)
      PROVE  [Loan!Next]_Loan!vars
  <2>1. /\ pc[g] = "idle" /\ route' = [route EXCEPT ![g] = {}]
        /\ \E l \in Label : Goto(g, l)
        /\ \A h \in Goroutine \ {g} : target'[h] = target[h]
        /\ UNCHANGED <<config, proxyLck, stage, outer>>
    BY <1>0, <1>2 DEF Call, DoWithProxy, Do, SetFollowRedirect, Enter, setting, locks,
                      Label
  <2>2. stage[g] = "none"
    BY <1>0, <2>1 DEF StageKnown, SettingLabel, RequestLabel
  <2>3. proxyLck # g
    BY <2>2 DEF TypeInv, TypeOK
  <2>4. \A h \in Goroutine \ {g} : pc'[h] = pc[h]
    BY <1>0, <2>1 DEF Goto
  <2>5. Owned' = Owned /\ AskedFor' = AskedFor /\ LoanPhase' = LoanPhase
    BY <2>1, <2>2, <2>4, LoanStays DEF config
  <2>6. Loan!Call(g)
    BY <2>1, <2>3, <2>5 DEF Loan!Call, config
  <2> QED
    BY <2>6 DEF Loan!Next
<1>3. ASSUME NEW g \in Goroutine, LockProxy(g)
      PROVE  [Loan!Next]_Loan!vars
  <2>1. /\ pc[g] = "lockProxy" /\ proxyLck = NoOne /\ proxyLck' = g
        /\ pc'[g] = "save" /\ stage'[g] = "before" /\ outer'[g] = proxyUrl
        /\ UNCHANGED <<config, target, route>>
    BY <1>0, <1>3 DEF LockProxy, Goto, request
  <2>2. LoanPhase = "free" /\ Owned = proxyUrl
    BY <2>1, OutsidePhase
  <2>3. LoanPhase' = "asked" /\ Owned' = proxyUrl /\ AskedFor' = target[g]
    BY <2>1, InsidePhase, InsideNext DEF RequestLabel
  <2>4. route[g] = {}
    BY <2>1 DEF LoanInv, LoanAt
  <2>5. Loan!Borrow(g, target[g])
    BY <2>1, <2>2, <2>3, <2>4 DEF Loan!Borrow, config
  <2> QED
    BY <1>0, <2>5 DEF Loan!Next
<1>4. ASSUME NEW g \in Goroutine,
             \/ SaveProxy(g) \/ WriteProxy(g) \/ Apply(g) \/ Rollback(g)
             \/ (ApplyFails(g) /\ ~retrying[g])
      PROVE  [Loan!Next]_Loan!vars
  <2>1. pc[g] \in SettingLabel /\ stage[g] # "none"
    BY <1>4 DEF SaveProxy, WriteProxy, Apply, Rollback, ApplyFails, SettingLabel,
                LoanInv, LoanAt
  <2>2. /\ UNCHANGED <<option, transport, proxyLck, stage, target, outer, route>>
        /\ \E l \in SettingLabel : Goto(g, l)
    BY <1>4 DEF SaveProxy, WriteProxy, Apply, Rollback, ApplyFails, SettingLabel,
                config, setting, request, locks
  <2>3. pc'[g] \in SettingLabel /\ \A h \in Goroutine \ {g} : pc'[h] = pc[h]
    BY <1>0, <2>2 DEF Goto, SettingLabel
  <2>4. proxyLck # NoOne
    BY <2>1, InsidePhase
  <2>5. Owned' = Owned /\ AskedFor' = AskedFor /\ LoanPhase' = LoanPhase
    BY <2>1, <2>2, <2>3, <2>4, LoanStays DEF SettingLabel, RequestLabel
  <2> QED
    BY <2>2, <2>5, Unseen
<1>5. ASSUME NEW g \in Goroutine,
             Install(g) \/ ApplyPanics(g) \/ (ApplyFails(g) /\ retrying[g])
      PROVE  [Loan!Next]_Loan!vars
  BY <1>5, SetProxyImplements
<1>6. ASSUME NEW g \in Goroutine,
             \/ SetHeaders(g) \/ Hop(g) \/ Redirect(g) \/ Follow(g)
             \/ ApplyFollow(g) \/ WriteFollow(g) \/ ApplyCustom(g) \/ WriteCustom(g)
      PROVE  [Loan!Next]_Loan!vars
  <2>1. /\ UNCHANGED <<config, setting, proxyLck>>
        /\ \A h \in Goroutine \ {g} : pc'[h] = pc[h]
        /\ \/ pc[g] \in RequestLabel /\ pc'[g] \in RequestLabel
           \/ stage[g] = "none"
    BY <1>0, <1>6 DEF SetHeaders, Hop, Redirect, Follow, ApplyFollow, WriteFollow,
                      ApplyCustom, WriteCustom, Goto, Return, RequestLabel, StageKnown,
                      SettingLabel, config, locks
  <2>2. Owned' = Owned /\ AskedFor' = AskedFor /\ LoanPhase' = LoanPhase
    BY <2>1, LoanStays DEF config, setting
  <2>3. CASE Hop(g)
    <3>1. g = proxyLck => LoanPhase = "lent"
      BY <1>0, <2>3, InsidePhase DEF Hop, TypeInv, TypeOK, StageKnown, RequestLabel
    <3>2. Loan!Hop(g)
      BY <2>1, <2>2, <2>3, <3>1 DEF Loan!Hop, Hop, config
    <3> QED
      BY <3>2 DEF Loan!Next
  <2>4. CASE ~Hop(g)
    <3>1. route' = route
      BY <1>6, <2>4 DEF SetHeaders, Redirect, Follow, ApplyFollow, WriteFollow, ApplyCustom,
                        WriteCustom, request
    <3> QED
      BY <2>1, <2>2, <3>1, Unseen DEF config
  <2> QED
    BY <2>3, <2>4
<1>7. ASSUME NEW g \in Goroutine,
             \/ SetHeadersPanics(g) \/ TransportPanics(g) \/ Respond(g) \/ Fail(g)
             \/ StopRedirect(g)
      PROVE  [Loan!Next]_Loan!vars
  BY <1>7, DoReturnsImplements, DoPanicsImplements
  DEF SetHeadersPanics, TransportPanics, Respond, Fail, StopRedirect, RequestLabel,
      locks
<1>8. CASE UNCHANGED vars
  BY <1>8, Unseen
  DEF vars, config, setting, request, locks, Owned, AskedFor, LoanPhase
<1> QED
  BY <1>1, <1>2, <1>3, <1>4, <1>5, <1>6, <1>7, <1>8 DEF Next, Step, Answer, Call

\* However calls of Do and DoWithProxy interleave, proxies are rejected,
\* factories fail and panics end requests or SetProxy itself, the switch of the
\* proxy and its restoration are atomic to everybody, one loan at a time:
\* DoWithProxy, with its two calls of SetProxy, does what ProxyLoan says
\* (client.go 230-281, 423-434).
THEOREM ClientImplementsLoan ==
  ASSUME OnlyDoWithProxy
  PROVE  Spec => ImplementsLoan
<1>1. ASSUME Init
      PROVE  Loan!Init
  <2>1. proxyLck = NoOne /\ LoanPhase = "free" /\ Owned = proxyUrl /\ AskedFor = NoProxy
    BY <1>1 DEF Init, LoanPhase, Owned, AskedFor
  <2> QED
    BY <1>1, <2>1 DEF Init, Loan!Init, Loan!Applies, Applies
<1>2. ASSUME TypeInv, TypeInv', LoanInv, SettingInv, [Next]_vars
      PROVE  [Loan!Next]_Loan!vars
  BY <1>2, LoanStepImplements, OnlyDoWithProxy
<1> QED
  BY <1>1, <1>2, LoanInvariant, OnlyDoWithProxy, PTL DEF Spec, ImplementsLoan, Loan!Spec

\* DoWithProxy leaves the client with the proxy it found; only where a factory
\* fails or a panic is not recovered may it leave another, in the config and the
\* transport alike; and only a panic inside applyProxy, which takes a factory or
\* nil connect headers, leaves one in the config and another in the transport.
THEOREM ProxyComesBack ==
  ASSUME OnlyDoWithProxy
  PROVE  Spec => ProxyRestored
<1> DEFINE Restored == \A g \in Goroutine :
             stage[g] # "none" /\ stage'[g] = "none" =>
               /\ ~broken' =>
                    /\ transport' = proxyUrl'
                    /\ ~option.factory /\ option.catchPanics => proxyUrl' = outer[g]
               /\ broken' => option.factory \/ option.nilConnect
<1>1. ASSUME TypeInv, TypeInv', LoanInv, SettingInv, SettingInv', LoanInv',
             [Loan!Next]_Loan!vars, [Next]_vars
      PROVE  Restored
  <2> SUFFICES ASSUME NEW g \in Goroutine, stage[g] # "none", stage'[g] = "none"
               PROVE  /\ ~broken' =>
                           /\ transport' = proxyUrl'
                           /\ ~option.factory /\ option.catchPanics => proxyUrl' = outer[g]
                      /\ broken' => option.factory \/ option.nilConnect
    OBVIOUS
  <2>1. /\ proxyLck = g /\ proxyLck # NoOne /\ proxyLck' # g
        /\ LoanPhase \in {"asked", "lent", "returning"} /\ Owned = outer[g]
    BY <1>1, InsidePhase DEF TypeInv, TypeOK
  <2>2. Loan!Return \/ Loan!Refuse \/ Loan!Abandon \/ Loan!Break
    BY <1>1, <2>1 DEF Loan!Next, Loan!vars, Loan!Call, Loan!Hop, Loan!Borrow, Loan!Lend,
                      Loan!Finish
  <2>3. proxyLck' = NoOne /\ option' = option
    BY <2>2 DEF Loan!Return, Loan!Refuse, Loan!Abandon, Loan!Break, Loan!Free
  <2>4. Owned' = proxyUrl' /\ \A h \in Goroutine : stage'[h] = "none"
    BY <1>1, <2>3, OutsideNext
  <2>5. ~broken' => transport' = proxyUrl'
    BY <1>1, <2>4 DEF LoanInv, LoanAt, SettingInv
  <2>6. ~broken' /\ ~option.factory /\ option.catchPanics => Owned' = Owned
    <3>1. CASE Loan!Break
      <4>1. option.factory \/ (option.nilConnect /\ Owned' \in WithUser)
        BY <3>1 DEF Loan!Break, Loan!Panics
      <4>2. Applies(transport)'
        BY <1>1 DEF LoanInv
      <4> QED
        BY <2>3, <2>4, <2>5, <4>1, <4>2 DEF Applies
    <3>2. CASE ~Loan!Break
      BY <2>2, <3>2 DEF Loan!Return, Loan!Refuse, Loan!Abandon
    <3> QED
      BY <3>1, <3>2
  <2>7. broken' => option.factory \/ option.nilConnect
    BY <1>1, <2>3 DEF LoanInv
  <2> QED
    BY <2>1, <2>4, <2>5, <2>6, <2>7
<1>2. Spec => [][Restored]_vars
  BY <1>1, LoanStepImplements, LoanInvariant, OnlyDoWithProxy, PTL DEF Spec
<1> QED
  BY <1>2, PTL DEF ProxyRestored

=============================================================================
