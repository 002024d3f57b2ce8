---------------------------- MODULE SignInProofs ----------------------------
(***************************************************************************)
(* Theorems about SignIn, for any number of browsers, accounts and records,*)
(* and any length of time.                                                 *)
(***************************************************************************)
EXTENDS SignIn, TLAPS

-----------------------------------------------------------------------------
(* The inductive invariant.                                                *)

Functions ==
  /\ DOMAIN screen = Browser /\ DOMAIN flow = Browser
  /\ DOMAIN session = Browser /\ DOMAIN call = Browser

(* An attempt that waits for scrypt, and a callback that waits for IAM.    *)
CallInv ==
  \A b \in Browser :
    /\ call[b].stage = "hashing" =>
         /\ call[b].now \in 1..clock
         /\ call[b].record \in Record /\ call[b].step \in Int
    /\ call[b].stage = "exchanging" =>
         /\ call[b].link \in links
         /\ call[b].link.by = b
         /\ call[b].link.who \in Account

(* No code above the last one spent has let anybody in.                    *)
SpentInv == \A step \in wins : step <= spent

(* A state is that of one browser's flow, in its cookie as in its links.   *)
FlowInv ==
  /\ \A b, q \in Browser :
       flow[b] # None /\ flow[q] # None /\ flow[b].id = flow[q].id => b = q
  /\ \A link \in links :
       /\ link.who \in Account
       /\ link.flow \in 1..flows
       /\ \A b \in Browser : flow[b] # None /\ flow[b].id = link.flow => link.by = b

Inv == TypeOK /\ Functions /\ CallInv /\ SpentInv /\ FlowInv
USE SignInAssumption DEF process, browser, iam

-----------------------------------------------------------------------------
(* The invariant holds at first, and every step preserves it.              *)

(* The console starts with nobody signed in and no flow begun.             *)
LEMMA InitInv == Init => Inv
<1>. SUFFICES ASSUME Init PROVE Inv
  OBVIOUS
<1>1. TypeOK
  <2>1. /\ clock \in 1..MaxClock /\ changes \in 0..MaxChanges /\ flows \in 0..MaxFlows
    BY DEF Init, Idle
  <2>2. /\ {up, reachable, discovered} \subseteq BOOLEAN
       /\ file \in Record \cup {None, Broken} /\ built \in Record \cup {None}
    BY DEF Init, Idle
  <2>3. spent \in {-1} \cup 0..clock
    BY DEF Init
  <2>4. wins \subseteq 0..clock
    BY DEF Init
  <2>5. ASSUME NEW q \in Browser
       PROVE  /\ screen[q] \in {"none", "console", "iam", "form", "away"}
              /\ call[q].stage \in {"idle", "exchanging", "hashing"}
    BY DEF Init, Idle
  <2>6. ASSUME NEW q \in Browser
       PROVE  /\ flow[q] # None => flow[q].id \in 1..flows
              /\ session[q] # None =>
                   /\ session[q].expires \in 1..(clock + SessionTTL)
                   /\ session[q].via = "iam" => session[q].who \in Account
                   /\ session[q].via # "iam" => session[q].who \in Record
    BY DEF Init, Idle
  <2>. QED
    BY <2>1, <2>2, <2>3, <2>4, <2>5, <2>6 DEF TypeOK
<1>2. Functions /\ CallInv /\ SpentInv /\ FlowInv
  BY DEF Init, Functions, CallInv, SpentInv, FlowInv, Idle
<1>. QED
  BY <1>1, <1>2 DEF Inv

(* Time passes and takes nothing back.                                     *)
LEMMA TickStep == Inv /\ Tick => Inv'
  BY DEF Tick, Inv, TypeOK, Functions, CallInv, SpentInv, FlowInv

(* The identity provider comes and goes.                                   *)
LEMMA TurnStep == Inv /\ Turn => Inv'
  BY DEF Turn, Change, Inv, TypeOK, Functions, CallInv, SpentInv, FlowInv

(* The record in the repository changes; the console keeps its own.        *)
LEMMA EditStep == Inv /\ Edit => Inv'
  BY DEF Edit, Change, Inv, TypeOK, Functions, CallInv, SpentInv, FlowInv

(* The probe learns whether IAM answers.                                   *)
LEMMA ProbeStep == Inv /\ Probe => Inv'
  BY DEF Probe, Inv, TypeOK, Functions, CallInv, SpentInv, FlowInv

(* A restart ends every attempt and callback, and forgets what was spent.  *)
LEMMA RestartStep ==
  ASSUME Inv, Restart
  PROVE  Inv'
<1>1. TypeOK'
  <2>1. /\ clock' \in 1..MaxClock /\ changes' \in 0..MaxChanges /\ flows' \in 0..MaxFlows
    BY DEF Restart, Change, Loaded, Idle, Inv, TypeOK
  <2>2. /\ {up, reachable, discovered}' \subseteq BOOLEAN
       /\ file' \in Record \cup {None, Broken} /\ built' \in Record \cup {None}
    BY DEF Restart, Change, Loaded, Idle, Inv, TypeOK
  <2>3. spent' \in {-1} \cup 0..clock'
    BY DEF Restart
  <2>4. wins' \subseteq 0..clock'
    BY DEF Restart
  <2>5. ASSUME NEW q \in Browser
       PROVE  /\ screen'[q] \in {"none", "console", "iam", "form", "away"}
              /\ call'[q].stage \in {"idle", "exchanging", "hashing"}
    BY DEF Restart, Change, Loaded, Idle, Inv, TypeOK
  <2>6. ASSUME NEW q \in Browser
       PROVE  /\ flow'[q] # None => flow'[q].id \in 1..flows'
              /\ session'[q] # None =>
                   /\ session'[q].expires \in 1..(clock' + SessionTTL)
                   /\ session'[q].via = "iam" => session'[q].who \in Account
                   /\ session'[q].via # "iam" => session'[q].who \in Record
    BY DEF Restart, Change, Loaded, Idle, Inv, TypeOK
  <2>. QED
    BY <2>1, <2>2, <2>3, <2>4, <2>5, <2>6 DEF TypeOK
<1>2. Functions' /\ CallInv' /\ SpentInv'
  BY DEF Restart, Idle, Inv, Functions, CallInv, SpentInv
<1>3. FlowInv'
  BY DEF Restart, Inv, FlowInv
<1>. QED
  BY <1>1, <1>2, <1>3 DEF Inv

(* Being sent somewhere changes no cookie.                                 *)
LEMMA VisitStep ==
  ASSUME NEW b \in Browser, Inv, Visit(b)
  PROVE  Inv'
<1>1. TypeOK'
  BY DEF Visit, Inv, TypeOK, Functions, CallInv, SpentInv, FlowInv
<1>2. Functions'
  BY DEF Visit, Inv, Functions
<1>3. CallInv'
  BY DEF Visit, Inv, TypeOK, Functions, CallInv, FlowInv
<1>4. SpentInv'
  BY DEF Visit, Inv, TypeOK, SpentInv
<1>5. FlowInv'
  BY DEF Visit, Inv, TypeOK, Functions, CallInv, FlowInv
<1>. QED
  BY <1>1, <1>2, <1>3, <1>4, <1>5 DEF Inv

(* A session ends.                                                         *)
LEMMA LogoutStep ==
  ASSUME NEW b \in Browser, Inv, Logout(b)
  PROVE  Inv'
<1>1. TypeOK'
  BY DEF Logout, Inv, TypeOK, Functions, CallInv, SpentInv, FlowInv
<1>2. Functions'
  BY DEF Logout, Inv, Functions
<1>3. CallInv'
  BY DEF Logout, Inv, TypeOK, Functions, CallInv, FlowInv
<1>4. SpentInv'
  BY DEF Logout, Inv, TypeOK, SpentInv
<1>5. FlowInv'
  BY DEF Logout, Inv, TypeOK, Functions, CallInv, FlowInv
<1>. QED
  BY <1>1, <1>2, <1>3, <1>4, <1>5 DEF Inv

(* A flow begins with a state that no cookie and no link has.              *)
LEMMA StartIamStep ==
  ASSUME NEW b \in Browser, Inv, StartIam(b)
  PROVE  Inv'
<1>1. TypeOK'
  BY DEF StartIam, Mint, Inv, TypeOK, Functions, CallInv, SpentInv, FlowInv
<1>2. Functions'
  BY DEF StartIam, Mint, Inv, Functions
<1>3. CallInv'
  BY DEF StartIam, Mint, Inv, TypeOK, Functions, CallInv, FlowInv
<1>4. SpentInv'
  BY DEF StartIam, Mint, Inv, TypeOK, SpentInv
<1>5. FlowInv'
  BY DEF StartIam, Mint, Inv, TypeOK, Functions, CallInv, FlowInv
<1>. QED
  BY <1>1, <1>2, <1>3, <1>4, <1>5 DEF Inv

(* The link IAM answers with is of the flow the browser holds.             *)
LEMMA AuthorizeStep ==
  ASSUME NEW b \in Browser, Inv, Authorize(b)
  PROVE  Inv'
<1>1. TypeOK'
  BY DEF Authorize, Inv, TypeOK, Functions, CallInv, SpentInv, FlowInv
<1>2. Functions'
  BY DEF Authorize, Inv, Functions
<1>3. CallInv'
  BY DEF Authorize, Inv, TypeOK, Functions, CallInv, FlowInv
<1>4. SpentInv'
  BY DEF Authorize, Inv, TypeOK, SpentInv
<1>5. FlowInv'
  BY DEF Authorize, Inv, TypeOK, Functions, CallInv, FlowInv
<1>. QED
  BY <1>1, <1>2, <1>3, <1>4, <1>5 DEF Inv

(* A callback goes on only with a link of its own browser.                 *)
LEMMA CallbackStep ==
  ASSUME NEW b \in Browser, Inv, Callback(b)
  PROVE  Inv'
<1>1. TypeOK'
  BY DEF Callback, Belongs, Inv, TypeOK, Functions, CallInv, SpentInv, FlowInv
<1>2. Functions'
  BY DEF Callback, Belongs, Inv, Functions
<1>3. CallInv'
  BY DEF Callback, Belongs, Inv, TypeOK, Functions, CallInv, FlowInv
<1>4. SpentInv'
  BY DEF Callback, Belongs, Inv, TypeOK, SpentInv
<1>5. FlowInv'
  BY DEF Callback, Belongs, Inv, TypeOK, Functions, CallInv, FlowInv
<1>. QED
  BY <1>1, <1>2, <1>3, <1>4, <1>5 DEF Inv

(* The link that is used up is no other browser's.                         *)
LEMMA ExchangeStep ==
  ASSUME NEW b \in Browser, Inv, Exchange(b)
  PROVE  Inv'
<1>1. TypeOK'
  BY DEF Exchange, Signed, Idle, Inv, TypeOK, Functions, CallInv, SpentInv, FlowInv
<1>2. Functions'
  BY DEF Exchange, Signed, Idle, Inv, Functions
<1>3. CallInv'
  BY DEF Exchange, Signed, Idle, Inv, TypeOK, Functions, CallInv, FlowInv
<1>4. SpentInv'
  BY DEF Exchange, Signed, Idle, Inv, TypeOK, SpentInv
<1>5. FlowInv'
  BY DEF Exchange, Signed, Idle, Inv, TypeOK, Functions, CallInv, FlowInv
<1>. QED
  BY <1>1, <1>2, <1>3, <1>4, <1>5 DEF Inv

(* A callback that fails leaves the cookies alone.                         *)
LEMMA ExchangeFailsStep ==
  ASSUME NEW b \in Browser, Inv, ExchangeFails(b)
  PROVE  Inv'
<1>1. TypeOK'
  BY DEF ExchangeFails, Idle, Inv, TypeOK, Functions, CallInv, SpentInv, FlowInv
<1>2. Functions'
  BY DEF ExchangeFails, Idle, Inv, Functions
<1>3. CallInv'
  BY DEF ExchangeFails, Idle, Inv, TypeOK, Functions, CallInv, FlowInv
<1>4. SpentInv'
  BY DEF ExchangeFails, Idle, Inv, TypeOK, SpentInv
<1>5. FlowInv'
  BY DEF ExchangeFails, Idle, Inv, TypeOK, Functions, CallInv, FlowInv
<1>. QED
  BY <1>1, <1>2, <1>3, <1>4, <1>5 DEF Inv

(* An attempt has read the clock, and waits.                               *)
LEMMA AttemptStep ==
  ASSUME NEW b \in Browser, Inv, Attempt(b)
  PROVE  Inv'
<1>1. TypeOK'
  BY DEF Attempt, Inv, TypeOK, Functions, CallInv, SpentInv, FlowInv
<1>2. Functions'
  BY DEF Attempt, Inv, Functions
<1>3. CallInv'
  BY DEF Attempt, Inv, TypeOK, Functions, CallInv, FlowInv
<1>4. SpentInv'
  BY DEF Attempt, Inv, TypeOK, SpentInv
<1>5. FlowInv'
  BY DEF Attempt, Inv, TypeOK, Functions, CallInv, FlowInv
<1>. QED
  BY <1>1, <1>2, <1>3, <1>4, <1>5 DEF Inv

(* The code spent is above all those spent before.                         *)
LEMMA GrantedStep ==
  ASSUME NEW b \in Browser, Inv, Granted(b)
  PROVE  Inv'
<1>1. TypeOK'
  <2>1. /\ clock' \in 1..MaxClock /\ changes' \in 0..MaxChanges /\ flows' \in 0..MaxFlows
    BY DEF Granted, Right, Signed, Idle, Inv, TypeOK
  <2>2. /\ {up, reachable, discovered}' \subseteq BOOLEAN
       /\ file' \in Record \cup {None, Broken} /\ built' \in Record \cup {None}
    BY DEF Granted, Right, Signed, Idle, Inv, TypeOK
  <2>3. spent' \in {-1} \cup 0..clock'
    <3>1. /\ call[b].now \in 1..clock /\ call[b].step \in Int
         /\ clock \in Int /\ clock' = clock
      BY DEF Granted, Inv, CallInv, TypeOK
    <3>2. spent' = call[b].step /\ call[b].step \in {call[b].now, call[b].now - 1}
      BY DEF Granted, Right, Window
    <3>. QED
      BY <3>1, <3>2
  <2>4. wins' \subseteq 0..clock'
    <3>1. ASSUME NEW step \in wins' PROVE step \in 0..clock'
      <4>1. CASE step \in wins
        BY <4>1 DEF Granted, Inv, TypeOK
      <4>2. CASE step = spent'
        BY <2>3, <4>2 DEF Granted, Right, Unspent, Inv, CallInv, TypeOK
      <4>. QED
        BY <4>1, <4>2 DEF Granted
    <3>. QED
      BY <3>1
  <2>5. ASSUME NEW q \in Browser
       PROVE  /\ screen'[q] \in {"none", "console", "iam", "form", "away"}
              /\ call'[q].stage \in {"idle", "exchanging", "hashing"}
    BY DEF Granted, Right, Signed, Idle, Inv, TypeOK, Functions
  <2>6. ASSUME NEW q \in Browser
       PROVE  /\ flow'[q] # None => flow'[q].id \in 1..flows'
              /\ session'[q] # None =>
                   /\ session'[q].expires \in 1..(clock' + SessionTTL)
                   /\ session'[q].via = "iam" => session'[q].who \in Account
                   /\ session'[q].via # "iam" => session'[q].who \in Record
    BY DEF Granted, Right, Signed, Idle, Inv, TypeOK, Functions, CallInv
  <2>. QED
    BY <2>1, <2>2, <2>3, <2>4, <2>5, <2>6 DEF TypeOK
<1>2. Functions'
  BY DEF Granted, Right, Window, Unspent, Signed, Idle, Inv, Functions
<1>3. CallInv'
  BY DEF Granted, Right, Window, Unspent, Signed, Idle, Inv, TypeOK, Functions, CallInv, FlowInv
<1>4. SpentInv'
  BY DEF Granted, Right, Window, Unspent, Signed, Idle, Inv, TypeOK, CallInv, SpentInv
<1>5. FlowInv'
  BY DEF Granted, Right, Window, Unspent, Signed, Idle, Inv, TypeOK, Functions, CallInv, FlowInv
<1>. QED
  BY <1>1, <1>2, <1>3, <1>4, <1>5 DEF Inv

(* An attempt that fails spends nothing.                                   *)
LEMMA DeniedStep ==
  ASSUME NEW b \in Browser, Inv, Denied(b)
  PROVE  Inv'
<1>1. TypeOK'
  BY DEF Denied, Idle, Inv, TypeOK, Functions, CallInv, SpentInv, FlowInv
<1>2. Functions'
  BY DEF Denied, Idle, Inv, Functions
<1>3. CallInv'
  BY DEF Denied, Idle, Inv, TypeOK, Functions, CallInv, FlowInv
<1>4. SpentInv'
  BY DEF Denied, Idle, Inv, TypeOK, SpentInv
<1>5. FlowInv'
  BY DEF Denied, Idle, Inv, TypeOK, Functions, CallInv, FlowInv
<1>. QED
  BY <1>1, <1>2, <1>3, <1>4, <1>5 DEF Inv

(* Every step of the console, its browsers and IAM preserves the           *)
(* invariant.                                                              *)
LEMMA NextInv == Inv /\ [Next]_vars => Inv'
<1>. SUFFICES ASSUME Inv, [Next]_vars PROVE Inv'
  OBVIOUS
<1>1. CASE Tick \/ Turn \/ Edit \/ Probe \/ Restart
  BY <1>1, TickStep, TurnStep, EditStep, ProbeStep, RestartStep
<1>2. CASE \E b \in Browser : Visit(b) \/ Logout(b)
  BY <1>2, VisitStep, LogoutStep
<1>3. CASE \E b \in Browser :
             \/ StartIam(b) \/ Authorize(b) \/ Callback(b)
             \/ Exchange(b) \/ ExchangeFails(b)
  BY <1>3, StartIamStep, AuthorizeStep, CallbackStep, ExchangeStep, ExchangeFailsStep
<1>4. CASE \E b \in Browser : Attempt(b) \/ Granted(b) \/ Denied(b)
  BY <1>4, AttemptStep, GrantedStep, DeniedStep
<1>5. CASE UNCHANGED vars
  BY <1>5 DEF vars, Inv, TypeOK, Functions, CallInv, SpentInv, FlowInv
<1>. QED
  BY <1>1, <1>2, <1>3, <1>4, <1>5 DEF Next

-----------------------------------------------------------------------------
(* The theorems.                                                           *)

(* The invariant holds in every reachable state of the console.            *)
THEOREM Invariance == Spec => []Inv
<1>. QED
  BY InitInv, NextInv, PTL DEF Spec

(* Cookies, attempts and the record in use always have the shape they      *)
(* should.                                                                 *)
THEOREM TypeCorrect == Spec => []TypeOK
<1>1. Inv => TypeOK
  BY DEF Inv
<1>. QED
  BY <1>1, Invariance, PTL

(* BreakGlass.attempt never accepts one code twice between two restarts,   *)
(* however many attempts wait for scrypt: whoever is let in has spent a    *)
(* code above all those that let anybody in before.                        *)
THEOREM CodesAreSpentOnce == Spec => SpentOnce
<1>1. ASSUME Inv, [Next]_vars, NEW b \in Browser,
             call[b].stage = "hashing", session'[b] # session[b], session'[b] # None
      PROVE  call[b].step \notin wins
  <2>1. CASE Granted(b)
    BY <1>1, <2>1 DEF Granted, Right, Unspent, Inv, SpentInv, CallInv, TypeOK
  <2>2. CASE ~ Granted(b)
    <3>1. CASE \E q \in Browser : Granted(q)
      BY <1>1, <2>2, <3>1, ZenonT(30) DEF Granted, Inv, Functions
    <3>2. CASE \E q \in Browser : Exchange(q)
      BY <1>1, <3>2 DEF Exchange, Inv, Functions
    <3>3. CASE \E q \in Browser : Logout(q)
      BY <1>1, <3>3 DEF Logout, Inv, Functions
    <3>4. CASE UNCHANGED session
      BY <1>1, <3>4
    <3>5. [Next]_vars => \/ \E q \in Browser : Granted(q) \/ Exchange(q) \/ Logout(q)
                        \/ UNCHANGED session
      BY DEF Next, vars, Tick, Turn, Edit, Change, Probe, Restart, Visit, StartIam,
             Authorize, Callback, ExchangeFails, Attempt, Denied
    <3>. QED
      BY <1>1, <3>1, <3>2, <3>3, <3>4, <3>5
  <2>. QED
    BY <2>1, <2>2
<1>2. Inv /\ [Next]_vars =>
        [\A b \in Browser :
           call[b].stage = "hashing" /\ session'[b] # session[b] /\ session'[b] # None =>
             call[b].step \notin wins]_vars
  BY <1>1
<1>. QED
  BY <1>2, Invariance, PTL DEF Spec, SpentOnce

(* The callback of routes/auth.ts opens a session only for an account      *)
(* that was authenticated at IAM from the same browser, whichever links    *)
(* reach it.                                                               *)
THEOREM SessionsAreOnesOwn == Spec => SignedInAsOneself
<1>1. ASSUME Inv, [Next]_vars, NEW b \in Browser,
             session'[b] # session[b], session'[b] # None, session'[b].via = "iam"
      PROVE  \E link \in links : link.by = b /\ link.who = session'[b].who
  <2>1. CASE Exchange(b)
    BY <1>1, <2>1 DEF Exchange, Signed, Inv, CallInv, Functions
  <2>3. CASE \E q \in Browser : Exchange(q) /\ q # b
    BY <1>1, <2>3 DEF Exchange, Inv, Functions
  <2>4. CASE \E q \in Browser : Granted(q)
    BY <1>1, <2>4 DEF Granted, Signed, Inv, Functions
  <2>5. CASE \E q \in Browser : Logout(q)
    BY <1>1, <2>5 DEF Logout, Inv, Functions
  <2>6. CASE UNCHANGED session
    BY <1>1, <2>6
  <2>2. [Next]_vars => \/ \E q \in Browser : Granted(q) \/ Exchange(q) \/ Logout(q)
                      \/ UNCHANGED session
    BY DEF Next, vars, Tick, Turn, Edit, Change, Probe, Restart, Visit, StartIam,
           Authorize, Callback, ExchangeFails, Attempt, Denied
  <2>. QED
    BY <1>1, <2>1, <2>3, <2>4, <2>5, <2>6, <2>2
<1>2. Inv /\ [Next]_vars =>
        [\A b \in Browser :
           session'[b] # session[b] /\ session'[b] # None /\ session'[b].via = "iam" =>
             \E link \in links : link.by = b /\ link.who = session'[b].who]_vars
  BY <1>1
<1>. QED
  BY <1>2, Invariance, PTL DEF Spec, SignedInAsOneself
=============================================================================
