------------------------------- MODULE SignIn -------------------------------
(***************************************************************************)
(* The two ways into the console (src/src/routes/auth.ts): through IAM     *)
(* (src/src/auth/oidc.ts) while the health probe of server.ts says that it *)
(* answers, and by break-glass (src/src/auth/break-glass.ts, totp.ts)      *)
(* while it says that it does not.                                         *)
(*                                                                         *)
(* What a browser holds are two signed cookies: its session, and the flow  *)
(* it began and has not finished.  The process holds the last probe, the   *)
(* highest code spent, the discovery document, and two copies of the       *)
(* break-glass record: the one RepositoryState reloads and the one the     *)
(* console was built with.  HMAC, SHA-256 and scrypt are taken as sound,   *)
(* and the codes of different steps as different.                          *)
(***************************************************************************)
EXTENDS Integers

CONSTANTS
  Browser,
  Account,          \* accounts at IAM
  Record,           \* break-glass records: a password and a TOTP secret each
  None, Broken,     \* no record, no cookie; a record that does not parse
  FlowTTL,          \* steps a flow cookie lives
  SessionTTL,       \* steps a session lives
  MaxClock,         \* bound: steps of 30 seconds
  MaxFlows,         \* bound: sign-ins begun through IAM
  MaxChanges        \* bound: edits of the record, turns of IAM, restarts

ASSUME SignInAssumption ==
  /\ FlowTTL \in Nat /\ SessionTTL \in Nat
  /\ MaxClock \in Nat \ {0} /\ MaxFlows \in Nat /\ MaxChanges \in Nat
  /\ None \notin Record \cup Account /\ Broken \notin Record /\ None # Broken

VARIABLES
  clock,            \* TOTP steps since the start
  up,               \* whether IAM answers
  reachable,        \* what the last probe said
  discovered,       \* the discovery document has been fetched
  file,             \* the break-glass record in the repository
  built,            \* the record BreakGlass was built with, for the life of the process
  spent,            \* lastUsedCounter, -1 before the first
  screen,           \* screen[b]: where b has been sent
  flow,             \* flow[b]: the flow cookie
  session,          \* session[b]: the session cookie
  call,             \* call[b]: the sign-in the server is at for b
  flows,            \* flows begun, each a state, a nonce and a verifier
  links,            \* the redirects IAM has answered with
  changes,          \* number of changes made from outside
  wins              \* history: the codes that let somebody in, by life of the process

process == <<reachable, discovered, built, spent, call>>
browser == <<screen, flow, session>>
iam     == <<flows, links>>
vars == <<clock, up, file, changes, wins, process, browser, iam>>

Idle == [stage |-> "idle"]

(* breakGlassRecord() once the boot has loaded the file: a record that does*)
(* not parse is none.                                                      *)
Loaded == IF file = Broken THEN None ELSE file

-----------------------------------------------------------------------------
(* Time, the repository and IAM.                                           *)

Tick ==
  /\ clock < MaxClock
  /\ clock' = clock + 1
  /\ UNCHANGED <<up, file, changes, wins, process, browser, iam>>

Change == changes < MaxChanges /\ changes' = changes + 1

Turn ==
  /\ Change
  /\ up' = ~ up
  /\ UNCHANGED <<clock, file, wins, process, browser, iam>>

Edit ==
  /\ Change
  /\ file' \in (Record \cup {None, Broken}) \ {file}
  /\ UNCHANGED <<clock, up, wins, process, browser, iam>>

(* The probe's timer.                                                      *)
Probe ==
  /\ reachable # up
  /\ reachable' = up
  /\ UNCHANGED <<clock, up, file, changes, wins, discovered, built, spent, call,
                 browser, iam>>

(* All that the process held is gone; cookies and IAM are elsewhere.  The  *)
(* boot reloads and probes before it builds the console.                   *)
Restart ==
  /\ Change
  /\ reachable' = up
  /\ discovered' = FALSE
  /\ built' = Loaded
  /\ spent' = -1
  /\ call' = [b \in Browser |-> Idle]
  /\ wins' = {}
  /\ UNCHANGED <<clock, up, file, browser, iam>>

-----------------------------------------------------------------------------
(* The guard.                                                              *)

(* SessionCodec.verify.                                                    *)
Verified(b) == session[b] # None /\ clock < session[b].expires

Signed(who, via) == [who |-> who, via |-> via, expires |-> clock + SessionTTL]

(* The hook before every handler, and /login: into the console, to IAM, or *)
(* to the page with the break-glass form, which is there while the probe   *)
(* says that IAM is away.                                                  *)
Visit(b) ==
  /\ call[b] = Idle
  /\ screen' = [screen EXCEPT ![b] = IF Verified(b) THEN "console"
                                     ELSE IF reachable THEN "iam" ELSE "form"]
  /\ screen' # screen
  /\ UNCHANGED <<clock, up, file, changes, wins, process, flow, session, iam>>

Logout(b) ==
  /\ session[b] # None
  /\ session' = [session EXCEPT ![b] = None]
  /\ UNCHANGED <<clock, up, file, changes, wins, process, screen, flow, iam>>

-----------------------------------------------------------------------------
(* Through IAM.                                                            *)

(* State, nonce and verifier, new for each flow; and the same for all.     *)
MintOnce == 1
Mint == flows + 1

(* /login/iam: the discovery document is fetched once; without it the      *)
(* request fails and sets no cookie.                                       *)
StartIam(b) ==
  /\ screen[b] = "iam" /\ call[b] = Idle
  /\ flows < MaxFlows
  /\ up \/ discovered
  /\ discovered' = TRUE
  /\ flows' = flows + 1
  /\ flow' = [flow EXCEPT ![b] = [id |-> Mint, expires |-> clock + FlowTTL]]
  /\ screen' = [screen EXCEPT ![b] = "away"]
  /\ UNCHANGED <<clock, up, file, changes, wins, reachable, built, spent, call, session,
                 links>>

(* IAM answers a sign-in with a redirect to the callback: the state it was *)
(* given and a code for the account, bound to challenge and nonce.         *)
Authorize(b) ==
  /\ up /\ screen[b] = "away" /\ flow[b] # None
  /\ \E a \in Account : links' = links \cup {[flow |-> flow[b].id, by |-> b, who |-> a]}
  /\ UNCHANGED <<clock, up, file, changes, wins, process, browser, flows>>

(* The callback, with a link that may be old or begun elsewhere: it must   *)
(* be of the flow in the cookie.                                           *)
Belongs(b, link) == flow[b] # None /\ clock < flow[b].expires /\ link.flow = flow[b].id

Callback(b) ==
  /\ call[b] = Idle
  /\ \E link \in links :
       /\ Belongs(b, link)
       /\ call' = [call EXCEPT ![b] = [stage |-> "exchanging", link |-> link, flow |-> flow[b].id]]
  /\ UNCHANGED <<clock, up, file, changes, wins, reachable, discovered, built, spent,
                 browser, iam>>

(* The exchange is awaited; IAM checks the verifier of the flow, and       *)
(* validate() its nonce.  The answer clears the flow cookie, whichever     *)
(* flow it is for by then.                                                 *)
Exchange(b) ==
  /\ call[b].stage = "exchanging"
  /\ up /\ call[b].link.flow = call[b].flow
  /\ session' = [session EXCEPT ![b] = Signed(call[b].link.who, "iam")]
  /\ flow' = [flow EXCEPT ![b] = None]
  /\ screen' = [screen EXCEPT ![b] = "console"]
  /\ call' = [call EXCEPT ![b] = Idle]
  /\ links' = links \ {call[b].link}
  /\ discovered' = TRUE
  /\ UNCHANGED <<clock, up, file, changes, wins, reachable, built, spent, flows>>

(* IAM is away again, or refuses.                                          *)
ExchangeFails(b) ==
  /\ call[b].stage = "exchanging"
  /\ call' = [call EXCEPT ![b] = Idle]
  /\ discovered' \in {discovered, discovered \/ up}
  /\ UNCHANGED <<clock, up, file, changes, wins, reachable, built, spent, browser, iam>>

-----------------------------------------------------------------------------
(* Break-glass.                                                            *)

(* A post of the form: a password and the code of a step, of some record.  *)
(* The clock is read and the probe consulted first; scrypt is awaited.     *)
Attempt(b) ==
  /\ screen[b] = "form" /\ call[b] = Idle
  /\ ~ reachable /\ built # None
  /\ \E r \in Record, step \in 0..(clock + 1) :
       call' = [call EXCEPT ![b] =
         [stage |-> "hashing", now |-> clock, record |-> r, step |-> step]]
  /\ UNCHANGED <<clock, up, file, changes, wins, reachable, discovered, built, spent,
                 browser, iam>>

(* The step of a code and the one before; and a window open both ways.     *)
WindowBothWays(now) == {now - 1, now, now + 1}
Window(now) == {now, now - 1}

(* Codes above the last one spent; and from the last one on.               *)
UnspentFrom(step) == step >= spent
Unspent(step) == step > spent

Right(a) ==
  /\ a.record = built
  /\ a.step \in Window(a.now) /\ Unspent(a.step)

Granted(b) ==
  /\ call[b].stage = "hashing"
  /\ Right(call[b])
  /\ spent' = call[b].step
  /\ wins' = wins \cup {call[b].step}
  /\ session' = [session EXCEPT ![b] = Signed(built, "break-glass")]
  /\ screen' = [screen EXCEPT ![b] = "console"]
  /\ call' = [call EXCEPT ![b] = Idle]
  /\ UNCHANGED <<clock, up, file, changes, reachable, discovered, built, flow, iam>>

Denied(b) ==
  /\ call[b].stage = "hashing"
  /\ ~ Right(call[b])
  /\ call' = [call EXCEPT ![b] = Idle]
  /\ UNCHANGED <<clock, up, file, changes, wins, reachable, discovered, built, spent,
                 browser, iam>>

-----------------------------------------------------------------------------
Init ==
  /\ clock = 1 /\ up \in BOOLEAN /\ file \in Record
  /\ reachable = up /\ discovered = FALSE
  /\ built = file /\ spent = -1
  /\ screen = [b \in Browser |-> "none"]
  /\ flow = [b \in Browser |-> None]
  /\ session = [b \in Browser |-> None]
  /\ call = [b \in Browser |-> Idle]
  /\ flows = 0 /\ links = {} /\ changes = 0 /\ wins = {}

Next ==
  \/ Tick \/ Turn \/ Edit \/ Probe \/ Restart
  \/ \E b \in Browser :
       \/ Visit(b) \/ Logout(b) \/ StartIam(b) \/ Authorize(b) \/ Callback(b) \/ Exchange(b)
       \/ ExchangeFails(b) \/ Attempt(b) \/ Granted(b) \/ Denied(b)

Spec == Init /\ [][Next]_vars

-----------------------------------------------------------------------------
TypeOK ==
  /\ clock \in 1..MaxClock /\ changes \in 0..MaxChanges /\ flows \in 0..MaxFlows
  /\ {up, reachable, discovered} \subseteq BOOLEAN
  /\ file \in Record \cup {None, Broken}
  /\ built \in Record \cup {None}
  /\ spent \in {-1} \cup 0..clock
  /\ \A b \in Browser :
       /\ screen[b] \in {"none", "console", "iam", "form", "away"}
       /\ flow[b] # None => flow[b].id \in 1..flows
       /\ session[b] # None =>
            /\ session[b].expires \in 1..(clock + SessionTTL)
            /\ session[b].via = "iam" => session[b].who \in Account
            /\ session[b].via # "iam" => session[b].who \in Record
       /\ call[b].stage \in {"idle", "exchanging", "hashing"}
  /\ wins \subseteq 0..clock

(* A one-time code lets somebody in once in the life of the process, also  *)
(* when two posts of it wait for scrypt at once.                           *)
SpentOnce ==
  [][\A b \in Browser :
       call[b].stage = "hashing" /\ session'[b] # session[b] /\ session'[b] # None =>
         call[b].step \notin wins]_vars

(* A session through IAM is for an account that was authenticated there    *)
(* from that browser, whatever links reach the callback, from other tabs   *)
(* or other browsers.                                                      *)
SignedInAsOneself ==
  [][\A b \in Browser :
       session'[b] # session[b] /\ session'[b] # None /\ session'[b].via = "iam" =>
         \E link \in links : link.by = b /\ link.who = session'[b].who]_vars

=============================================================================
