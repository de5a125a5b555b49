---------------------------- MODULE VKAuthProofs ----------------------------
(***************************************************************************)
(* Proofs about VKAuth, for every number of credentials, attempts and      *)
(* captchas and every length of the pipe: the types and limits, the        *)
(* lockout, the answers that end a fetch, and the solver that gets the     *)
(* answer to its own request.                                              *)
(***************************************************************************)
EXTENDS VKAuth, SequenceTheorems, TLAPS

\* Once a solver found the exchange at rest nothing in it is for an older
\* request, until a solver asks again.  OwnAnswer is about the last place such
\* an answer can reach.
NothingOld ==
    quiet => /\ \A i \in DOMAIN pipe : pipe[i] # "old"
             /\ serving # "old"
             /\ channel # <<>> => channel[1].owner # "old"
             /\ taken # "old"

\* The server has a request exactly when it is not idle: what it sends belongs
\* to one.
ServerHasRequest == serverPc = "idle" <=> serving = "none"

\* Where the fetch is: the part of its state that Return, Failed and At set.
Position ==
    /\ pc \in Locations /\ step \in 1..5
    /\ attempt \in 0..(AttemptLimit - 1) /\ tries \in 0..CaptchaLimit
    /\ IsChain(chain)
    /\ pc \in {"solving", "webview", "breather"} => chain # <<>>
    /\ outcome \in {"none", "ok", "call", "flood", "wait", "other", "cancelled"}

\* A solver is called only with a captcha to spare: the token is asked for at
\* most CaptchaLimit times after a captcha.
CaptchaToSpare == pc \in {"solving", "webview", "breather"} => tries < CaptchaLimit

FetchInv ==
    /\ Position
    /\ cancelled \in BOOLEAN /\ lockout \in BOOLEAN
    /\ final \in {"none", "call", "flood"}
    /\ CaptchaToSpare
    /\ SilentInLockout
    /\ FinalIsFinal

ExchangeTypes ==
    /\ quiet \in BOOLEAN
    /\ pipe \in Seq(Owners) /\ Len(pipe) <= MaxWaiting
    /\ serving \in Owners \cup {"none"} /\ taken \in Owners \cup {"none"}
    /\ serverPc \in {"idle", "polling", "sending"}
    /\ {resultFile, app} \subseteq {"none", "served", "other"}
    /\ channel \in Seq([owner : Owners, value : {"token", "error"}]) /\ Len(channel) <= 1

ExchangeInv == ExchangeTypes /\ ServerHasRequest /\ NothingOld

Inv == FetchInv /\ ExchangeInv

-----------------------------------------------------------------------------
\* Lemmas about the solvers

\* The list of the automatic mode, position by position.
LEMMA AutoList ==
    /\ Solvers.auto \in Seq({"v2", "web"}) /\ Len(Solvers.auto) = 5
    /\ Solvers.auto[1] = "v2" /\ Solvers.auto[2] = "web" /\ Solvers.auto[3] = "web"
    /\ Solvers.auto[4] = "v2" /\ Solvers.auto[5] = "web"
  BY DEF Solvers

\* Every mode starts with a solver, and no solver left is an end of the list
\* too.
LEMMA ChainStarts ==
    /\ IsChain(<<>>)
    /\ \A m \in DOMAIN Solvers : IsChain(Solvers[m]) /\ Solvers[m] # <<>>
  <1>1. SubSeq(Solvers.auto, 6, 5) = <<>>
    BY AutoList
  <1>2. SubSeq(Solvers.auto, 1, 5) = <<"v2", "web", "web", "v2", "web">>
    <2> DEFINE s == SubSeq(Solvers.auto, 1, 5)
               u == <<"v2", "web", "web", "v2", "web">>
    <2>1. s \in Seq({"v2", "web"}) /\ Len(s) = 5 /\ \A i \in 1..5 : s[i] = Solvers.auto[0 + i]
      BY AutoList
    <2>2. u \in Seq({"v2", "web"}) /\ Len(u) = 5 /\ \A i \in 1..5 : u[i] = Solvers.auto[0 + i]
      BY AutoList
    <2> HIDE DEF s, u
    <2>3. s = u
      BY <2>1, <2>2, SeqEqual, SMTT(30)
    <2> QED
      BY <2>3 DEF s, u
  <1>3. SubSeq(Solvers.auto, 4, 5) = <<"v2", "web">>
    <2> DEFINE s == SubSeq(Solvers.auto, 4, 5)
               u == <<"v2", "web">>
    <2>1. s \in Seq({"v2", "web"}) /\ Len(s) = 2 /\ \A i \in 1..2 : s[i] = Solvers.auto[3 + i]
      BY AutoList
    <2>2. u \in Seq({"v2", "web"}) /\ Len(u) = 2 /\ \A i \in 1..2 : u[i] = Solvers.auto[3 + i]
      BY AutoList
    <2> HIDE DEF s, u
    <2>3. s = u
      BY <2>1, <2>2, SeqEqual
    <2> QED
      BY <2>3 DEF s, u
  <1>4. SubSeq(Solvers.auto, 5, 5) = <<"web">>
    <2> DEFINE s == SubSeq(Solvers.auto, 5, 5)
               u == <<"web">>
    <2>1. s \in Seq({"v2", "web"}) /\ Len(s) = 1 /\ \A i \in 1..1 : s[i] = Solvers.auto[4 + i]
      BY AutoList
    <2>2. u \in Seq({"v2", "web"}) /\ Len(u) = 1 /\ \A i \in 1..1 : u[i] = Solvers.auto[4 + i]
      BY AutoList
    <2> HIDE DEF s, u
    <2>3. s = u
      BY <2>1, <2>2, SeqEqual
    <2> QED
      BY <2>3 DEF s, u
  <1>5. 1 \in 1..6 /\ 4 \in 1..6 /\ 5 \in 1..6 /\ 6 \in 1..6
    OBVIOUS
  <1>6. IsChain(<<"v2", "web", "web", "v2", "web">>) /\ IsChain(<<"v2", "web">>)
        /\ IsChain(<<"web">>) /\ IsChain(<<>>)
    BY <1>1, <1>2, <1>3, <1>4, <1>5, Zenon DEF IsChain
  <1> QED
    BY <1>6 DEF Solvers

\* A solver that fails leaves an end of the list, empty only after the last
\* WebView: the automatic solver is never the last.
LEMMA ChainTail ==
    ASSUME NEW c, IsChain(c), c # <<>>
    PROVE  /\ IsChain(Tail(c))
           /\ Len(c) # 1 \/ Head(c) = "v2" => Tail(c) # <<>>
  <1>1. PICK n \in 1..6 : c = SubSeq(Solvers.auto, n, 5)
    BY DEF IsChain
  <1>2. n \in 1..5
    BY <1>1, AutoList
  <1>3. c \in Seq({"v2", "web"}) /\ Len(c) = 6 - n
        /\ \A i \in 1..(6 - n) : c[i] = Solvers.auto[n + i - 1]
    BY <1>1, <1>2, AutoList, SMTT(30)
  <1>4. Tail(c) = SubSeq(Solvers.auto, n + 1, 5)
    <2>1. Len(Tail(c)) = 5 - n /\ Tail(c) \in Seq({"v2", "web"})
          /\ \A i \in 1..(5 - n) : Tail(c)[i] = Solvers.auto[n + i]
      BY <1>2, <1>3
    <2> QED
      BY <1>2, <2>1, AutoList, SMTT(30)
  <1>5. Len(c) # 1 \/ Head(c) = "v2" => n # 5
    BY <1>3, AutoList
  <1>6. n # 5 => Len(Tail(c)) > 0
    BY <1>2, <1>3
  <1>7. Tail(c) = <<>> => Len(Tail(c)) = 0
    <2>1. Len(<<>>) = 0
      OBVIOUS
    <2> QED
      BY <2>1, Zenon
  <1>8. n + 1 \in 1..6
    BY <1>2
  <1>9. IsChain(Tail(c))
    BY <1>4, <1>8, Zenon DEF IsChain
  <1> QED
    BY <1>5, <1>6, <1>7, <1>9
-----------------------------------------------------------------------------
\* Lemmas about how a fetch ends or goes on

\* A fetch that returns is in its initial place, with its outcome.
LEMMA ReturnOK ==
    ASSUME NEW o \in {"none", "ok", "call", "flood", "wait", "other", "cancelled"}, Return(o)
    PROVE  Position' /\ CaptchaToSpare' /\ pc' = "idle" /\ outcome' = o
  BY AuthAssumption, ChainStarts DEF Return, Position, CaptchaToSpare, Locations

\* An error leads to other credentials within the limit or ends the fetch; a
\* dead call and an unsolved captcha always end it.
LEMMA FailedOK ==
    ASSUME Position, NEW e \in {"call", "wait", "other"}, Failed(e)
    PROVE  /\ Position' /\ CaptchaToSpare'
           /\ e \in {"call", "wait"} => pc' = "idle" /\ outcome' = e
  <1>1. CASE e \in {"call", "wait"} \/ attempt + 1 >= AttemptLimit
    BY <1>1, ReturnOK DEF Failed
  <1>2. CASE ~(e \in {"call", "wait"} \/ attempt + 1 >= AttemptLimit)
    <2>1. pc' \in {"pause", "anon"} /\ attempt' = attempt + 1 /\ tries' = 0 /\ chain' = <<>>
          /\ step' = step /\ outcome' = outcome
      BY <1>2 DEF Failed
    <2>2. attempt' \in 0..(AttemptLimit - 1)
      BY <1>2, <2>1, AuthAssumption DEF Position
    <2>3. tries' \in 0..CaptchaLimit
      BY <2>1, AuthAssumption
    <2> QED
      BY <1>2, <2>1, <2>2, <2>3, ChainStarts DEF Position, CaptchaToSpare, Locations, Requesting
  <1> QED
    BY <1>1, <1>2

\* A request that succeeds leads to the next one.
LEMMA AtOK ==
    ASSUME Position, NEW l \in Locations \ {"solving", "webview", "breather"}, At(l)
    PROVE  Position' /\ CaptchaToSpare' /\ pc' = l
  BY DEF At, Position, CaptchaToSpare

\* Within the captcha chain a solver is left, and the number of captchas stays.
LEMMA AtSolverOK ==
    ASSUME Position, CaptchaToSpare, pc \in {"solving", "webview", "breather"},
           NEW l \in {"solving", "webview", "breather"}, At(l)
    PROVE  Position' /\ CaptchaToSpare' /\ pc' = l
  BY DEF At, Position, CaptchaToSpare, Locations

\* A solved captcha counts.
LEMMA AskTokenAgainOK ==
    ASSUME Position, CaptchaToSpare, pc \in {"solving", "webview", "breather"}, AskTokenAgain
    PROVE  Position' /\ CaptchaToSpare' /\ pc' = "token" /\ lockout' = lockout
  <1>1. tries' \in 0..CaptchaLimit
    BY AuthAssumption DEF Position, CaptchaToSpare, AskTokenAgain
  <1> QED
    BY <1>1, ChainStarts DEF Position, CaptchaToSpare, AskTokenAgain, Locations, Requesting

\* An unsolved one locks out, and ends the fetch.
LEMMA GiveUpOK ==
    ASSUME Position, GiveUp
    PROVE  Position' /\ CaptchaToSpare' /\ pc' = "idle" /\ lockout' = TRUE
  BY FailedOK DEF GiveUp

\* The next solver exists, after the automatic one and after a WebView that is
\* not the last.
LEMMA NextSolverOK ==
    ASSUME Position, CaptchaToSpare, pc \in {"solving", "webview", "breather"},
           Len(chain) # 1 \/ Head(chain) = "v2",
           NEW l \in {"solving", "breather"}, NextSolver(l)
    PROVE  Position' /\ CaptchaToSpare' /\ pc' = l /\ lockout' = lockout
  <1>1. IsChain(chain) /\ chain # <<>>
    BY DEF Position
  <1>2. IsChain(Tail(chain)) /\ Tail(chain) # <<>>
    BY <1>1, ChainTail
  <1> QED
    BY <1>2 DEF Position, CaptchaToSpare, NextSolver, Locations
-----------------------------------------------------------------------------
\* The fetch

\* A step of the fetch keeps its part of the invariant.
LEMMA FetchStepOK == FetchInv /\ FetchStep => FetchInv'
  <1> SUFFICES ASSUME FetchInv, FetchStep
               PROVE  FetchInv'
    OBVIOUS
  <1>0. /\ Position /\ CaptchaToSpare
        /\ cancelled \in BOOLEAN /\ lockout \in BOOLEAN /\ final \in {"none", "call", "flood"}
        /\ pc # "idle" => lockout = FALSE /\ final = "none"
    BY DEF FetchInv, SilentInLockout, FinalIsFinal
  \* A step within the fetch, without a captcha given up and a final answer.
  <1>a. ASSUME Position', CaptchaToSpare', cancelled' = cancelled,
               lockout' = FALSE, final' = "none"
        PROVE  FetchInv'
    BY <1>0, <1>a DEF FetchInv, SilentInLockout, FinalIsFinal
  \* A step that ends the fetch, with the final answer if there was one.
  <1>b. ASSUME Position', CaptchaToSpare', cancelled' = cancelled, lockout' \in BOOLEAN,
               pc' = "idle", final' \in {"none", "call", "flood"}, final' \in {"none", outcome'}
        PROVE  FetchInv'
    BY <1>0, <1>b DEF FetchInv, SilentInLockout, FinalIsFinal
  <1>1. CASE CallsStep
    <2>0. lockout = FALSE /\ final = "none" /\ lockout' = lockout /\ cancelled' = cancelled
      BY <1>0, <1>1 DEF CallsStep
    <2>1. PICK a \in CallsAnswers :
             /\ Says(a)
             /\ \/ a = "ok" /\ step < 5 /\ step' = step + 1
                   /\ UNCHANGED <<pc, attempt, tries, chain, outcome>>
                \/ a \in {"ok", "call", "flood"} /\ Return(a)
                \/ a \notin {"ok", "call", "flood"}
                   /\ pc' = "anon" /\ step' = 1 /\ UNCHANGED <<attempt, tries, chain, outcome>>
      BY <1>1 DEF CallsStep
    <2>2. CASE a = "ok" /\ step < 5 /\ step' = step + 1
               /\ UNCHANGED <<pc, attempt, tries, chain, outcome>>
      <3>1. Position' /\ CaptchaToSpare'
        BY <1>0, <2>2 DEF Position, CaptchaToSpare
      <3> QED
        BY <1>a, <2>0, <2>1, <2>2, <3>1 DEF Says
    <2>3. CASE a \in {"ok", "call", "flood"} /\ Return(a)
      <3>1. Position' /\ CaptchaToSpare' /\ pc' = "idle" /\ outcome' = a
        BY <2>3, ReturnOK
      <3> QED
        BY <1>b, <2>0, <2>1, <2>3, <3>1 DEF Says
    <2>4. CASE a \notin {"ok", "call", "flood"}
               /\ pc' = "anon" /\ step' = 1 /\ UNCHANGED <<attempt, tries, chain, outcome>>
      <3>1. Position' /\ CaptchaToSpare'
        BY <1>0, <2>4 DEF Position, CaptchaToSpare, Locations, Requesting
      <3> QED
        BY <1>a, <2>0, <2>1, <2>4, <3>1 DEF Says
    <2> QED
      BY <2>1, <2>2, <2>3, <2>4
  <1>2. ASSUME NEW l \in {"anon", "login"}, NEW n \in {"preview", "join"}, ChainStep(l, At(n))
        PROVE  FetchInv'
    <2>0. lockout' = FALSE /\ final' = "none" /\ cancelled' = cancelled
      BY <1>0, <1>2 DEF ChainStep
    <2>1. At(n) \/ Failed("other")
      BY <1>2 DEF ChainStep, Answers
    <2>2. n \in Locations \ {"solving", "webview", "breather"}
      BY DEF Locations, Requesting
    <2>3. Position' /\ CaptchaToSpare'
      BY <1>0, <2>1, <2>2, AtOK, FailedOK
    <2> QED
      BY <1>a, <2>0, <2>3
  <1>3. CASE JoinConversation
    <2>0. lockout' = FALSE /\ final' = "none" /\ cancelled' = cancelled
      BY <1>0, <1>3 DEF JoinConversation, ChainStep
    <2>1. Return("ok") \/ Failed("other")
      BY <1>3 DEF JoinConversation, ChainStep, Answers
    <2>2. Position' /\ CaptchaToSpare'
      BY <1>0, <2>1, ReturnOK, FailedOK
    <2> QED
      BY <1>a, <2>0, <2>2
  <1>4. CASE CallPreview
    <2>0. lockout' = FALSE /\ final = "none" /\ cancelled' = cancelled
      BY <1>0, <1>4 DEF CallPreview
    <2>1. (final' = "call" /\ Failed("call")) \/ (final' = final /\ At("token"))
      BY <1>4 DEF CallPreview, Answers, Says
    <2>2. CASE final' = "call" /\ Failed("call")
      BY <1>0, <1>b, <2>0, <2>2, FailedOK
    <2>3. CASE final' = final /\ At("token")
      <3>1. "token" \in Locations \ {"solving", "webview", "breather"}
        BY DEF Locations, Requesting
      <3> QED
        BY <1>0, <1>a, <2>0, <2>3, <3>1, AtOK
    <2> QED
      BY <2>1, <2>2, <2>3
  <1>5. CASE AnonymousToken
    <2>0. lockout = FALSE /\ final = "none" /\ cancelled' = cancelled
      BY <1>0, <1>5 DEF AnonymousToken
    <2>1. \/ lockout' = lockout /\ final' = final /\ (At("login") \/ Failed("other"))
          \/ lockout' = lockout /\ final' = "call" /\ Failed("call")
          \/ lockout' = TRUE /\ final' = final /\ Failed("wait")
          \/ /\ lockout' = lockout /\ final' = final /\ ~TooManyCaptchas
             /\ pc' = "solving" /\ \E m \in DOMAIN Solvers : chain' = Solvers[m]
             /\ UNCHANGED <<step, attempt, tries, outcome>>
      BY <1>0, <1>5 DEF AnonymousToken, Answers, Says
    <2>2. CASE lockout' = lockout /\ final' = final /\ (At("login") \/ Failed("other"))
      <3>1. "login" \in Locations \ {"solving", "webview", "breather"}
        BY DEF Locations, Requesting
      <3> QED
        BY <1>0, <1>a, <2>0, <2>2, <3>1, AtOK, FailedOK
    <2>3. CASE lockout' = lockout /\ final' = "call" /\ Failed("call")
      BY <1>0, <1>b, <2>0, <2>3, FailedOK
    <2>4. CASE lockout' = TRUE /\ final' = final /\ Failed("wait")
      BY <1>0, <1>b, <2>0, <2>4, FailedOK
    <2>5. CASE /\ lockout' = lockout /\ final' = final /\ ~TooManyCaptchas
               /\ pc' = "solving" /\ \E m \in DOMAIN Solvers : chain' = Solvers[m]
               /\ UNCHANGED <<step, attempt, tries, outcome>>
      <3>1. IsChain(chain') /\ chain' # <<>>
        BY <2>5, ChainStarts
      <3>2. tries' < CaptchaLimit
        BY <1>0, <2>5, AuthAssumption DEF TooManyCaptchas, Position
      <3>3. Position' /\ CaptchaToSpare'
        BY <1>0, <2>5, <3>1, <3>2 DEF Position, CaptchaToSpare, Locations
      <3> QED
        BY <1>a, <2>0, <2>5, <3>3
    <2> QED
      BY <2>1, <2>2, <2>3, <2>4, <2>5
  <1>6. CASE PauseOver
    <2>1. "anon" \in Locations \ {"solving", "webview", "breather"}
      BY DEF Locations, Requesting
    <2> QED
      BY <1>0, <1>6, <1>a, <2>1, AtOK DEF PauseOver
  <1>7. CASE PauseCancelled
    BY <1>0, <1>7, <1>a, ReturnOK DEF PauseCancelled
  <1>8. CASE SolveV2
    <2>1. /\ AskTokenAgain \/ GiveUp \/ (Head(chain) = "v2" /\ NextSolver("solving"))
          /\ final' = "none" /\ cancelled' = cancelled /\ lockout = FALSE /\ pc = "solving"
      BY <1>0, <1>8 DEF SolveV2
    <2> QED
      BY <1>0, <1>a, <1>b, <2>1, AskTokenAgainOK, GiveUpOK, NextSolverOK
  <1>9. CASE AskWebView
    BY <1>0, <1>9, <1>a, AtSolverOK DEF AskWebView
  <1>10. ASSUME WebViewFailed \/ AskTokenAgain, pc = "webview",
                final' = final, cancelled' = cancelled
         PROVE  FetchInv'
    <2>1. AskTokenAgain \/ GiveUp \/ (Len(chain) # 1 /\ NextSolver("breather"))
      BY <1>10 DEF WebViewFailed
    <2> QED
      BY <1>0, <1>a, <1>b, <1>10, <2>1, AskTokenAgainOK, GiveUpOK, NextSolverOK
  <1>11. CASE TakeResult
    BY <1>10, <1>11 DEF TakeResult
  <1>12. CASE WebViewTimesOut
    BY <1>10, <1>12 DEF WebViewTimesOut
  <1>13. CASE BreatherOver
    BY <1>0, <1>a, <1>b, <1>13, AtSolverOK, GiveUpOK DEF BreatherOver
  <1> QED
    BY <1>1, <1>2, <1>3, <1>4, <1>5, <1>6, <1>7, <1>8, <1>9, <1>11, <1>12, <1>13
       DEF FetchStep, AnonToken, AnonymLogin


\* So does the start of a fetch, its end by its callers, and the end of a lockout.
LEMMA FetchInvOK == FetchInv /\ [Next]_vars => FetchInv'
  <1> SUFFICES ASSUME FetchInv, [Next]_vars
               PROVE  FetchInv'
    OBVIOUS
  <1>0. /\ Position /\ CaptchaToSpare
        /\ cancelled \in BOOLEAN /\ lockout \in BOOLEAN /\ final \in {"none", "call", "flood"}
    BY DEF FetchInv
  <1>1. CASE Begin
    <2>1. CASE lockout /\ Return("wait")
      BY <1>0, <1>1, <2>1, ReturnOK DEF Begin, FetchInv, SilentInLockout, FinalIsFinal
    <2>2. ASSUME ~lockout, NEW l \in {"calls", "anon"}, At(l)
          PROVE  FetchInv'
      <3>1. l \in Locations \ {"solving", "webview", "breather"}
        BY DEF Locations, Requesting
      <3>2. Position' /\ CaptchaToSpare'
        BY <1>0, <2>2, <3>1, AtOK
      <3> QED
        BY <1>0, <1>1, <2>2, <3>2 DEF Begin, FetchInv, SilentInLockout, FinalIsFinal
    <2> QED
      BY <1>1, <2>1, <2>2 DEF Begin
  <1>2. CASE FetchStep
    BY <1>2, FetchStepOK
  <1>3. CASE Cancel \/ LockoutOver
    <2>1. Position' /\ CaptchaToSpare' /\ pc' = pc /\ outcome' = outcome /\ final' = final
          /\ cancelled' \in BOOLEAN /\ lockout' \in BOOLEAN /\ (lockout' => lockout)
      <3>1. /\ pc' = pc /\ step' = step /\ attempt' = attempt /\ tries' = tries /\ chain' = chain
            /\ outcome' = outcome /\ final' = final
        BY <1>3 DEF Cancel, LockoutOver
      <3>2. Position' /\ CaptchaToSpare'
        BY <1>0, <3>1 DEF Position, CaptchaToSpare
      <3>3. cancelled' \in BOOLEAN /\ lockout' \in BOOLEAN /\ (lockout' => lockout)
        <4>1. (cancelled' = TRUE /\ lockout' = lockout) \/ (cancelled' = cancelled /\ lockout' = FALSE)
          BY <1>3 DEF Cancel, LockoutOver
        <4>2. cancelled \in BOOLEAN /\ lockout \in BOOLEAN
          BY <1>0
        <4>3. CASE cancelled' = TRUE /\ lockout' = lockout
          BY <4>2, <4>3
        <4>4. CASE cancelled' = cancelled /\ lockout' = FALSE
          BY <4>2, <4>4
        <4> QED
          BY <4>1, <4>3, <4>4
      <3> QED
        BY <3>1, <3>2, <3>3
    <2> QED
      BY <1>0, <2>1 DEF FetchInv, SilentInLockout, FinalIsFinal
  <1>4. CASE ServerStep \/ AppSees \/ AppForgets \/ AppAnswers \/ UNCHANGED vars
    <2>1. UNCHANGED fetchVars
      BY <1>4 DEF ServerStep, Serve, ServeFails, Poll, Send, AppSees, AppForgets, AppAnswers, vars
    <2>2. Position' /\ CaptchaToSpare'
      BY <1>0, <2>1 DEF fetchVars, Position, CaptchaToSpare
    <2> QED
      BY <1>0, <2>1, <2>2 DEF fetchVars, FetchInv, SilentInLockout, FinalIsFinal
  <1> QED
    BY <1>1, <1>2, <1>3, <1>4 DEF Next

-----------------------------------------------------------------------------
\* The exchange

\* A new request makes every other one old; one that finds the exchange at rest
\* is alone in it.
LEMMA AskWebViewOK ==
    ASSUME ExchangeInv, AskWebView
    PROVE  ExchangeInv'
  <1> DEFINE older == [i \in DOMAIN pipe |-> "old"]
  <1>0. /\ pipe \in Seq(Owners) /\ Len(pipe) \in Nat /\ Len(pipe) < MaxWaiting /\ MaxWaiting \in Nat
        /\ serving \in Owners \cup {"none"} /\ serverPc \in {"idle", "polling", "sending"}
        /\ {resultFile, app} \subseteq {"none", "served", "other"}
        /\ (serverPc = "idle" <=> serving = "none")
    BY AuthAssumption DEF AskWebView, ExchangeInv, ExchangeTypes, ServerHasRequest
  <1>1. older \in Seq(Owners) /\ Len(older) = Len(pipe)
    BY <1>0 DEF Owners
  <1>2. /\ pipe' = Append(older, "cur") /\ channel' = <<>> /\ taken' = "none"
        /\ serving' = (IF serving = "none" THEN serving ELSE "old")
        /\ quiet' = (serving = "none" /\ pipe = <<>>)
        /\ serverPc' = serverPc /\ resultFile' = resultFile /\ app' = app
    BY DEF AskWebView
  <1> HIDE DEF older
  <1>3. pipe' \in Seq(Owners) /\ Len(pipe') = Len(pipe) + 1 /\ pipe'[Len(pipe) + 1] = "cur"
    BY <1>0, <1>1, <1>2 DEF Owners
  <1>4. ExchangeTypes'
    BY <1>0, <1>2, <1>3 DEF ExchangeTypes, Owners
  <1>5. ServerHasRequest'
    BY <1>0, <1>2 DEF ServerHasRequest
  <1>6. NothingOld'
    <2>1. pipe = <<>> => \A i \in DOMAIN pipe' : pipe'[i] = "cur"
      BY <1>0, <1>3
    <2> QED
      BY <1>2, <2>1 DEF NothingOld
  <1> QED
    BY <1>4, <1>5, <1>6 DEF ExchangeInv

\* Nobody else makes a request old, and what the server puts into the channel
\* belongs to the request it serves.
LEMMA ExchangeInvOK == ExchangeInv /\ [Next]_vars => ExchangeInv'
  <1> SUFFICES ASSUME ExchangeInv, [Next]_vars
               PROVE  ExchangeInv'
    OBVIOUS
  <1> USE DEF ExchangeInv, ExchangeTypes, ServerHasRequest, NothingOld
  <1>1. CASE AskWebView
    BY <1>1, AskWebViewOK
  <1>2. CASE TakeResult
    <2>1. channel[1] \in [owner : Owners, value : {"token", "error"}]
      <3>1. channel # <<>> /\ channel \in Seq([owner : Owners, value : {"token", "error"}])
        BY <1>2 DEF TakeResult
      <3>2. 1 \in 1..Len(channel)
        BY <3>1, EmptySeq
      <3> QED
        BY <3>1, <3>2, ElementOfSeq
    <2>2. channel[1].owner \in Owners
      BY <2>1
    <2>3. channel # <<>> /\ channel' = <<>> /\ taken' = channel[1].owner
          /\ UNCHANGED <<pipe, serving, serverPc, resultFile, app, quiet>>
      BY <1>2 DEF TakeResult, serverVars
    <2>4. ExchangeTypes'
      BY <2>2, <2>3
    <2>5. NothingOld'
      BY <2>3
    <2> QED
      BY <2>3, <2>4, <2>5 DEF TakeResult, serverVars, Owners
  <1>3. CASE Serve
    <2>1. Head(pipe) \in Owners /\ Tail(pipe) \in Seq(Owners) /\ Len(Tail(pipe)) <= MaxWaiting
          /\ Head(pipe) = pipe[1]
          /\ \A i \in DOMAIN Tail(pipe) : Tail(pipe)[i] = pipe[i + 1] /\ i + 1 \in DOMAIN pipe
          /\ 1 \in DOMAIN pipe
      BY <1>3, AuthAssumption DEF Serve
    <2> QED
      BY <1>3, <2>1 DEF Serve, Owners
  <1>4. ASSUME serverPc # "idle", NEW v \in {"token", "error"},
               channel' = channel \/ channel' = <<[owner |-> serving, value |-> v]>>,
               ServerDone, UNCHANGED <<pipe, quiet, taken>>
        PROVE  ExchangeInv'
    <2> DEFINE answer == [owner |-> serving, value |-> v]
    <2>1. answer \in [owner : Owners, value : {"token", "error"}] /\ answer.owner = serving
      BY <1>4
    <2> HIDE DEF answer
    <2>2. <<answer>> \in Seq([owner : Owners, value : {"token", "error"}])
          /\ Len(<<answer>>) = 1 /\ <<answer>>[1] = answer
      BY <2>1
    <2>3. channel' = channel \/ channel' = <<answer>>
      BY <1>4 DEF answer
    <2>4. channel' \in Seq([owner : Owners, value : {"token", "error"}]) /\ Len(channel') <= 1
      <3>1. channel \in Seq([owner : Owners, value : {"token", "error"}]) /\ Len(channel) <= 1
        OBVIOUS
      <3>2. CASE channel' = channel
        BY <3>1, <3>2, Zenon
      <3>3. CASE channel' = <<answer>>
        <4>1. 1 <= 1
          OBVIOUS
        <4> QED
          BY <2>2, <3>3, <4>1, Zenon
      <3> QED
        BY <2>3, <3>2, <3>3
    <2>5. quiet /\ channel' # <<>> => channel'[1].owner # "old"
      BY <2>1, <2>2, <2>3
    <2> QED
      BY <1>4, <2>4, <2>5 DEF ServerDone
  <1>5. CASE ServeFails
    BY <1>4, <1>5 DEF ServeFails
  <1>6. CASE Send
    BY <1>4, <1>6 DEF Send
  <1>7. CASE Poll
    BY <1>7 DEF Poll
  <1>8. CASE AppSees \/ AppForgets \/ AppAnswers
    BY <1>8 DEF AppSees, AppForgets, AppAnswers
  <1>9. CASE UNCHANGED exchangeVars
    BY <1>9 DEF exchangeVars, serverVars
  <1>10. CASE Begin \/ Cancel \/ LockoutOver \/ UNCHANGED vars
    BY <1>9, <1>10 DEF Begin, Cancel, LockoutOver, vars
  <1>11. CASE FetchStep
    BY <1>1, <1>2, <1>9, <1>11
       DEF FetchStep, CallsStep, AnonToken, CallPreview, AnonymousToken, AnonymLogin,
           JoinConversation, ChainStep, PauseOver, PauseCancelled, SolveV2,
           WebViewTimesOut, BreatherOver
  <1> QED
    BY <1>3, <1>5, <1>6, <1>7, <1>8, <1>10, <1>11 DEF Next, ServerStep

-----------------------------------------------------------------------------
\* Everything starts at rest, without a fetch.
LEMMA InitOK == Init => Inv
  <1> SUFFICES ASSUME Init PROVE Inv
    OBVIOUS
  <1>1. Position
    BY AuthAssumption, ChainStarts DEF Init, Position, Locations
  <1>2. FetchInv
    BY <1>1 DEF Init, FetchInv, CaptchaToSpare, SilentInLockout, FinalIsFinal
  <1>3. ExchangeTypes
    <2>1. pipe \in Seq(Owners) /\ Len(pipe) = 0
      BY EmptySeq, Zenon DEF Init
    <2>2. channel \in Seq([owner : Owners, value : {"token", "error"}]) /\ Len(channel) = 0
      BY EmptySeq, Zenon DEF Init
    <2> QED
      <3>1. Len(pipe) <= MaxWaiting /\ Len(channel) <= 1
        BY <2>1, <2>2, AuthAssumption
      <3>2. /\ quiet \in BOOLEAN /\ serving \in Owners \cup {"none"} /\ taken \in Owners \cup {"none"}
            /\ serverPc \in {"idle", "polling", "sending"}
            /\ {resultFile, app} \subseteq {"none", "served", "other"}
        BY DEF Init
      <3> QED
        BY <2>1, <2>2, <3>1, <3>2, Zenon DEF ExchangeTypes
  <1>4. ServerHasRequest /\ NothingOld
    BY DEF Init, ServerHasRequest, NothingOld
  <1> QED
    BY <1>2, <1>3, <1>4 DEF Inv, ExchangeInv

\* The invariant of fetch and exchange holds in every reachable state.
THEOREM InvCorrect == Spec => []Inv
  <1>1. Inv /\ [Next]_vars => Inv'
    BY FetchInvOK, ExchangeInvOK DEF Inv
  <1> QED
    BY <1>1, InitOK, PTL DEF Spec

\* Attempts stay below vkCredentialAttemptLimit and captchas within their limit
\* (creds.go), the channel within its capacity, and a solver is left wherever
\* one is called.
THEOREM TypeCorrect == Spec => []TypeOK
  <1>1. Inv => TypeOK
    BY DEF Inv, FetchInv, ExchangeInv, ExchangeTypes, Position, TypeOK
  <1> QED
    BY <1>1, InvCorrect, PTL

\* After a captcha that was not solved no request is made to VK for as long as
\* the lockout lasts: the fetch that set it is over, and others are refused.
THEOREM LockoutCorrect == Spec => []SilentInLockout
  <1>1. Inv => SilentInLockout
    BY DEF Inv, FetchInv
  <1> QED
    BY <1>1, InvCorrect, PTL

\* A dead call or flood control on the VK Calls path is what the fetch returns,
\* at once: neither the legacy path nor other credentials are tried after it.
THEOREM FinalCorrect == Spec => []FinalIsFinal
  <1>1. Inv => FinalIsFinal
    BY DEF Inv, FetchInv
  <1> QED
    BY <1>1, InvCorrect, PTL

\* A solver that found the exchange at rest never takes the answer to an older
\* request from CaptchaResultChan, however late server and application are.
THEOREM AnswerCorrect == Spec => []OwnAnswer
  <1>1. Inv => OwnAnswer
    BY DEF Inv, ExchangeInv, NothingOld, OwnAnswer
  <1> QED
    BY <1>1, InvCorrect, PTL
=============================================================================
