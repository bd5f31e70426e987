---------------------------- MODULE LoginProofs ------------------------------
(***************************************************************************)
(* Proofs about Login for every value of its constants: which owner a      *)
(* grant carries, when a client counts as familiar, and that the login     *)
(* implements its contract.                                                *)
(***************************************************************************)
EXTENDS Login, TLAPS

USE LoginAssumption

----------------------------------------------------------------------------
(* Types, and what each step does to the callback it is of                 *)

LEMMA InitTyped == Init => TypeOK
  BY DEF Init, keys, TypeOK, VisitState, CodeState, CallbackState

\* Only callback k moves.
Moves(k) ==
    /\ callback' \in [Callback -> CallbackState]
    /\ \A j \in Callback \ {k} : callback'[j] = callback[j]

Is(k, step, v, d, client, identity, owner, granted) ==
    /\ callback'[k].step = step
    /\ callback'[k].state = v
    /\ callback'[k].code = d
    /\ callback'[k].client = client
    /\ callback'[k].identity = identity
    /\ callback'[k].owner = owner
    /\ callback'[k].granted = granted

LEMMA GoesMoves ==
    ASSUME TypeOK, NEW k \in Callback, NEW s \in CallbackState, Goes(k, s)
    PROVE  /\ Moves(k)
           /\ callback'[k] = s
  BY DEF TypeOK, Goes, Moves

\* The step alone changes.
LEMMA GoesToMoves ==
    ASSUME TypeOK, NEW k \in Callback, NEW step, GoesTo(k, step),
           step \in {"unsent", "lookup", "clear", "exchange", "resolve", "mint", "complete",
                     "record", "redirected", "failed"}
    PROVE  /\ Moves(k)
           /\ Is(k, step, callback[k].state, callback[k].code,
                 callback[k].client, callback[k].identity,
                 callback[k].owner, callback[k].granted)
<1>1. callback[k] \in CallbackState
  BY DEF TypeOK
<1>2. [callback[k] EXCEPT !.step = step] \in CallbackState
  BY <1>1 DEF CallbackState
<1>3. Moves(k) /\ callback'[k] = [callback[k] EXCEPT !.step = step]
  BY <1>2, GoesMoves DEF GoesTo
<1> QED BY <1>1, <1>3 DEF Is, CallbackState

LEMMA CallBackEffect ==
    ASSUME TypeOK, NEW k \in Callback, NEW v \in Visit, NEW d \in Code, CallBack(k, v, d)
    PROVE  /\ Moves(k)
           /\ Is(k, "lookup", v, d, callback[k].client, callback[k].identity,
                 callback[k].owner, callback[k].granted)
<1>1. callback[k] \in CallbackState
  BY DEF TypeOK
<1>2. [callback[k] EXCEPT !.step = "lookup", !.state = v, !.code = d] \in CallbackState
  BY <1>1 DEF CallbackState
<1>3. Moves(k) /\ callback'[k] = [callback[k] EXCEPT !.step = "lookup", !.state = v, !.code = d]
  BY <1>2, GoesMoves DEF CallBack
<1> QED BY <1>1, <1>3 DEF Is, CallbackState

LEMMA LookUpEffect ==
    ASSUME TypeOK, NEW k \in Callback, LookUp(k), StateOf(k) \in Visit
    PROVE  /\ Moves(k)
           /\ \/ Is(k, "failed", callback[k].state, callback[k].code,
                    callback[k].client, callback[k].identity,
                    callback[k].owner, callback[k].granted)
              \/ \E c \in Found(StateOf(k)) \ {NoClient} :
                    Is(k, "clear", callback[k].state, callback[k].code, c, callback[k].identity,
                       callback[k].owner, callback[k].granted)
<1>1. callback[k] \in CallbackState /\ Found(StateOf(k)) \subseteq Client \cup {NoClient}
  BY DEF TypeOK, VisitState, Found, Earlier
<1>2. CASE GoesTo(k, "failed")
  BY <1>2, GoesToMoves
<1>3. ASSUME NEW c \in Found(StateOf(k)) \ {NoClient},
             Goes(k, [callback[k] EXCEPT !.step = "clear", !.client = c])
      PROVE  /\ Moves(k)
             /\ Is(k, "clear", callback[k].state, callback[k].code, c, callback[k].identity,
                   callback[k].owner, callback[k].granted)
  <2>1. c \in Client
    BY <1>1, <1>3
  <2>2. [callback[k] EXCEPT !.step = "clear", !.client = c] \in CallbackState
    BY <1>1, <2>1 DEF CallbackState
  <2>3. Moves(k) /\ callback'[k] = [callback[k] EXCEPT !.step = "clear", !.client = c]
    BY <1>3, <2>2, GoesMoves
  <2> QED BY <1>1, <2>3 DEF Is, CallbackState
<1> QED BY <1>2, <1>3 DEF LookUp

LEMMA ExchangeEffect ==
    ASSUME TypeOK, NEW k \in Callback, Exchange(k), callback[k].code \in Code
    PROVE  /\ Moves(k)
           /\ \/ Is(k, "failed", callback[k].state, callback[k].code,
                    callback[k].client, callback[k].identity,
                    callback[k].owner, callback[k].granted)
              \/ Is(k, "resolve", callback[k].state, callback[k].code, callback[k].client,
                    code[callback[k].code].identity, callback[k].owner, callback[k].granted)
           /\ code' \in [Code -> CodeState]
           /\ \A d \in Code : /\ code'[d].identity = code[d].identity
                              /\ code[d].step # "unissued" => code'[d].step # "unissued"
                              /\ code'[d].step = "unissued" => code[d].step = "unissued"
                              /\ d # callback[k].code => code'[d] = code[d]
<1> DEFINE d == callback[k].code
           i == code[callback[k].code].identity
<1>1. callback[k] \in CallbackState /\ code[d] \in CodeState
  BY DEF TypeOK
<1>2. /\ Moves(k)
      /\ \/ Is(k, "failed", callback[k].state, d, callback[k].client, callback[k].identity,
               callback[k].owner, callback[k].granted)
         \/ Is(k, "resolve", callback[k].state, d, callback[k].client, i, callback[k].owner,
               callback[k].granted)
  <2>1. CASE code[d].step = "spent"
    BY <2>1, GoesToMoves DEF Exchange
  <2>2. CASE code[d].step # "spent"
    <3>1. Goes(k, [callback[k] EXCEPT !.step = "resolve", !.identity = i])
      BY <2>2 DEF Exchange
    <3>2. i \in Identity \cup {NoIdentity}
      BY <1>1 DEF CodeState
    <3> HIDE DEF i, d
    <3>3. [callback[k] EXCEPT !.step = "resolve", !.identity = i] \in CallbackState
      BY <1>1, <3>2 DEF CallbackState
    <3>4. Moves(k) /\ callback'[k] = [callback[k] EXCEPT !.step = "resolve", !.identity = i]
      BY <3>1, <3>3, GoesMoves
    <3>5. Is(k, "resolve", callback[k].state, callback[k].code, callback[k].client, i,
             callback[k].owner, callback[k].granted)
      BY <1>1, <3>4 DEF Is, CallbackState
    <3> QED BY <3>4, <3>5 DEF d
  <2> QED BY <2>1, <2>2
<1>3. code' = [code EXCEPT ![d] = [code[d] EXCEPT !.step = "spent"]]
  BY DEF Exchange
<1>4. [code[d] EXCEPT !.step = "spent"] \in CodeState
  BY <1>1 DEF CodeState
<1>5. /\ code' \in [Code -> CodeState]
      /\ code'[d] = [code[d] EXCEPT !.step = "spent"]
      /\ \A e \in Code \ {d} : code'[e] = code[e]
  <2> HIDE DEF d
  <2> QED BY <1>3, <1>4 DEF TypeOK, d
<1>6. code'[d].step = "spent" /\ code'[d].identity = code[d].identity
  BY <1>1, <1>5 DEF CodeState
<1>7. code[d].step # "unissued" => code'[d].step # "unissued"
  BY <1>6
<1>8. callback[k].step = "exchange"
  BY DEF Exchange
<1> QED BY <1>2, <1>5, <1>6, <1>7

LEMMA ResolveEffect ==
    ASSUME TypeOK, NEW k \in Callback, Resolve(k), callback[k].identity \in Identity
    PROVE  /\ Moves(k)
           /\ \/ Is(k, "failed", callback[k].state, callback[k].code,
                    callback[k].client, callback[k].identity,
                    callback[k].owner, callback[k].granted)
              \/ \E o \in Known(callback[k].identity) \ {NoOwner} :
                    Is(k, "complete", callback[k].state, callback[k].code, callback[k].client,
                       callback[k].identity, o, callback[k].granted)
              \/ /\ \/ callback[k].identity \in raced'
                    \/ mapping[callback[k].identity] = NoOwner /\ Minting(callback[k].identity) = {}
                 /\ Is(k, "mint", callback[k].state, callback[k].code,
                       callback[k].client, callback[k].identity,
                       callback[k].owner, callback[k].granted)
           /\ raced \subseteq raced' /\ raced' \subseteq Identity
<1> DEFINE i == callback[k].identity
<1>1. callback[k] \in CallbackState /\ Known(i) \subseteq Callback \cup {NoOwner}
  BY DEF TypeOK, Known, Earlier
<1>2. raced \subseteq raced' /\ raced' \subseteq Identity
  BY DEF Resolve, TypeOK
<1>3. CASE GoesTo(k, "failed")
  BY <1>2, <1>3, GoesToMoves
<1>4. ASSUME NEW o \in Known(i) \ {NoOwner},
             Goes(k, [callback[k] EXCEPT !.step = "complete", !.owner = o])
      PROVE  /\ Moves(k)
             /\ Is(k, "complete", callback[k].state, callback[k].code,
                   callback[k].client, callback[k].identity,
                   o, callback[k].granted)
  <2>1. o \in Callback
    BY <1>1, <1>4
  <2>2. [callback[k] EXCEPT !.step = "complete", !.owner = o] \in CallbackState
    BY <1>1, <2>1 DEF CallbackState
  <2>3. Moves(k) /\ callback'[k] = [callback[k] EXCEPT !.step = "complete", !.owner = o]
    BY <1>4, <2>2, GoesMoves
  <2> QED BY <1>1, <2>3 DEF Is, CallbackState
<1>5. CASE /\ GoesTo(k, "mint")
           /\ raced' = IF mapping[i] # NoOwner \/ Minting(i) # {} THEN raced \cup {i} ELSE raced
  <2>1. i \in raced' \/ (mapping[i] = NoOwner /\ Minting(i) = {})
    BY <1>5
  <2> QED BY <1>2, <1>5, <2>1, GoesToMoves
<1> QED BY <1>2, <1>3, <1>4, <1>5 DEF Resolve

LEMMA MintEffect ==
    ASSUME TypeOK, NEW k \in Callback, Mint(k), callback[k].identity \in Identity
    PROVE  /\ Moves(k)
           /\ Is(k, "complete", callback[k].state, callback[k].code,
                 callback[k].client, callback[k].identity,
                 k, callback[k].granted)
           /\ mapping' \in [Identity -> Callback \cup {NoOwner}]
           /\ mapping'[callback[k].identity] = k
           /\ \A i \in Identity \ {callback[k].identity} : mapping'[i] = mapping[i]
<1>1. callback[k] \in CallbackState
  BY DEF TypeOK
<1>2. [callback[k] EXCEPT !.step = "complete", !.owner = k] \in CallbackState
  BY <1>1 DEF CallbackState
<1>3. Moves(k) /\ callback'[k] = [callback[k] EXCEPT !.step = "complete", !.owner = k]
  BY <1>2, GoesMoves DEF Mint
<1>4. Is(k, "complete", callback[k].state, callback[k].code,
         callback[k].client, callback[k].identity,
         k, callback[k].granted)
  BY <1>1, <1>3 DEF Is, CallbackState
<1> QED BY <1>3, <1>4 DEF Mint, TypeOK

LEMMA CompleteEffect ==
    ASSUME TypeOK, NEW k \in Callback, Complete(k)
    PROVE  /\ Moves(k)
           /\ Is(k, "record", callback[k].state, callback[k].code,
                 callback[k].client, callback[k].identity,
                 callback[k].owner, TRUE)
<1>1. callback[k] \in CallbackState
  BY DEF TypeOK
<1>2. [callback[k] EXCEPT !.step = "record", !.granted = TRUE] \in CallbackState
  BY <1>1 DEF CallbackState
<1>3. Moves(k) /\ callback'[k] = [callback[k] EXCEPT !.step = "record", !.granted = TRUE]
  BY <1>2, GoesMoves DEF Complete
<1> QED BY <1>1, <1>3 DEF Is, CallbackState

LEMMA StepEffect ==
    ASSUME TypeOK, NEW k \in Callback, Clear(k) \/ MarkSeen(k) \/ CallbackFails(k)
    PROVE  /\ Moves(k)
           /\ \E step \in {"exchange", "redirected", "failed"} :
                 /\ Is(k, step, callback[k].state, callback[k].code,
                       callback[k].client, callback[k].identity,
                       callback[k].owner, callback[k].granted)
                 /\ step = "redirected" => callback[k].step = "record"
                 /\ step = "exchange" => callback[k].step = "clear"
  BY GoesToMoves DEF Clear, MarkSeen, CallbackFails

----------------------------------------------------------------------------
(* What a step leaves alone                                                *)

\* What holds of a visit, a code or a callback that got somewhere still does.
Persists ==
    /\ \A v \in Visit : visit[v].step # "unseen" =>
          visit'[v].step # "unseen" /\ visit'[v].client = visit[v].client
    /\ \A v \in Visit : Held(v) => Held(v)'
    /\ \A v \in Visit : visit[v].step = "shown" =>
          visit'[v].step = "shown" /\ visit'[v].first = visit[v].first
    /\ \A d \in Code : code[d].step # "unissued" =>
          code'[d].step # "unissued" /\ code'[d].identity = code[d].identity
    /\ seen \subseteq seen'
    /\ \A k \in Callback : callback[k].granted =>
          /\ callback'[k].granted
          /\ callback'[k].state = callback[k].state /\ callback'[k].code = callback[k].code
          /\ callback'[k].client = callback[k].client
          /\ callback'[k].identity = callback[k].identity /\ callback'[k].owner = callback[k].owner

LEMMA VisitBecomesMoves ==
    ASSUME TypeOK, NEW v \in Visit, NEW s \in VisitState, VisitBecomes(v, s)
    PROVE  /\ visit' \in [Visit -> VisitState]
           /\ visit'[v] = s
           /\ \A u \in Visit \ {v} : visit'[u] = visit[u]
  BY DEF TypeOK, VisitBecomes

\* What the actions of a visit do to it.
LEMMA VisitEffect ==
    ASSUME TypeOK, NEW v \in Visit, VisitStep(v) \/ \E c \in Client : Arrive(v, c)
    PROVE  /\ visit' \in [Visit -> VisitState]
           /\ \A u \in Visit \ {v} : visit'[u] = visit[u]
           /\ \/ visit[v].step = "unseen" /\ visit'[v].step = "hold" /\ visit'[v].client \in Client
              \/ /\ visit[v].step = "hold" /\ visit'[v].step = "look"
                 /\ visit'[v].client = visit[v].client
              \/ /\ visit[v].step = "look" /\ visit'[v].step = "shown"
                 /\ visit'[v].client = visit[v].client
                 /\ visit'[v].first \/ visit[v].client \in seen
              \/ /\ visit[v].step \in {"hold", "look"} /\ visit'[v].step = "failed"
                 /\ visit'[v].client = visit[v].client
           /\ Hold(v) => visit'[v].step = "look"
<1>0. visit[v] \in VisitState
  BY DEF TypeOK
<1>1. ASSUME NEW c \in Client, Arrive(v, c)
      PROVE  /\ visit' \in [Visit -> VisitState] /\ \A u \in Visit \ {v} : visit'[u] = visit[u]
             /\ visit[v].step = "unseen" /\ visit'[v].step = "hold" /\ visit'[v].client \in Client
  <2>1. [visit[v] EXCEPT !.step = "hold", !.client = c] \in VisitState
    BY <1>0 DEF VisitState
  <2>2. /\ visit' \in [Visit -> VisitState] /\ \A u \in Visit \ {v} : visit'[u] = visit[u]
        /\ visit'[v] = [visit[v] EXCEPT !.step = "hold", !.client = c]
    BY <1>1, <2>1, VisitBecomesMoves DEF Arrive
  <2> QED BY <1>0, <1>1, <2>2 DEF Arrive, VisitState
<1>2. ASSUME NEW step \in {"look", "failed"}, VisitBecomes(v, [visit[v] EXCEPT !.step = step])
      PROVE  /\ visit' \in [Visit -> VisitState] /\ \A u \in Visit \ {v} : visit'[u] = visit[u]
             /\ visit'[v].step = step /\ visit'[v].client = visit[v].client
  <2>1. [visit[v] EXCEPT !.step = step] \in VisitState
    BY <1>0 DEF VisitState
  <2>2. /\ visit' \in [Visit -> VisitState] /\ \A u \in Visit \ {v} : visit'[u] = visit[u]
        /\ visit'[v] = [visit[v] EXCEPT !.step = step]
    BY <1>2, <2>1, VisitBecomesMoves
  <2> QED BY <1>0, <2>2 DEF VisitState
<1>3. CASE Hold(v)
  BY <1>2, <1>3 DEF Hold
<1>4. CASE VisitFails(v)
  BY <1>2, <1>4 DEF VisitFails, Hold
<1>5. CASE Show(v)
  <2>1. PICK first \in Earlier(visit[v].client \notin seen, {TRUE}) :
           VisitBecomes(v, [visit[v] EXCEPT !.step = "shown", !.first = first])
    BY <1>5 DEF Show
  <2>2. first \in BOOLEAN /\ (first = TRUE \/ visit[v].client \in seen)
    BY DEF Earlier
  <2>3. [visit[v] EXCEPT !.step = "shown", !.first = first] \in VisitState
    BY <1>0, <2>2 DEF VisitState
  <2>4. /\ visit' \in [Visit -> VisitState] /\ \A u \in Visit \ {v} : visit'[u] = visit[u]
        /\ visit'[v] = [visit[v] EXCEPT !.step = "shown", !.first = first]
    BY <2>1, <2>3, VisitBecomesMoves
  <2>5. visit'[v].step = "shown" /\ visit'[v].client = visit[v].client /\ visit'[v].first = first
    BY <1>0, <2>4 DEF VisitState
  <2> QED BY <1>5, <2>2, <2>4, <2>5 DEF Show, Hold
<1>6. (\E c \in Client : Arrive(v, c)) => ~ Hold(v)
  BY DEF Arrive, Hold
<1> QED BY <1>1, <1>3, <1>4, <1>5, <1>6 DEF VisitStep

LEMMA SignInEffect ==
    ASSUME TypeOK, NEW v \in Visit, NEW d \in Code, NEW i \in Identity, SignIn(v, d, i)
    PROVE  /\ code' \in [Code -> CodeState]
           /\ code[d].step = "unissued" /\ code'[d].step = "issued"
           /\ code'[d].identity = i
           /\ \A e \in Code \ {d} : code'[e] = code[e]
  BY DEF TypeOK, SignIn, CodeState

\* Where the callbacks of a well-formed state come from.
LEMMA CallbackFacts ==
    ASSUME IInv, NEW k \in Callback, callback[k].step # "unsent"
    PROVE  /\ callback[k].code \in Code
           /\ code[callback[k].code].step # "unissued"
           /\ StateOf(k) \in Visit
           /\ visit[StateOf(k)].step = "shown"
           /\ code[callback[k].code].identity \in Identity
           /\ callback[k].identity # NoIdentity =>
                  callback[k].identity = code[callback[k].code].identity
  BY DEF IInv, CallbackAgrees, StatesAgree, StateOf

\* The effect of every step of a callback that got its code.
LEMMA CallbackMoves ==
    ASSUME IInv, NEW k \in Callback, CallbackStep(k)
    PROVE  /\ Moves(k)
           /\ callback[k].step # "unsent" /\ callback'[k].step # "unsent"
           /\ callback'[k].state = callback[k].state
           /\ callback'[k].code = callback[k].code
           /\ callback[k].granted =>
                 /\ callback'[k].granted
                 /\ callback'[k].client = callback[k].client
                 /\ callback'[k].identity = callback[k].identity
                 /\ callback'[k].owner = callback[k].owner
<1>0. TypeOK /\ CallbackAgrees(k)
  BY DEF IInv
<1>1. callback[k].step # "unsent"
  BY DEF CallbackStep, LookUp, Clear, Exchange, Resolve, Mint, Complete, MarkSeen, CallbackFails
<1>2. CASE LookUp(k)
  <2>1. ~ callback[k].granted
    BY <1>0, <1>2 DEF CallbackAgrees, LookUp
  <2> QED BY <1>0, <1>1, <1>2, <2>1, CallbackFacts, LookUpEffect DEF Is
<1>3. CASE Exchange(k)
  <2>1. ~ callback[k].granted
    BY <1>0, <1>3 DEF CallbackAgrees, Exchange
  <2> QED BY <1>0, <1>1, <1>3, <2>1, CallbackFacts, ExchangeEffect DEF Is
<1>4. ASSUME callback[k].step \in {"resolve", "mint"}
      PROVE  callback[k].identity \in Identity /\ ~ callback[k].granted
  BY <1>0, <1>1, <1>4, CallbackFacts DEF CallbackAgrees
<1>5. CASE Resolve(k)
  <2>1. callback[k].identity \in Identity /\ ~ callback[k].granted
    BY <1>4, <1>5 DEF Resolve
  <2> QED BY <1>0, <1>1, <1>5, <2>1, ResolveEffect DEF Is
<1>6. CASE Mint(k)
  <2>1. callback[k].identity \in Identity /\ ~ callback[k].granted
    BY <1>4, <1>6 DEF Mint
  <2> QED BY <1>0, <1>1, <1>6, <2>1, MintEffect DEF Is
<1>7. CASE Complete(k)
  BY <1>0, <1>1, <1>7, CompleteEffect DEF Is
<1>8. CASE Clear(k) \/ MarkSeen(k) \/ CallbackFails(k)
  BY <1>0, <1>1, <1>8, StepEffect DEF Is
<1> QED BY <1>2, <1>3, <1>5, <1>6, <1>7, <1>8 DEF CallbackStep

\* The variables a step of a callback may write beside its own record.
LEMMA CallbackFrame ==
    ASSUME NEW k \in Callback, CallbackStep(k)
    PROVE  /\ UNCHANGED <<allowlist, visit>>
           /\ UNCHANGED pending \/ Clear(k)
           /\ UNCHANGED seen \/ MarkSeen(k)
           /\ UNCHANGED mapping \/ Mint(k)
           /\ UNCHANGED code \/ Exchange(k)
           /\ UNCHANGED raced \/ Resolve(k)
  BY DEF CallbackStep, LookUp, Clear, Exchange, Resolve, Mint, Complete, MarkSeen,
         CallbackFails, keys

LEMMA CallbackTyped ==
    ASSUME IInv, NEW k \in Callback, CallbackStep(k)
    PROVE  TypeOK'
<1>0. TypeOK /\ CallbackAgrees(k) /\ Moves(k) /\ callback[k].step # "unsent"
  BY CallbackMoves DEF IInv
<1>1. callback[k].step \in {"clear", "exchange", "resolve", "mint", "complete", "record"} =>
          callback[k].client \in Client
  BY <1>0 DEF CallbackAgrees, TypeOK, CallbackState
<1>2. callback[k].step \in {"resolve", "mint"} => callback[k].identity \in Identity
  BY <1>0 DEF CallbackAgrees, TypeOK, CallbackState
<1>3. visit' \in [Visit -> VisitState] /\ allowlist' \subseteq Identity
  BY <1>0, CallbackFrame DEF TypeOK
<1>4. pending' \in [Visit -> Client \cup {NoClient}]
  BY <1>0, CallbackFrame DEF TypeOK, Clear
<1>5. seen' \subseteq Client
  BY <1>0, <1>1, CallbackFrame DEF TypeOK, MarkSeen
<1>6. mapping' \in [Identity -> Callback \cup {NoOwner}]
  <2>1. CASE Mint(k)
    BY <1>0, <1>2, <2>1, MintEffect DEF Mint
  <2> QED BY <1>0, <2>1, CallbackFrame DEF TypeOK
<1>7. code' \in [Code -> CodeState]
  <2>1. CASE Exchange(k)
    BY <1>0, <2>1, ExchangeEffect, CallbackFacts
  <2> QED BY <1>0, <2>1, CallbackFrame DEF TypeOK
<1>8. raced' \subseteq Identity
  <2>1. CASE Resolve(k)
    BY <1>0, <1>2, <2>1, ResolveEffect DEF Resolve
  <2> QED BY <1>0, <2>1, CallbackFrame DEF TypeOK
<1> QED BY <1>0, <1>3, <1>4, <1>5, <1>6, <1>7, <1>8 DEF TypeOK, Moves

LEMMA TypeStep == IInv /\ [Next]_vars => TypeOK'
<1> SUFFICES ASSUME IInv, [Next]_vars PROVE TypeOK'
  OBVIOUS
<1>0. TypeOK
  BY DEF IInv
<1>1. ASSUME NEW v \in Visit, VisitStep(v) \/ \E c \in Client : Arrive(v, c)
      PROVE  TypeOK'
  <2>1. visit' \in [Visit -> VisitState]
    BY <1>0, <1>1, VisitEffect
  <2>2. UNCHANGED <<seen, mapping, allowlist, code, callback, raced>>
    BY <1>1 DEF VisitStep, Hold, Show, VisitFails, Arrive, keys
  <2>3. pending' \in [Visit -> Client \cup {NoClient}]
    <3>1. CASE Hold(v)
      <4>1. visit[v].client \in Client \cup {NoClient}
        BY <1>0 DEF TypeOK, VisitState
      <4> QED BY <1>0, <3>1, <4>1 DEF TypeOK, Hold
    <3>2. CASE ~ Hold(v)
      BY <1>0, <1>1, <3>2 DEF TypeOK, VisitStep, Show, VisitFails, Arrive, keys
    <3> QED BY <3>1, <3>2
  <2> QED BY <1>0, <2>1, <2>2, <2>3 DEF TypeOK
<1>2. ASSUME NEW v \in Visit, Expire(v) PROVE TypeOK'
  BY <1>0, <1>2 DEF TypeOK, Expire
<1>3. ASSUME NEW v \in Visit, NEW d \in Code, NEW i \in Identity, SignIn(v, d, i) PROVE TypeOK'
  <2>1. code' \in [Code -> CodeState]
    BY <1>0, <1>3, SignInEffect
  <2> QED BY <1>0, <1>3, <2>1 DEF TypeOK, SignIn, keys
<1>4. CASE Redeploy
  BY <1>0, <1>4 DEF TypeOK, Redeploy
<1>5. ASSUME NEW k \in Callback, CallbackStep(k) PROVE TypeOK'
  BY <1>5, CallbackTyped
<1>6. ASSUME NEW k \in Callback, NEW v \in Visit, NEW d \in Code, CallBack(k, v, d) PROVE TypeOK'
  BY <1>0, <1>6, CallBackEffect DEF TypeOK, CallBack, Moves, keys
<1>7. CASE UNCHANGED vars
  BY <1>0, <1>7 DEF TypeOK, vars, keys
<1> QED BY <1>1, <1>2, <1>3, <1>4, <1>5, <1>6, <1>7 DEF Next

LEMMA PersistStep == IInv /\ [Next]_vars => Persists
<1> SUFFICES ASSUME IInv, [Next]_vars PROVE Persists
  OBVIOUS
<1>0. TypeOK /\ \A k \in Callback : CallbackAgrees(k)
  BY DEF IInv
<1>1. ASSUME NEW v \in Visit, VisitStep(v) \/ \E c \in Client : Arrive(v, c)
      PROVE  Persists
  <2>1. UNCHANGED <<seen, code, callback>>
    BY <1>1 DEF VisitStep, Hold, Show, VisitFails, Arrive, keys
  <2> QED BY <1>0, <1>1, <2>1, VisitEffect DEF Persists, Held
<1>2. ASSUME NEW v \in Visit, Expire(v) PROVE Persists
  BY <1>2 DEF Persists, Expire, Held
<1>3. ASSUME NEW v \in Visit, NEW d \in Code, NEW i \in Identity, SignIn(v, d, i) PROVE Persists
  <2>1. UNCHANGED <<seen, visit, callback>>
    BY <1>3 DEF SignIn, keys
  <2> QED BY <1>0, <1>3, <2>1, SignInEffect DEF Persists, Held
<1>4. CASE Redeploy \/ UNCHANGED vars
  BY <1>4 DEF Persists, Redeploy, vars, keys, Held
<1>5. ASSUME NEW k \in Callback, CallbackStep(k) PROVE Persists
  <2>1. /\ UNCHANGED visit /\ seen \subseteq seen'
    BY <1>5, CallbackFrame DEF MarkSeen
  <2>2. \A d \in Code : code[d].step # "unissued" =>
          code'[d].step # "unissued" /\ code'[d].identity = code[d].identity
    <3>1. callback[k].step # "unsent"
      BY <1>5, CallbackMoves
    <3>2. CASE Exchange(k)
      BY <1>0, <3>1, <3>2, ExchangeEffect, CallbackFacts
    <3> QED BY <1>5, <3>2, CallbackFrame
  <2> QED BY <1>5, <2>1, <2>2, CallbackMoves DEF Persists, Held, Moves
<1>6. ASSUME NEW k \in Callback, NEW v \in Visit, NEW d \in Code, CallBack(k, v, d) PROVE Persists
  <2>1. UNCHANGED <<seen, visit, code>>
    BY <1>6 DEF CallBack, keys
  <2>2. ~ callback[k].granted
    BY <1>0, <1>6 DEF CallBack, CallbackAgrees
  <2> QED BY <1>0, <1>6, <2>1, <2>2, CallBackEffect DEF Persists, Held, Moves
<1> QED BY <1>1, <1>2, <1>3, <1>4, <1>5, <1>6 DEF Next

----------------------------------------------------------------------------
(* The parts of the invariant                                              *)

LEMMA StatesAgreeStep == IInv /\ [Next]_vars => StatesAgree'
<1> SUFFICES ASSUME IInv, [Next]_vars PROVE StatesAgree'
  OBVIOUS
<1>0. TypeOK /\ StatesAgree /\ Persists
  BY PersistStep DEF IInv
<1>1. ASSUME NEW u \in Visit
      PROVE  /\ pending'[u] # NoClient => pending'[u] = visit'[u].client /\ Held(u)'
             /\ visit'[u].step # "unseen" => visit'[u].client \in Client
  <2>1. CASE pending'[u] = pending[u] /\ visit'[u] = visit[u]
    BY <1>0, <2>1 DEF StatesAgree, Held
  <2>2. ASSUME NEW v \in Visit, VisitStep(v) \/ \E c \in Client : Arrive(v, c)
        PROVE  \/ pending'[u] = pending[u] /\ visit'[u] = visit[u]
               \/ /\ pending'[u] # NoClient => pending'[u] = visit'[u].client /\ Held(u)'
                  /\ visit'[u].step # "unseen" => visit'[u].client \in Client
    <3>1. CASE Hold(v)
      BY <1>0, <2>2, <3>1, VisitEffect DEF Hold, Held, StatesAgree, TypeOK
    <3>2. CASE ~ Hold(v)
      <4>1. UNCHANGED pending
        BY <2>2, <3>2 DEF VisitStep, Show, VisitFails, Arrive, keys
      <4> QED BY <1>0, <2>2, <4>1, VisitEffect DEF Held, StatesAgree
    <3> QED BY <3>1, <3>2
  <2>3. ASSUME NEW v \in Visit, Expire(v)
        PROVE  /\ pending'[u] # NoClient => pending'[u] = visit'[u].client /\ Held(u)'
               /\ visit'[u].step # "unseen" => visit'[u].client \in Client
    BY <1>0, <2>3 DEF Expire, StatesAgree, Held, TypeOK
  <2>4. ASSUME NEW k \in Callback, CallbackStep(k)
        PROVE  /\ pending'[u] # NoClient => pending'[u] = visit'[u].client /\ Held(u)'
               /\ visit'[u].step # "unseen" => visit'[u].client \in Client
    <3>1. UNCHANGED visit /\ (pending'[u] = pending[u] \/ pending'[u] = NoClient)
      BY <1>0, <2>4, CallbackFrame DEF Clear, TypeOK
    <3> QED BY <1>0, <3>1 DEF StatesAgree, Held
  <2>5. ASSUME NEW v \in Visit, NEW d \in Code, NEW i \in Identity, SignIn(v, d, i)
        PROVE  pending'[u] = pending[u] /\ visit'[u] = visit[u]
    BY <2>5 DEF SignIn, keys
  <2>6. ASSUME NEW k \in Callback, NEW v \in Visit, NEW d \in Code, CallBack(k, v, d)
        PROVE  pending'[u] = pending[u] /\ visit'[u] = visit[u]
    BY <2>6 DEF CallBack, keys
  <2>7. CASE Redeploy \/ UNCHANGED vars
    BY <2>1, <2>7 DEF Redeploy, vars, keys
  <2> QED BY <2>1, <2>2, <2>3, <2>4, <2>5, <2>6, <2>7 DEF Next
<1>2. ASSUME NEW e \in Code, code'[e].step # "unissued"
      PROVE  code'[e].identity \in Identity
  <2>1. CASE code[e].step # "unissued"
    BY <1>0, <2>1 DEF Persists, StatesAgree
  <2>2. CASE code[e].step = "unissued"
    <3>1. ASSUME NEW v \in Visit, NEW d \in Code, NEW i \in Identity, SignIn(v, d, i)
          PROVE  code'[e].identity \in Identity
      BY <1>0, <1>2, <2>2, <3>1, SignInEffect DEF SignIn
    <3>2. ASSUME NEW k \in Callback, CallbackStep(k) PROVE FALSE
      <4>1. CASE Exchange(k)
        <5>1. callback[k].step # "unsent"
          BY <4>1 DEF Exchange
        <5> QED BY <1>0, <1>2, <2>2, <4>1, <5>1, ExchangeEffect, CallbackFacts
      <4> QED BY <1>2, <2>2, <3>2, <4>1, CallbackFrame
    <3>3. CASE UNCHANGED code
      BY <1>2, <2>2, <3>3
    <3> QED BY <3>1, <3>2, <3>3 DEF Next, VisitStep, Hold, Show, VisitFails, Arrive, Expire,
                                  Redeploy, CallBack, vars
  <2> QED BY <2>1, <2>2
<1> QED BY <1>1, <1>2 DEF StatesAgree

\* What Persists says of the state and the code a callback came back with.
LEMMA CodePersists ==
    ASSUME IInv, Persists, NEW k \in Callback, callback[k].step # "unsent",
           callback'[k].state = callback[k].state, callback'[k].code = callback[k].code
    PROVE  /\ callback'[k].code \in Code
           /\ code'[callback'[k].code].step # "unissued"
           /\ code'[callback'[k].code].identity = code[callback[k].code].identity
           /\ StateOf(k)' \in Visit /\ visit'[StateOf(k)'].step = "shown"
           /\ visit'[StateOf(k)'].client = visit[StateOf(k)].client
  BY CallbackFacts DEF Persists, StateOf

LEMMA CallbackAgreesStep ==
    IInv /\ [Next]_vars => \A k \in Callback : CallbackAgrees(k)'
<1> SUFFICES ASSUME IInv, [Next]_vars, NEW k \in Callback PROVE CallbackAgrees(k)'
  OBVIOUS
<1>0. TypeOK /\ StatesAgree /\ Persists /\ CallbackAgrees(k)
  BY PersistStep DEF IInv
<1>1. CASE callback'[k] = callback[k]
  <2>1. CASE callback[k].step = "unsent"
    BY <1>0, <1>1, <2>1 DEF CallbackAgrees
  <2>2. CASE callback[k].step # "unsent"
    BY <1>0, <1>1, <2>2, CodePersists DEF CallbackAgrees
  <2> QED BY <2>1, <2>2
<1>2. CASE CallbackStep(k)
  <2>1. /\ callback[k].step # "unsent" /\ callback'[k].step # "unsent"
        /\ callback'[k].state = callback[k].state
        /\ callback'[k].code = callback[k].code
    BY <1>2, CallbackMoves
  <2>2. /\ callback'[k].code \in Code
        /\ code'[callback'[k].code].step # "unissued"
        /\ code'[callback'[k].code].identity = code[callback[k].code].identity
        /\ StateOf(k)' \in Visit /\ visit'[StateOf(k)'].step = "shown"
        /\ visit'[StateOf(k)'].client = visit[StateOf(k)].client
    BY <1>0, <2>1, CodePersists
  <2>3. /\ StateOf(k) \in Visit
        /\ code[callback[k].code].identity \in Identity
    BY <2>1, CallbackFacts
  <2>4. CASE LookUp(k)
    <3>1. ~ callback[k].granted /\ callback[k].owner = NoOwner
      BY <1>0, <2>4 DEF CallbackAgrees, LookUp
    <3>2. \A c \in Found(StateOf(k)) \ {NoClient} : c = visit[StateOf(k)].client
      BY <1>0, <2>3 DEF StatesAgree, Found, Earlier
    <3> QED BY <1>0, <2>1, <2>2, <2>3, <2>4, <3>1, <3>2, LookUpEffect DEF CallbackAgrees, Is
  <2>5. CASE Exchange(k)
    <3>1. /\ ~ callback[k].granted /\ callback[k].owner = NoOwner
          /\ callback[k].client # NoClient
      BY <1>0, <2>5 DEF CallbackAgrees, Exchange
    <3>2. callback[k].code \in Code
      BY <2>1, <2>2
    <3> QED BY <1>0, <2>1, <2>2, <2>3, <2>5, <3>1, <3>2, ExchangeEffect DEF CallbackAgrees, Is
  <2>6. ASSUME callback[k].step \in {"resolve", "mint"}
        PROVE  /\ callback[k].identity \in Identity /\ ~ callback[k].granted
               /\ callback[k].client # NoClient
    BY <1>0, <2>1, <2>3, <2>6 DEF CallbackAgrees
  <2>7. CASE Resolve(k)
    <3>1. callback[k].step = "resolve"
      BY <2>7 DEF Resolve
    <3> QED BY <1>0, <2>1, <2>2, <2>3, <2>6, <2>7, <3>1, ResolveEffect DEF CallbackAgrees, Is
  <2>8. CASE Mint(k)
    <3>1. callback[k].step = "mint"
      BY <2>8 DEF Mint
    <3> QED BY <1>0, <2>1, <2>2, <2>3, <2>6, <2>8, <3>1, MintEffect DEF CallbackAgrees, Is
  <2>9. CASE Complete(k)
    <3>1. callback[k].step = "complete"
      BY <2>9 DEF Complete
    <3> QED BY <1>0, <2>1, <2>2, <2>3, <2>9, <3>1, CompleteEffect DEF CallbackAgrees, Is
  <2>10. CASE Clear(k) \/ MarkSeen(k) \/ CallbackFails(k)
    <3>1. PICK step \in {"exchange", "redirected", "failed"} :
             /\ Is(k, step, callback[k].state, callback[k].code,
                   callback[k].client, callback[k].identity,
                   callback[k].owner, callback[k].granted)
             /\ step = "redirected" => callback[k].step = "record"
             /\ step = "exchange" => callback[k].step = "clear"
      BY <1>0, <2>10, StepEffect
    <3> QED BY <1>0, <2>1, <2>2, <2>3, <3>1 DEF CallbackAgrees, Is
  <2> QED BY <1>2, <2>4, <2>5, <2>7, <2>8, <2>9, <2>10 DEF CallbackStep
<1>3. ASSUME NEW v \in Visit, NEW d \in Code, CallBack(k, v, d) PROVE CallbackAgrees(k)'
  <2>1. Is(k, "lookup", v, d, callback[k].client, callback[k].identity,
           callback[k].owner, callback[k].granted)
    BY <1>0, <1>3, CallBackEffect
  <2>2. /\ callback[k].step = "unsent" /\ code[d].step # "unissued"
        /\ visit[v].step = "shown" /\ UNCHANGED <<visit, code>>
    BY <1>3 DEF CallBack, keys
  <2>3. StateOf(k)' = v
    BY <2>1 DEF Is, StateOf
  <2> QED BY <1>0, <2>1, <2>2, <2>3 DEF CallbackAgrees, Is
<1>4. ASSUME NEW j \in Callback, j # k,
             CallbackStep(j) \/ \E v \in Visit, d \in Code : CallBack(j, v, d)
      PROVE  callback'[k] = callback[k]
  BY <1>0, <1>4, CallbackMoves, CallBackEffect DEF Moves
<1>5. CASE UNCHANGED callback
  BY <1>1, <1>5
<1> QED BY <1>1, <1>2, <1>3, <1>4, <1>5 DEF Next, VisitStep, Hold, Show, VisitFails, Arrive,
                                          Expire, SignIn, Redeploy, vars

\* A callback past the mapping: it carries the owner it found or minted there.
Owned(k, i) ==
    callback[k].identity = i /\ callback[k].owner # NoOwner

\* OwnersAgree of one identity.
Owners(i) ==
    /\ \A j, k \in Minting(i) : j = k
    /\ mapping[i] # NoOwner => Minting(i) = {}
    /\ \A k \in Callback : Owned(k, i) => callback[k].owner = mapping[i]

\* A step that sends no callback of i to mint, and none past the mapping.
LEMMA QuietOwners ==
    ASSUME NEW i \in Identity, Owners(i),
           mapping'[i] = mapping[i],
           \A k \in Callback :
              /\ callback'[k].step = "mint" /\ callback'[k].identity = i =>
                    callback[k].step = "mint" /\ callback[k].identity = i
              /\ Owned(k, i)' => Owned(k, i) /\ callback'[k].owner = callback[k].owner
    PROVE  Owners(i)'
  BY DEF Owners, Minting

LEMMA OwnersAgreeStep == IInv /\ [Next]_vars => OwnersAgree'
<1> SUFFICES ASSUME IInv, [Next]_vars PROVE OwnersAgree'
  OBVIOUS
<1>0. TypeOK /\ \A k \in Callback : CallbackAgrees(k)
  BY DEF IInv
<1>1. \A i \in Identity \ raced : Owners(i)
  BY DEF IInv, OwnersAgree, Owners, Owned
<1>2. ASSUME NEW k \in Callback, CallbackStep(k), NEW i \in Identity \ raced' PROVE Owners(i)'
  <2>1. Moves(k) /\ callback[k].step # "unsent"
    BY <1>2, CallbackMoves
  <2>2. callback[k].step \in {"resolve", "mint"} =>
            callback[k].identity \in Identity /\ callback[k].owner = NoOwner
    BY <1>0, <2>1, CallbackFacts DEF CallbackAgrees
  <2>3. Owners(i) /\ i \in Identity
    <3>1. raced \subseteq raced'
      BY <1>2, CallbackFrame DEF Resolve
    <3> QED BY <1>1, <3>1
  <2>4. ASSUME mapping'[i] = mapping[i],
               callback'[k].step = "mint" /\ callback'[k].identity = i =>
                  callback[k].step = "mint" /\ callback[k].identity = i,
               Owned(k, i)' => Owned(k, i) /\ callback'[k].owner = callback[k].owner
        PROVE  Owners(i)'
    <3>1. \A j \in Callback :
             /\ callback'[j].step = "mint" /\ callback'[j].identity = i =>
                   callback[j].step = "mint" /\ callback[j].identity = i
             /\ Owned(j, i)' => Owned(j, i) /\ callback'[j].owner = callback[j].owner
      BY <2>1, <2>4 DEF Moves, Owned
    <3> QED BY <2>3, <2>4, <3>1, QuietOwners
  <2>5. CASE LookUp(k)
    <3>1. mapping' = mapping
      BY <2>5 DEF LookUp, keys
    <3> QED BY <1>0, <2>1, <2>4, <2>5, <3>1, CallbackFacts, LookUpEffect DEF Is, Owned
  <2>6. CASE Exchange(k)
    <3>1. callback[k].owner = NoOwner /\ mapping' = mapping
      BY <1>0, <2>6 DEF CallbackAgrees, Exchange, keys
    <3> QED BY <1>0, <2>1, <2>4, <2>6, <3>1, CallbackFacts, ExchangeEffect DEF Is, Owned
  <2>7. CASE Complete(k)
    <3>1. callback[k].step = "complete" /\ mapping' = mapping
      BY <2>7 DEF Complete, keys
    <3> QED BY <1>0, <2>4, <2>7, <3>1, CompleteEffect DEF Is, Owned
  <2>8. CASE Clear(k) \/ MarkSeen(k) \/ CallbackFails(k)
    <3>1. mapping' = mapping
      BY <2>8 DEF Clear, MarkSeen, CallbackFails, keys
    <3> QED BY <1>0, <2>4, <2>8, <3>1, StepEffect DEF Is, Owned
  <2>9. CASE Resolve(k)
    <3>1. mapping' = mapping /\ callback[k].identity \in Identity /\ callback[k].owner = NoOwner
      BY <2>2, <2>9 DEF Resolve, keys
    <3>2. CASE \/ callback[k].identity # i
               \/ Is(k, "failed", callback[k].state, callback[k].code,
                     callback[k].client, callback[k].identity,
                     callback[k].owner, callback[k].granted)
      BY <1>0, <2>4, <2>9, <3>1, <3>2, ResolveEffect DEF Is, Owned
    <3>3. ASSUME callback[k].identity = i, NEW o \in Known(i) \ {NoOwner},
                 Is(k, "complete", callback[k].state, callback[k].code, callback[k].client, i, o,
                    callback[k].granted)
          PROVE  Owners(i)'
      <4>1. o = mapping[i]
        BY <2>3, <3>3 DEF Known, Earlier, Owners, Owned
      <4> QED BY <2>1, <2>3, <3>1, <3>3, <4>1 DEF Is, Owners, Owned, Minting, Moves
    <3>4. CASE /\ callback[k].identity = i /\ mapping[i] = NoOwner /\ Minting(i) = {}
               /\ Is(k, "mint", callback[k].state, callback[k].code, callback[k].client, i,
                     callback[k].owner,
                     callback[k].granted)
      BY <2>1, <2>3, <3>1, <3>4 DEF Is, Owners, Owned, Minting, Moves
    <3> QED BY <1>0, <2>9, <3>1, <3>2, <3>3, <3>4, ResolveEffect
  <2>10. CASE Mint(k)
    <3>1. callback[k].step = "mint" /\ callback[k].identity \in Identity /\ callback[k].owner = NoOwner
      BY <2>2, <2>10 DEF Mint
    <3>2. CASE callback[k].identity # i
      BY <1>0, <2>3, <2>4, <2>10, <3>1, <3>2, MintEffect DEF Is, Owned
    <3>3. CASE callback[k].identity = i
      <4>1. Minting(i) = {k} /\ mapping[i] = NoOwner
        BY <2>3, <3>1, <3>3 DEF Owners, Minting
      <4>2. /\ mapping'[i] = k /\ k # NoOwner
            /\ Is(k, "complete", callback[k].state, callback[k].code, callback[k].client, i, k,
                  callback[k].granted)
        BY <1>0, <2>10, <3>1, <3>3, MintEffect
      <4> QED BY <2>1, <2>3, <4>1, <4>2 DEF Is, Owners, Owned, Minting, Moves
    <3> QED BY <3>2, <3>3
  <2> QED BY <1>2, <2>5, <2>6, <2>7, <2>8, <2>9, <2>10 DEF CallbackStep
<1>3. ASSUME NEW k \in Callback, NEW v \in Visit, NEW d \in Code, CallBack(k, v, d),
             NEW i \in Identity \ raced'
      PROVE  Owners(i)'
  <2>1. UNCHANGED <<mapping, raced>> /\ ~ callback[k].granted
    BY <1>0, <1>3 DEF CallBack, CallbackAgrees, keys
  <2>2. \A j \in Callback :
           /\ callback'[j].step = "mint" /\ callback'[j].identity = i =>
                 callback[j].step = "mint" /\ callback[j].identity = i
           /\ Owned(j, i)' => Owned(j, i) /\ callback'[j].owner = callback[j].owner
    BY <1>0, <1>3, <2>1, CallBackEffect DEF Is, Moves, Owned
  <2> QED BY <1>1, <1>3, <2>1, <2>2, QuietOwners
<1>4. CASE UNCHANGED <<mapping, callback, raced>>
  BY <1>4 DEF IInv, OwnersAgree, Minting
<1>5. ASSUME \A i \in Identity \ raced' : Owners(i)' PROVE OwnersAgree'
  BY <1>5 DEF OwnersAgree, Owners, Owned
<1> QED BY <1>2, <1>3, <1>4, <1>5 DEF Next, VisitStep, Hold, Show, VisitFails, Arrive,
                                    Expire, SignIn, Redeploy, vars, keys

LEMMA MarksAgreeStep == IInv /\ [Next]_vars => MarksAgree'
<1> SUFFICES ASSUME IInv, [Next]_vars PROVE MarksAgree'
  OBVIOUS
<1>0. TypeOK /\ MarksAgree /\ Persists /\ \A k \in Callback : CallbackAgrees(k)
  BY PersistStep DEF IInv
<1>1. ASSUME NEW c \in seen'
      PROVE  \E k \in Callback : callback'[k].granted /\ callback'[k].client = c
  <2>1. CASE c \in seen
    BY <1>0, <2>1 DEF MarksAgree, Persists
  <2>2. ASSUME NEW k \in Callback, MarkSeen(k), c \notin seen
        PROVE  callback'[k].granted /\ callback'[k].client = c
    <3>1. c = callback[k].client /\ callback[k].granted
      BY <1>0, <2>2 DEF MarkSeen, CallbackAgrees
    <3> QED BY <1>0, <3>1 DEF Persists
  <2>3. ASSUME NEW k \in Callback, CallbackStep(k) PROVE UNCHANGED seen \/ MarkSeen(k)
    BY <2>3, CallbackFrame
  <2>4. CASE UNCHANGED seen
    BY <2>1, <2>4
  <2> QED BY <2>1, <2>2, <2>3, <2>4 DEF Next, VisitStep, Hold, Show, VisitFails, Arrive,
                                        Expire, SignIn, Redeploy, CallBack, vars, keys
<1>2. ASSUME NEW u \in Visit, visit'[u].step = "shown"
      PROVE  visit'[u].first \/ visit'[u].client \in seen'
  <2>1. CASE visit[u].step = "shown"
    BY <1>0, <2>1 DEF MarksAgree, Persists
  <2>2. ASSUME visit[u].step # "shown", NEW v \in Visit,
               VisitStep(v) \/ \E c \in Client : Arrive(v, c)
        PROVE  visit'[u].first \/ visit'[u].client \in seen'
    BY <1>0, <1>2, <2>2, VisitEffect DEF Persists
  <2>3. CASE UNCHANGED visit
    BY <1>2, <2>1, <2>3
  <2>4. ASSUME NEW k \in Callback, CallbackStep(k) PROVE UNCHANGED visit
    BY <2>4, CallbackFrame
  <2> QED BY <2>1, <2>2, <2>3, <2>4 DEF Next, Expire, SignIn, Redeploy, CallBack, vars
<1> QED BY <1>1, <1>2 DEF MarksAgree

\* Only a trade of its code gives a callback an identity.
LEMMA TradesGiveIdentities ==
    ASSUME IInv, [Next]_vars, NEW k \in Callback, callback'[k].identity # NoIdentity
    PROVE  \/ /\ callback[k].identity # NoIdentity
              /\ callback'[k].identity = callback[k].identity
              /\ callback'[k].code = callback[k].code
           \/ /\ Exchange(k) /\ code[callback[k].code].step # "spent"
              /\ callback'[k].code = callback[k].code
<1>0. TypeOK /\ CallbackAgrees(k)
  BY DEF IInv
<1>1. CASE callback'[k] = callback[k]
  BY <1>1
<1>2. CASE CallbackStep(k)
  <2>0. callback[k].step # "unsent" /\ callback'[k].code = callback[k].code
    BY <1>2, CallbackMoves
  <2>1. CASE LookUp(k)
    BY <1>0, <2>0, <2>1, CallbackFacts, LookUpEffect DEF Is
  <2>2. CASE Exchange(k)
    <3>1. CASE code[callback[k].code].step = "spent"
      <4>1. GoesTo(k, "failed")
        BY <2>2, <3>1 DEF Exchange
      <4> QED BY <1>0, <4>1, GoesToMoves DEF Is
    <3> QED BY <2>0, <2>2, <3>1
  <2>3. CASE Resolve(k)
    <3>1. callback[k].identity \in Identity
      BY <1>0, <2>0, <2>3, CallbackFacts DEF CallbackAgrees, Resolve
    <3> QED BY <1>0, <2>0, <2>3, <3>1, ResolveEffect DEF Is
  <2>4. CASE Mint(k)
    <3>1. callback[k].identity \in Identity
      BY <1>0, <2>0, <2>4, CallbackFacts DEF CallbackAgrees, Mint
    <3> QED BY <1>0, <2>0, <2>4, <3>1, MintEffect DEF Is
  <2>5. CASE Complete(k)
    BY <1>0, <2>5, CompleteEffect DEF Is
  <2>6. CASE Clear(k) \/ MarkSeen(k) \/ CallbackFails(k)
    BY <1>0, <2>6, StepEffect DEF Is
  <2> QED BY <1>2, <2>1, <2>2, <2>3, <2>4, <2>5, <2>6 DEF CallbackStep
<1>3. ASSUME NEW v \in Visit, NEW d \in Code, CallBack(k, v, d) PROVE FALSE
  <2>1. callback[k].step = "unsent"
    BY <1>3 DEF CallBack
  <2>2. callback[k].identity = NoIdentity
    BY <1>0, <2>1 DEF CallbackAgrees
  <2> QED BY <1>0, <1>3, <2>2, CallBackEffect DEF Is
<1>4. ASSUME NEW j \in Callback, j # k,
             CallbackStep(j) \/ \E v \in Visit, d \in Code : CallBack(j, v, d)
      PROVE  callback'[k] = callback[k]
  BY <1>0, <1>4, CallbackMoves, CallBackEffect DEF Moves
<1>5. CASE UNCHANGED callback
  BY <1>1, <1>5
<1> QED BY <1>1, <1>2, <1>3, <1>4, <1>5 DEF Next, VisitStep, Hold, Show, VisitFails, Arrive,
                                          Expire, SignIn, Redeploy, vars

\* What was spent stays so, and who trades a code spends it.
LEMMA SpentStays ==
    ASSUME IInv, [Next]_vars, NEW d \in Code, code[d].step = "spent"
    PROVE  code'[d].step = "spent"
<1>0. TypeOK
  BY DEF IInv
<1>1. ASSUME NEW v \in Visit, NEW e \in Code, NEW i \in Identity, SignIn(v, e, i)
      PROVE  code'[d].step = "spent"
  BY <1>0, <1>1, SignInEffect
<1>2. ASSUME NEW k \in Callback, Exchange(k) PROVE code'[d].step = "spent"
  BY <1>0, <1>2 DEF Exchange, TypeOK, CodeState
<1>3. ASSUME NEW k \in Callback, CallbackStep(k) PROVE UNCHANGED code \/ Exchange(k)
  BY <1>3, CallbackFrame
<1> QED BY <1>1, <1>2, <1>3 DEF Next, VisitStep, Hold, Show, VisitFails, Arrive, Expire, Redeploy,
                                CallBack, vars

LEMMA TradeSpends ==
    ASSUME IInv, NEW k \in Callback, Exchange(k)
    PROVE  code'[callback[k].code].step = "spent"
<1>1. callback[k].code \in Code /\ TypeOK
  BY CallbackFacts DEF Exchange, IInv
<1> QED BY <1>1 DEF Exchange, TypeOK, CodeState

LEMMA CodesAreSpentOnceStep == IInv /\ [Next]_vars => CodesAreSpentOnce'
<1> SUFFICES ASSUME IInv, [Next]_vars, NEW k \in Callback, callback'[k].identity # NoIdentity
             PROVE  /\ code'[callback'[k].code].step = "spent"
                    /\ \A j \in Callback \ {k} : callback'[j].identity # NoIdentity =>
                          callback'[j].code # callback'[k].code
  BY DEF CodesAreSpentOnce
<1> DEFINE Traded(c) == callback[c].identity # NoIdentity /\ callback'[c].code = callback[c].code
           Trades(c) == /\ Exchange(c) /\ code[callback[c].code].step # "spent"
                        /\ callback'[c].code = callback[c].code
<1>1. \A c \in Callback : callback'[c].identity # NoIdentity => Traded(c) \/ Trades(c)
  BY TradesGiveIdentities
<1>2. \A c \in Callback : callback[c].identity # NoIdentity =>
         /\ callback[c].code \in Code /\ code[callback[c].code].step = "spent"
         /\ \A j \in Callback \ {c} :
               callback[j].identity # NoIdentity => callback[j].code # callback[c].code
  BY DEF IInv, CallbackAgrees, CodesAreSpentOnce
<1>3. code'[callback'[k].code].step = "spent"
  <2>1. CASE Traded(k)
    BY <1>2, <2>1, SpentStays
  <2>2. CASE Trades(k)
    BY <2>2, TradeSpends
  <2> QED BY <1>1, <2>1, <2>2
<1>4. ASSUME NEW j \in Callback \ {k}, callback'[j].identity # NoIdentity
      PROVE  callback'[j].code # callback'[k].code
  <2>1. CASE Traded(j) /\ Traded(k)
    BY <1>2, <2>1
  <2>2. CASE Traded(j) /\ Trades(k)
    BY <1>2, <2>2
  <2>3. CASE Trades(j) /\ Traded(k)
    BY <1>2, <2>3
  <2>4. CASE Trades(j) /\ Trades(k)
    <3>1. Moves(j) /\ callback'[j].step # "exchange"
      BY <2>4, ExchangeEffect, CallbackFacts DEF IInv, Exchange, Is
    <3>2. Moves(k) /\ callback[j].step = "exchange"
      BY <2>4, ExchangeEffect, CallbackFacts DEF IInv, Exchange
    <3> QED BY <1>4, <3>1, <3>2 DEF Moves
  <2> QED BY <1>1, <1>4, <2>1, <2>2, <2>3, <2>4
<1> QED BY <1>3, <1>4

\* A callback that has an owner keeps it, and its identity.
LEMMA OwnersStay ==
    ASSUME IInv, [Next]_vars, NEW k \in Callback, callback[k].owner # NoOwner
    PROVE  callback'[k].owner = callback[k].owner /\ callback'[k].identity = callback[k].identity
<1>0. TypeOK /\ CallbackAgrees(k)
  BY DEF IInv
<1>1. callback[k].step \in {"complete", "record", "redirected", "failed"}
  BY <1>0 DEF CallbackAgrees
<1>2. CASE callback'[k] = callback[k]
  BY <1>2
<1>3. CASE CallbackStep(k)
  <2>1. Complete(k) \/ Clear(k) \/ MarkSeen(k) \/ CallbackFails(k)
    BY <1>1, <1>3 DEF CallbackStep, LookUp, Exchange, Resolve, Mint
  <2> QED BY <1>0, <2>1, CompleteEffect, StepEffect DEF Is
<1>4. ASSUME NEW v \in Visit, NEW d \in Code, CallBack(k, v, d) PROVE FALSE
  BY <1>1, <1>4 DEF CallBack
<1>5. ASSUME NEW j \in Callback, j # k,
             CallbackStep(j) \/ \E v \in Visit, d \in Code : CallBack(j, v, d)
      PROVE  callback'[k] = callback[k]
  BY <1>0, <1>5, CallbackMoves, CallBackEffect DEF Moves
<1>6. CASE UNCHANGED callback
  BY <1>2, <1>6
<1> QED BY <1>2, <1>3, <1>4, <1>5, <1>6 DEF Next, VisitStep, Hold, Show, VisitFails, Arrive,
                                          Expire, SignIn, Redeploy, vars

\* An owner is found, or minted by the callback itself.
LEMMA OwnersAreFound ==
    ASSUME IInv, [Next]_vars, NEW k \in Callback, callback'[k].owner # NoOwner
    PROVE  \/ /\ callback[k].owner # NoOwner
              /\ callback'[k].owner = callback[k].owner
              /\ callback'[k].identity = callback[k].identity
           \/ /\ callback[k].identity \in Identity
              /\ callback'[k].identity = callback[k].identity
              /\ callback'[k].owner \in Known(callback[k].identity)
           \/ /\ Mint(k) /\ callback'[k].owner = k
              /\ callback[k].identity \in Identity
              /\ callback'[k].identity = callback[k].identity
<1>0. TypeOK /\ CallbackAgrees(k)
  BY DEF IInv
<1>1. CASE callback[k].owner # NoOwner
  BY <1>1, OwnersStay
<1>2. CASE callback[k].owner = NoOwner /\ callback'[k] = callback[k]
  BY <1>2
<1>3. ASSUME callback[k].owner = NoOwner, CallbackStep(k)
      PROVE  \/ /\ callback[k].identity \in Identity
                /\ callback'[k].identity = callback[k].identity
                /\ callback'[k].owner \in Known(callback[k].identity)
             \/ /\ Mint(k) /\ callback'[k].owner = k
                /\ callback[k].identity \in Identity
                /\ callback'[k].identity = callback[k].identity
  <2>0. callback[k].step # "unsent"
    BY <1>3, CallbackMoves
  <2>1. CASE LookUp(k)
    BY <1>0, <1>3, <2>0, <2>1, CallbackFacts, LookUpEffect DEF Is
  <2>2. CASE Exchange(k)
    BY <1>0, <1>3, <2>0, <2>2, CallbackFacts, ExchangeEffect DEF Is
  <2>3. CASE Resolve(k)
    <3>1. callback[k].identity \in Identity
      BY <1>0, <2>0, <2>3, CallbackFacts DEF CallbackAgrees, Resolve
    <3> QED BY <1>0, <1>3, <2>3, <3>1, ResolveEffect DEF Is
  <2>4. CASE Mint(k)
    <3>1. callback[k].identity \in Identity
      BY <1>0, <2>0, <2>4, CallbackFacts DEF CallbackAgrees, Mint
    <3> QED BY <1>0, <2>4, <3>1, MintEffect DEF Is
  <2>5. CASE Complete(k) \/ Clear(k) \/ MarkSeen(k) \/ CallbackFails(k)
    BY <1>0, <1>3, <2>5, CompleteEffect, StepEffect DEF Is
  <2> QED BY <1>3, <2>1, <2>2, <2>3, <2>4, <2>5 DEF CallbackStep
<1>4. ASSUME callback[k].owner = NoOwner, NEW v \in Visit, NEW d \in Code, CallBack(k, v, d)
      PROVE  FALSE
  BY <1>0, <1>4, CallBackEffect DEF Is
<1>5. ASSUME NEW j \in Callback, j # k,
             CallbackStep(j) \/ \E v \in Visit, d \in Code : CallBack(j, v, d)
      PROVE  callback'[k] = callback[k]
  BY <1>0, <1>5, CallbackMoves, CallBackEffect DEF Moves
<1>6. UNCHANGED callback => callback'[k] = callback[k]
  OBVIOUS
<1> QED BY <1>1, <1>2, <1>3, <1>4, <1>5, <1>6 DEF Next, VisitStep, Hold, Show, VisitFails, Arrive,
                                                  Expire, SignIn, Redeploy, vars

\* Minted in the next state.
MintedThen(o, i) == callback'[o].owner = o /\ callback'[o].identity = i

LEMMA OwnersWereMintedStep == IInv /\ [Next]_vars => OwnersWereMinted'
<1> SUFFICES ASSUME IInv, [Next]_vars PROVE OwnersWereMinted'
  OBVIOUS
<1>0. TypeOK /\ OwnersWereMinted
  BY DEF IInv
<1>1. ASSUME NEW o \in Callback, NEW i, Minted(o, i) PROVE MintedThen(o, i)
  BY <1>1, OwnersStay DEF Minted, MintedThen
<1>2. ASSUME NEW i \in Identity, NEW o \in Known(i), o # NoOwner
      PROVE  o \in Callback /\ Minted(o, i)
  BY <1>0, <1>2 DEF Known, Earlier, OwnersWereMinted, Minted, TypeOK
<1>3. ASSUME NEW k \in Callback, callback'[k].owner # NoOwner
      PROVE  MintedThen(callback'[k].owner, callback'[k].identity)
  <2>1. CASE /\ callback[k].owner # NoOwner
             /\ callback'[k].owner = callback[k].owner
             /\ callback'[k].identity = callback[k].identity
    <3>1. callback[k].owner \in Callback
      BY <1>0, <2>1 DEF TypeOK, CallbackState
    <3>2. Minted(callback[k].owner, callback[k].identity)
      BY <1>0, <2>1 DEF OwnersWereMinted
    <3> QED BY <1>1, <2>1, <3>1, <3>2 DEF Minted, MintedThen
  <2>2. CASE /\ callback[k].identity \in Identity
             /\ callback'[k].identity = callback[k].identity
             /\ callback'[k].owner \in Known(callback[k].identity)
    BY <1>1, <1>2, <1>3, <2>2 DEF Minted, MintedThen
  <2>3. CASE callback'[k].owner = k
    BY <2>3 DEF Minted, MintedThen
  <2> QED BY <1>3, <2>1, <2>2, <2>3, OwnersAreFound
<1>4. ASSUME NEW i \in Identity, mapping'[i] # NoOwner PROVE MintedThen(mapping'[i], i)
  <2>1. CASE mapping'[i] = mapping[i]
    <3>1. mapping[i] \in Callback /\ Minted(mapping[i], i)
      BY <1>0, <1>4, <2>1 DEF TypeOK, OwnersWereMinted
    <3> QED BY <1>1, <2>1, <3>1 DEF Minted, MintedThen
  <2>2. ASSUME NEW k \in Callback, Mint(k) PROVE mapping'[i] = mapping[i] \/ MintedThen(mapping'[i], i)
    <3>1. callback[k].identity \in Identity
      BY <2>2, CallbackFacts DEF IInv, CallbackAgrees, Mint
    <3> QED BY <1>0, <2>2, <3>1, MintEffect DEF Is, MintedThen
  <2>3. UNCHANGED mapping \/ \E k \in Callback : Mint(k)
    <3>1. ASSUME NEW k \in Callback, CallbackStep(k) PROVE UNCHANGED mapping \/ Mint(k)
      BY <3>1, CallbackFrame
    <3> QED BY <3>1 DEF Next, VisitStep, Hold, Show, VisitFails, Arrive, Expire, SignIn, Redeploy,
                        CallBack, vars, keys
  <2> QED BY <2>1, <2>2, <2>3
<1> QED BY <1>3, <1>4 DEF OwnersWereMinted, Minted, MintedThen

----------------------------------------------------------------------------
(* The invariant                                                           *)

LEMMA InitIInv == Init => IInv
<1> SUFFICES ASSUME Init PROVE IInv
  OBVIOUS
<1>1. TypeOK
  BY InitTyped
<1>2. StatesAgree
  BY DEF Init, keys, StatesAgree
<1>3. \A k \in Callback : CallbackAgrees(k)
  BY DEF Init, CallbackAgrees
<1>4. OwnersAgree
  BY DEF Init, OwnersAgree, Minting
<1>5. MarksAgree
  BY DEF Init, MarksAgree
<1>6. OneOwnerUnlessRaced /\ FamiliarClientsWereGranted
  BY DEF Init, OneOwnerUnlessRaced, FamiliarClientsWereGranted
<1>7. CodesAreSpentOnce /\ OwnersWereMinted
  BY DEF Init, CodesAreSpentOnce, OwnersWereMinted
<1> QED BY <1>1, <1>2, <1>3, <1>4, <1>5, <1>6, <1>7 DEF IInv

LEMMA StepIInv == IInv /\ [Next]_vars => IInv'
<1> SUFFICES ASSUME IInv, [Next]_vars PROVE IInv'
  OBVIOUS
<1>1. TypeOK' /\ StatesAgree' /\ (\A k \in Callback : CallbackAgrees(k)') /\ OwnersAgree' /\ MarksAgree'
  BY TypeStep, StatesAgreeStep, CallbackAgreesStep, OwnersAgreeStep, MarksAgreeStep
<1>2. OneOwnerUnlessRaced'
  <2>1. ASSUME NEW k \in Callback, callback'[k].granted, callback'[k].identity \notin raced'
        PROVE  callback'[k].owner = mapping'[callback'[k].identity]
    <3>1. callback'[k].identity \in Identity /\ callback'[k].owner # NoOwner
      BY <1>1, <2>1 DEF CallbackAgrees, TypeOK, CallbackState
    <3> QED BY <1>1, <2>1, <3>1 DEF OwnersAgree
  <2> QED BY <2>1 DEF OneOwnerUnlessRaced
<1>3. FamiliarClientsWereGranted'
  BY <1>1 DEF FamiliarClientsWereGranted, MarksAgree
<1>4. CodesAreSpentOnce' /\ OwnersWereMinted'
  BY CodesAreSpentOnceStep, OwnersWereMintedStep
<1> QED BY <1>1, <1>2, <1>3, <1>4 DEF IInv

----------------------------------------------------------------------------
(* Theorems                                                                *)

\* Whatever logins, failures, expiries and redeployments interleave, the
\* invariant of Login holds.
THEOREM Invariance == Spec => []IInv
  BY InitIInv, StepIInv, PTL DEF Spec

\* Unless two of its first logins overlapped between the read of the mapping
\* and the write of it, every grant of an identity carries its one owner
\* (Owner.ts:130-161).
THEOREM OneOwner == Spec => []OneOwnerUnlessRaced
<1>1. IInv => OneOwnerUnlessRaced
  BY DEF IInv
<1> QED BY <1>1, Invariance, PTL

\* The consent screen takes a client for familiar only after a grant to it
\* (Authorize.ts:104, 172-192).
THEOREM FamiliarMeansGranted == Spec => []FamiliarClientsWereGranted
<1>1. IInv => FamiliarClientsWereGranted
  BY DEF IInv
<1> QED BY <1>1, Invariance, PTL

----------------------------------------------------------------------------
(* The contract: what each step is to it                                   *)

\* A step the contract does not see.
Hides == UNCHANGED <<AskedMap, SignedMap, allowlist, OwnersMap, raced, LoginMap>>

LEMMA LoginSeenCases ==
    ASSUME NEW c, c.granted \in BOOLEAN
    PROVE  /\ c.granted =>
                LoginSeen(c) = [step |-> "granted", state |-> c.state, code |-> c.code,
                                client |-> c.client, owner |-> c.owner]
           /\ ~ c.granted /\ c.step \in {"mint", "complete"} =>
                LoginSeen(c) = [step |-> "admitted", state |-> c.state, code |-> c.code,
                                client |-> NoClient, owner |-> NoOwner]
           /\ ~ c.granted /\ c.step = "failed" =>
                LoginSeen(c) = [step |-> "ended", state |-> NoVisit, code |-> NoCode,
                                client |-> NoClient, owner |-> NoOwner]
           /\ ~ c.granted /\ c.step \notin {"mint", "complete", "failed"} =>
                LoginSeen(c) = [step |-> "none", state |-> NoVisit, code |-> NoCode,
                                client |-> NoClient, owner |-> NoOwner]
<1>1. CASE c.granted
  <2>1. LoginStep(c) = "granted"
    BY <1>1 DEF LoginStep
  <2> QED BY <1>1, <2>1 DEF LoginSeen
<1>2. CASE ~ c.granted /\ c.step \in {"mint", "complete"}
  <2>1. LoginStep(c) = "admitted"
    BY <1>2 DEF LoginStep
  <2> QED BY <1>2, <2>1 DEF LoginSeen
<1>3. CASE ~ c.granted /\ c.step = "failed"
  <2>1. LoginStep(c) = "ended"
    BY <1>3 DEF LoginStep
  <2> QED BY <1>3, <2>1 DEF LoginSeen
<1>4. CASE ~ c.granted /\ c.step \notin {"mint", "complete", "failed"}
  <2>1. LoginStep(c) = "none"
    BY <1>4 DEF LoginStep
  <2> QED BY <1>4, <2>1 DEF LoginSeen
<1> QED BY <1>1, <1>2, <1>3, <1>4

LEMMA GrantedSeen ==
    ASSUME NEW c, c.granted = TRUE
    PROVE  LoginSeen(c) =
              [step |-> "granted", state |-> c.state, code |-> c.code, client |-> c.client,
               owner |-> c.owner]
<1>1. LoginStep(c) = "granted"
  BY DEF LoginStep
<1> QED BY <1>1 DEF LoginSeen

LEMMA LoginMoves ==
    ASSUME NEW k \in Callback, Moves(k)
    PROVE  /\ LoginMap' = [LoginMap EXCEPT ![k] = LoginSeen(callback'[k])]
           /\ LoginSeen(callback'[k]) = LoginSeen(callback[k]) => LoginMap' = LoginMap
<1>1. \A j \in Callback : LoginMap'[j] = LoginSeen(callback'[j]) /\ LoginMap[j] = LoginSeen(callback[j])
  BY DEF LoginMap
<1>2. \A j \in Callback \ {k} : LoginSeen(callback'[j]) = LoginSeen(callback[j])
  BY Zenon DEF Moves
<1>3. LoginMap = [j \in Callback |-> LoginMap[j]] /\ LoginMap' = [j \in Callback |-> LoginMap'[j]]
  BY DEF LoginMap
<1> HIDE DEF LoginMap
<1> QED BY <1>1, <1>2, <1>3

LEMMA OwnersRest ==
    ASSUME NEW k \in Callback, Moves(k),
           \/ callback'[k].owner = callback[k].owner /\ callback'[k].identity = callback[k].identity
           \/ callback[k].owner # k /\ callback'[k].owner # k
    PROVE  OwnersMap' = OwnersMap
<1>1. \A i \in Identity, j \in Callback : MintedThen(j, i) <=> Minted(j, i)
  BY DEF Moves, Minted, MintedThen
<1>2. \A i \in Identity : {j \in Callback : MintedThen(j, i)} = {j \in Callback : Minted(j, i)}
  BY <1>1
<1>3. OwnersMap' = [i \in Identity |-> {j \in Callback : MintedThen(j, i)}]
  BY DEF OwnersMap, Minted, MintedThen
<1> QED BY <1>2, <1>3 DEF OwnersMap

\* A code that was traded is still its person's.
LEMMA SignedRests ==
    ASSUME \A d \in Code : /\ code'[d].identity = code[d].identity
                           /\ code[d].step # "unissued" <=> code'[d].step # "unissued"
    PROVE  SignedMap' = SignedMap
<1> DEFINE S(d) == IF code[d].step = "unissued" THEN NoIdentity ELSE code[d].identity
           T(d) == IF code'[d].step = "unissued" THEN NoIdentity ELSE code'[d].identity
<1>1. \A d \in Code : T(d) = S(d)
  OBVIOUS
<1>2. SignedMap = [d \in Code |-> S(d)] /\ SignedMap' = [d \in Code |-> T(d)]
  BY DEF SignedMap
<1> HIDE DEF S, T
<1> QED BY <1>1, <1>2

LEMMA SignedSeen ==
    ASSUME IInv, NEW k \in Callback, callback[k].step # "unsent"
    PROVE  /\ SignedMap[callback[k].code] = code[callback[k].code].identity
           /\ SignedMap[callback[k].code] # NoIdentity
           /\ AskedMap[StateOf(k)] = visit[StateOf(k)].client
           /\ AskedMap[StateOf(k)] # NoClient
<1>1. /\ callback[k].code \in Code /\ code[callback[k].code].step # "unissued"
      /\ code[callback[k].code].identity \in Identity
      /\ StateOf(k) \in Visit /\ visit[StateOf(k)].step = "shown"
  BY CallbackFacts
<1>2. visit[StateOf(k)].client \in Client
  BY <1>1 DEF IInv, StatesAgree
<1> QED BY <1>1, <1>2, LoginAssumption DEF SignedMap, AskedMap

\* A callback that fails before its grant.
LEMMA FailsContract ==
    ASSUME TypeOK, NEW k \in Callback, Moves(k),
           Is(k, "failed", callback[k].state, callback[k].code,
              callback[k].client, callback[k].identity,
              callback[k].owner, callback[k].granted),
           UNCHANGED <<AskedMap, SignedMap, allowlist, raced>>
    PROVE  Contract!End(k) \/ Hides
<1>1. callback[k].granted \in BOOLEAN /\ callback'[k].granted \in BOOLEAN
  BY DEF TypeOK, CallbackState, Moves
<1>2. OwnersMap' = OwnersMap
  BY OwnersRest DEF Is
<1>3. CASE callback[k].granted
  <2>1. LoginSeen(callback'[k]) = LoginSeen(callback[k])
    <3>1. /\ callback[k].granted = TRUE /\ callback'[k].granted = TRUE
          /\ callback'[k].state = callback[k].state /\ callback'[k].code = callback[k].code
          /\ callback'[k].client = callback[k].client /\ callback'[k].owner = callback[k].owner
      BY <1>1, <1>3 DEF Is
    <3>2. LoginSeen(callback[k]) =
            [step |-> "granted", state |-> callback[k].state, code |-> callback[k].code,
             client |-> callback[k].client, owner |-> callback[k].owner]
      BY <3>1, GrantedSeen
    <3>3. LoginSeen(callback'[k]) =
            [step |-> "granted", state |-> callback'[k].state, code |-> callback'[k].code,
             client |-> callback'[k].client, owner |-> callback'[k].owner]
      BY <3>1, GrantedSeen
    <3> QED BY <3>1, <3>2, <3>3
  <2> QED BY <1>2, <2>1, LoginMoves DEF Hides
<1>4. CASE ~ callback[k].granted /\ callback[k].step = "failed"
  <2>1. LoginSeen(callback'[k]) = LoginSeen(callback[k])
    BY <1>1, <1>4, LoginSeenCases DEF Is
  <2> QED BY <1>2, <2>1, LoginMoves DEF Hides
<1>5. CASE ~ callback[k].granted /\ callback[k].step # "failed"
  <2>1. LoginSeen(callback'[k]) = Contract!Login("ended")
    BY <1>1, <1>5, LoginSeenCases DEF Is, Contract!Login
  <2>2. LoginMap[k].step \in {"none", "admitted"}
    <3>1. LoginSeen(callback[k]).step \in {"none", "admitted"}
      BY <1>1, <1>5, LoginSeenCases
    <3> QED BY <3>1 DEF LoginMap
  <2> QED BY <1>2, <2>1, <2>2, LoginMoves DEF Contract!End
<1> QED BY <1>3, <1>4, <1>5

\* A step before the identity is resolved, or after the grant.
LEMMA QuietContract ==
    ASSUME TypeOK, NEW k \in Callback, Moves(k),
           callback'[k].granted = callback[k].granted,
           callback[k].granted =>
              /\ callback'[k].state = callback[k].state
              /\ callback'[k].code = callback[k].code
              /\ callback'[k].client = callback[k].client
              /\ callback'[k].owner = callback[k].owner,
           ~ callback[k].granted =>
              /\ callback[k].step \notin {"mint", "complete", "failed"}
              /\ callback'[k].step \notin {"mint", "complete", "failed"},
           OwnersMap' = OwnersMap,
           UNCHANGED <<AskedMap, SignedMap, allowlist, raced>>
    PROVE  Hides
<1>1. callback[k].granted \in BOOLEAN /\ callback'[k].granted \in BOOLEAN
  BY DEF TypeOK, CallbackState, Moves
<1>2. LoginSeen(callback'[k]) = LoginSeen(callback[k])
  BY <1>1, LoginSeenCases
<1> QED BY <1>2, LoginMoves DEF Hides

\* The person is let in: with an owner found, or one to be minted.
LEMMA AdmitContract ==
    ASSUME IInv, NEW k \in Callback, callback[k].step = "resolve", Moves(k),
           callback[k].identity \in Identity, callback[k].identity \in allowlist,
           NEW step \in {"mint", "complete"}, NEW o, o # k,
           Is(k, step, callback[k].state, callback[k].code,
              callback[k].client, callback[k].identity, o,
              callback[k].granted),
           \/ UNCHANGED raced
           \/ /\ Contract!MayRace(callback[k].identity)
              /\ raced' = raced \cup {callback[k].identity},
           UNCHANGED <<AskedMap, SignedMap, allowlist>>
    PROVE  Contract!Next
<1> DEFINE v == callback[k].state
           d == callback[k].code
<1>0. /\ TypeOK /\ \A j \in Callback : CallbackAgrees(j)
      /\ CodesAreSpentOnce
  BY DEF IInv
<1>1. /\ d \in Code /\ code[d].identity = callback[k].identity
      /\ ~ callback[k].granted /\ callback[k].owner = NoOwner
      /\ callback[k].identity # NoIdentity
  BY <1>0, CallbackFacts DEF CallbackAgrees
<1>2. /\ SignedMap[d] = callback[k].identity /\ SignedMap[d] # NoIdentity
      /\ v \in Visit /\ AskedMap[v] # NoClient
  BY <1>1, SignedSeen, CallbackFacts DEF StateOf
<1>3. callback'[k].granted \in BOOLEAN /\ \A j \in Callback : callback[j].granted \in BOOLEAN
  BY <1>0 DEF TypeOK, CallbackState, Moves
<1>4. LoginSeen(callback'[k]) =
         [step |-> "admitted", state |-> v, code |-> d, client |-> NoClient, owner |-> NoOwner]
  BY <1>1, <1>3, LoginSeenCases DEF Is
<1>5. LoginMap[k] = Contract!Login("none")
  <2>1. LoginSeen(callback[k]) = Contract!Login("none")
    BY <1>1, <1>3, LoginSeenCases DEF Contract!Login
  <2> QED BY <2>1 DEF LoginMap
<1>6. ASSUME NEW j \in Callback PROVE LoginMap[j].code # d
  <2>1. CASE callback[j].granted \/ callback[j].step \in {"mint", "complete"}
    <3>1. callback[j].identity # NoIdentity /\ j # k
      BY <1>0, <1>1, <2>1 DEF CallbackAgrees
    <3>2. callback[j].code # d
      BY <1>0, <1>1, <3>1 DEF CodesAreSpentOnce
    <3>3. LoginSeen(callback[j]).code = callback[j].code
      BY <1>3, <2>1, LoginSeenCases
    <3> QED BY <3>2, <3>3 DEF LoginMap
  <2>2. CASE ~ (callback[j].granted \/ callback[j].step \in {"mint", "complete"})
    <3>1. LoginSeen(callback[j]).code = NoCode
      BY <1>3, <2>2, LoginSeenCases
    <3>2. NoCode \notin Code
      BY LoginAssumption
    <3> QED BY <1>1, <3>1, <3>2 DEF LoginMap
  <2> QED BY <2>1, <2>2
<1>7. OwnersMap' = OwnersMap
  BY <1>1, OwnersRest DEF Is
<1>8. LoginMap' = [LoginMap EXCEPT ![k] =
         [step |-> "admitted", state |-> v, code |-> d, client |-> NoClient, owner |-> NoOwner]]
  BY <1>4, LoginMoves
<1>9. LoginMap[k].step = "none"
  BY <1>5 DEF Contract!Login
<1>10. Contract!Admit(k, v, d)
  BY <1>2, <1>6, <1>7, <1>8, <1>9 DEF Contract!Admit
<1> QED BY <1>1, <1>2, <1>10 DEF Contract!Next

\* Whose login is under way for the contract.
LEMMA AdmittedSeen ==
    ASSUME IInv, NEW k \in Callback, callback[k].step \in {"mint", "complete"}
    PROVE  /\ LoginMap[k].step = "admitted"
           /\ LoginMap[k].state = callback[k].state /\ LoginMap[k].code = callback[k].code
           /\ callback[k].code \in Code
           /\ callback[k].identity \in Identity
           /\ Contract!IdentityOf(k) = callback[k].identity
<1>0. /\ CallbackAgrees(k) /\ callback[k].granted \in BOOLEAN
  BY DEF IInv, TypeOK, CallbackState
<1>1. ~ callback[k].granted /\ callback[k].identity # NoIdentity
  BY <1>0 DEF CallbackAgrees
<1>2. /\ LoginSeen(callback[k]).step = "admitted"
      /\ LoginSeen(callback[k]).state = callback[k].state
      /\ LoginSeen(callback[k]).code = callback[k].code
  BY <1>0, <1>1, LoginSeenCases
<1>3. /\ LoginMap[k].step = "admitted"
      /\ LoginMap[k].state = callback[k].state /\ LoginMap[k].code = callback[k].code
  BY <1>2 DEF LoginMap
<1>4. /\ callback[k].code \in Code /\ code[callback[k].code].identity = callback[k].identity
      /\ callback[k].identity \in Identity
  BY <1>1, CallbackFacts
<1>5. SignedMap[callback[k].code] = callback[k].identity
  BY <1>4, SignedSeen
<1> QED BY <1>3, <1>4, <1>5 DEF Contract!IdentityOf

LEMMA ResolveContract ==
    ASSUME IInv, NEW k \in Callback, Resolve(k)
    PROVE  Contract!Next \/ Hides
<1> DEFINE i == callback[k].identity
<1>0. /\ TypeOK /\ CallbackAgrees(k) /\ OwnersWereMinted
      /\ callback[k].step = "resolve"
  BY DEF IInv, Resolve
<1>1. i \in Identity /\ callback[k].owner = NoOwner /\ callback[k] \in CallbackState
  BY <1>0, CallbackFacts DEF CallbackAgrees, TypeOK
<1>2. UNCHANGED <<AskedMap, SignedMap, allowlist>>
  BY DEF Resolve, keys, AskedMap, SignedMap
<1>3. NoOwner \notin Callback
  BY LoginAssumption
<1>4. CASE i \notin allowlist /\ GoesTo(k, "failed") /\ UNCHANGED raced
  <2>1. Contract!End(k) \/ Hides
    BY <1>0, <1>2, <1>4, GoesToMoves, FailsContract
  <2> QED BY <2>1 DEF Contract!Next
<1>5. ASSUME i \in allowlist, UNCHANGED raced, NEW o \in Known(i) \ {NoOwner},
             Goes(k, [callback[k] EXCEPT !.step = "complete", !.owner = o])
      PROVE  Contract!Next
  <2>1. o \in Callback /\ Minted(o, i)
    BY <1>0, <1>1, <1>5 DEF Known, Earlier, OwnersWereMinted, Minted, TypeOK
  <2>2. o # k
    BY <1>1, <1>3, <2>1 DEF Minted
  <2>3. [callback[k] EXCEPT !.step = "complete", !.owner = o] \in CallbackState
    BY <1>1, <2>1 DEF CallbackState
  <2>4. Moves(k) /\ callback'[k] = [callback[k] EXCEPT !.step = "complete", !.owner = o]
    BY <1>0, <1>5, <2>3, GoesMoves
  <2>5. Is(k, "complete", callback[k].state, callback[k].code, callback[k].client, i, o,
           callback[k].granted)
    BY <1>1, <2>4 DEF Is, CallbackState
  <2> QED BY <1>0, <1>1, <1>2, <1>5, <2>2, <2>4, <2>5, AdmitContract
<1>6. CASE /\ i \in allowlist /\ NoOwner \in Known(i)
           /\ GoesTo(k, "mint")
           /\ raced' = IF mapping[i] # NoOwner \/ Minting(i) # {} THEN raced \cup {i} ELSE raced
  <2>1. /\ Moves(k)
        /\ Is(k, "mint", callback[k].state, callback[k].code, callback[k].client, i,
              callback[k].owner,
              callback[k].granted)
    BY <1>0, <1>6, GoesToMoves
  <2>2. ASSUME mapping[i] # NoOwner PROVE Contract!MayRace(i)
    <3>1. Lagging
      BY <1>6, <2>2 DEF Known, Earlier
    <3>2. mapping[i] \in Callback /\ Minted(mapping[i], i)
      BY <1>0, <1>1, <2>2 DEF OwnersWereMinted, TypeOK
    <3>3. mapping[i] \in OwnersMap[i]
      BY <1>1, <3>2 DEF OwnersMap
    <3> QED BY <3>1, <3>3 DEF Contract!MayRace
  <2>3. ASSUME NEW j \in Minting(i) PROVE Contract!MayRace(i)
    <3>1. j \in Callback /\ callback[j].step = "mint" /\ callback[j].identity = i
      BY DEF Minting
    <3>2. LoginMap[j].step = "admitted" /\ Contract!IdentityOf(j) = i
      BY <3>1, AdmittedSeen
    <3>3. j \in Contract!LetIn(i)
      BY <3>1, <3>2 DEF Contract!LetIn
    <3> QED BY <3>3 DEF Contract!MayRace
  <2>4. UNCHANGED raced \/ (Contract!MayRace(i) /\ raced' = raced \cup {i})
    BY <1>6, <2>2, <2>3
  <2>5. callback[k].owner # k
    BY <1>1, <1>3
  <2> QED BY <1>0, <1>1, <1>2, <1>6, <2>1, <2>4, <2>5, AdmitContract
<1> QED BY <1>4, <1>5, <1>6 DEF Resolve

\* The first owner of an identity, unless its logins race.
LEMMA MintContract ==
    ASSUME IInv, NEW k \in Callback, Mint(k)
    PROVE  Contract!Next
<1> DEFINE i == callback[k].identity
<1>0. /\ TypeOK /\ CallbackAgrees(k) /\ OwnersAgree
      /\ callback[k].step = "mint"
  BY DEF IInv, Mint
<1>1. /\ LoginMap[k].step = "admitted" /\ Contract!IdentityOf(k) = i /\ i \in Identity
  BY <1>0, AdmittedSeen
<1>2. /\ Moves(k)
      /\ Is(k, "complete", callback[k].state, callback[k].code, callback[k].client, i, k,
            callback[k].granted)
  BY <1>0, <1>1, MintEffect
<1>3. ~ callback[k].granted /\ callback[k].granted \in BOOLEAN /\ callback[k].owner = NoOwner
  BY <1>0 DEF CallbackAgrees, TypeOK, CallbackState
<1>4. LoginMap' = LoginMap
  <2>1. LoginSeen(callback'[k]) = LoginSeen(callback[k])
    BY <1>0, <1>2, <1>3, LoginSeenCases DEF Is
  <2> QED BY <1>2, <2>1, LoginMoves
<1>5. NoOwner \notin Callback
  BY LoginAssumption
<1>6. OwnersMap[i] = {} \/ i \in raced
  <2>1. ASSUME i \notin raced, NEW j \in Callback, Minted(j, i) PROVE FALSE
    <3>1. k \in Minting(i)
      BY <1>0 DEF Minting
    <3>2. mapping[i] = NoOwner
      BY <1>0, <1>1, <2>1, <3>1 DEF OwnersAgree
    <3>3. callback[j].identity = i /\ callback[j].owner = j /\ j # NoOwner
      BY <1>5, <2>1 DEF Minted
    <3>4. callback[j].owner = mapping[i]
      BY <1>0, <1>1, <2>1, <3>3 DEF OwnersAgree
    <3> QED BY <3>2, <3>3, <3>4
  <2> QED BY <1>1, <2>1 DEF OwnersMap
<1>7. OwnersMap' = [OwnersMap EXCEPT ![i] = @ \cup {k}]
  <2>1. \A h \in Identity, j \in Callback :
           MintedThen(j, h) <=> (Minted(j, h) \/ (j = k /\ h = i))
    BY <1>2, <1>3, <1>5 DEF Is, Moves, Minted, MintedThen
  <2>2. OwnersMap' = [h \in Identity |-> {j \in Callback : MintedThen(j, h)}]
    BY DEF OwnersMap, Minted, MintedThen
  <2>3. \A h \in Identity :
           {j \in Callback : MintedThen(j, h)} =
              IF h = i THEN {j \in Callback : Minted(j, h)} \cup {k} ELSE {j \in Callback : Minted(j, h)}
    BY <2>1
  <2> HIDE DEF i
  <2> QED BY <2>2, <2>3 DEF OwnersMap
<1>8. UNCHANGED <<AskedMap, SignedMap, allowlist, raced>>
  BY DEF Mint, AskedMap, SignedMap
<1>9. Contract!Mint(k)
  BY <1>1, <1>4, <1>6, <1>7, <1>8 DEF Contract!Mint
<1> QED BY <1>9 DEF Contract!Next

\* The grant, to an owner that was minted for its identity.
LEMMA CompleteContract ==
    ASSUME IInv, NEW k \in Callback, Complete(k)
    PROVE  Contract!Next
<1> DEFINE o == callback[k].owner
           i == callback[k].identity
<1>0. /\ TypeOK /\ CallbackAgrees(k) /\ OwnersWereMinted
      /\ callback[k].step = "complete"
  BY DEF IInv, Complete
<1>1. /\ LoginMap[k].step = "admitted"
      /\ LoginMap[k].state = StateOf(k) /\ LoginMap[k].code = callback[k].code
      /\ Contract!IdentityOf(k) = i /\ i \in Identity
  BY <1>0, AdmittedSeen DEF StateOf
<1>2. /\ Moves(k)
      /\ Is(k, "record", callback[k].state, callback[k].code, callback[k].client, i, o, TRUE)
  BY <1>0, CompleteEffect
<1>3. /\ o # NoOwner /\ o \in Callback /\ callback[k].client # NoClient
      /\ callback[k].client = visit[StateOf(k)].client
  BY <1>0 DEF CallbackAgrees, TypeOK, CallbackState
<1>4. o \in OwnersMap[i]
  BY <1>0, <1>1, <1>3 DEF OwnersWereMinted, OwnersMap
<1>5. callback[k].client = AskedMap[LoginMap[k].state]
  BY <1>0, <1>1, <1>3, SignedSeen
<1>6. LoginSeen(callback'[k]) =
         [step |-> "granted", state |-> LoginMap[k].state, code |-> LoginMap[k].code,
          client |-> AskedMap[LoginMap[k].state], owner |-> o]
  <2>1. callback'[k].granted = TRUE
    BY <1>2 DEF Is
  <2>2. LoginSeen(callback'[k]) =
          [step |-> "granted", state |-> callback'[k].state, code |-> callback'[k].code,
           client |-> callback'[k].client, owner |-> callback'[k].owner]
    BY <2>1, GrantedSeen
  <2> QED BY <1>1, <1>2, <1>5, <2>2 DEF Is, StateOf
<1>7. UNCHANGED <<AskedMap, SignedMap, allowlist, raced>>
  BY DEF Complete, keys, AskedMap, SignedMap
<1>8. OwnersMap' = OwnersMap
  BY <1>2, OwnersRest DEF Is
<1>9. LoginMap' = [LoginMap EXCEPT ![k] =
         [step |-> "granted", state |-> LoginMap[k].state, code |-> LoginMap[k].code,
          client |-> AskedMap[LoginMap[k].state], owner |-> o]]
  BY <1>2, <1>6, LoginMoves
<1>10. Contract!Grant(k)
  BY <1>1, <1>4, <1>7, <1>8, <1>9 DEF Contract!Grant
<1> QED BY <1>10 DEF Contract!Next

LEMMA CallbackContract ==
    ASSUME IInv, NEW k \in Callback, CallbackStep(k)
    PROVE  Contract!Next \/ Hides
<1>0. /\ TypeOK /\ CallbackAgrees(k) /\ callback[k].step # "unsent"
      /\ NoOwner \notin Callback
  BY CallbackMoves, LoginAssumption DEF IInv
<1>1. /\ callback[k].code \in Code /\ StateOf(k) \in Visit
      /\ callback[k].granted \in BOOLEAN
  BY <1>0, CallbackFacts DEF TypeOK, CallbackState
<1>2. AskedMap' = AskedMap /\ allowlist' = allowlist
  BY CallbackFrame DEF AskedMap
<1>3. Contract!End(k) => Contract!Next
  BY DEF Contract!Next
<1>4. CASE LookUp(k)
  <2>1. UNCHANGED <<AskedMap, SignedMap, allowlist, raced>> /\ ~ callback[k].granted
    BY <1>0, <1>2, <1>4 DEF LookUp, SignedMap, CallbackAgrees
  <2>2. CASE GoesTo(k, "failed")
    BY <1>0, <1>3, <2>1, <2>2, GoesToMoves, FailsContract
  <2>3. ASSUME NEW c, Moves(k),
               Is(k, "clear", callback[k].state, callback[k].code, c, callback[k].identity,
                  callback[k].owner,
                  callback[k].granted)
        PROVE  Hides
    <3>1. OwnersMap' = OwnersMap
      BY <2>3, OwnersRest DEF Is
    <3>2. callback'[k].granted = callback[k].granted /\ callback'[k].step = "clear"
      BY <2>3 DEF Is
    <3>3. callback[k].step = "lookup"
      BY <1>4 DEF LookUp
    <3> QED BY <1>0, <2>1, <2>3, <3>1, <3>2, <3>3, QuietContract
  <2>4. Moves(k)
    BY <1>4, CallbackMoves
  <2>5. \/ Is(k, "failed", callback[k].state, callback[k].code,
              callback[k].client, callback[k].identity,
              callback[k].owner, callback[k].granted)
        \/ \E c \in Found(StateOf(k)) \ {NoClient} :
              Is(k, "clear", callback[k].state, callback[k].code, c, callback[k].identity,
                 callback[k].owner, callback[k].granted)
    BY <1>0, <1>1, <1>4, LookUpEffect
  <2> QED BY <1>0, <1>3, <2>1, <2>3, <2>4, <2>5, FailsContract
<1>5. CASE Exchange(k)
  <2>1. /\ \A d \in Code : /\ code'[d].identity = code[d].identity
                           /\ code[d].step # "unissued" <=> code'[d].step # "unissued"
        /\ Moves(k)
        /\ \/ Is(k, "failed", callback[k].state, callback[k].code,
                 callback[k].client, callback[k].identity,
                 callback[k].owner, callback[k].granted)
           \/ Is(k, "resolve", callback[k].state, callback[k].code, callback[k].client,
                 code[callback[k].code].identity, callback[k].owner, callback[k].granted)
    <3>1. /\ Moves(k)
          /\ \/ Is(k, "failed", callback[k].state, callback[k].code,
                   callback[k].client, callback[k].identity,
                   callback[k].owner, callback[k].granted)
             \/ Is(k, "resolve", callback[k].state, callback[k].code, callback[k].client,
                   code[callback[k].code].identity, callback[k].owner, callback[k].granted)
      BY <1>0, <1>1, <1>5, ExchangeEffect
    <3>2. \A d \in Code : /\ code'[d].identity = code[d].identity
                          /\ code[d].step # "unissued" => code'[d].step # "unissued"
                          /\ code'[d].step = "unissued" => code[d].step = "unissued"
                          /\ d # callback[k].code => code'[d] = code[d]
      BY <1>0, <1>1, <1>5, ExchangeEffect
    <3>3. code[callback[k].code].step # "unissued"
      BY <1>0, CallbackFacts
    <3>4. \A d \in Code : code[d].step # "unissued" <=> code'[d].step # "unissued"
      BY <3>2, <3>3
    <3> QED BY <3>1, <3>2, <3>4
  <2>2. UNCHANGED <<AskedMap, SignedMap, allowlist, raced>>
    BY <1>2, <1>5, <2>1, SignedRests DEF Exchange
  <2>3. callback[k].step = "exchange" /\ ~ callback[k].granted /\ callback[k].owner = NoOwner
    BY <1>0, <1>5 DEF Exchange, CallbackAgrees
  <2>4. CASE Is(k, "failed", callback[k].state, callback[k].code,
                callback[k].client, callback[k].identity,
                callback[k].owner, callback[k].granted)
    BY <1>0, <1>3, <2>1, <2>2, <2>4, FailsContract
  <2>5. CASE Is(k, "resolve", callback[k].state, callback[k].code, callback[k].client,
                code[callback[k].code].identity, callback[k].owner, callback[k].granted)
    <3>1. OwnersMap' = OwnersMap
      BY <1>0, <2>1, <2>3, <2>5, OwnersRest DEF Is
    <3>2. callback'[k].granted = callback[k].granted /\ callback'[k].step = "resolve"
      BY <2>5 DEF Is
    <3> QED BY <1>0, <2>1, <2>2, <2>3, <3>1, <3>2, QuietContract
  <2> QED BY <2>1, <2>4, <2>5
<1>6. CASE Clear(k) \/ MarkSeen(k) \/ CallbackFails(k)
  <2>1. UNCHANGED <<AskedMap, SignedMap, allowlist, raced>>
    BY <1>2, <1>6 DEF Clear, MarkSeen, CallbackFails, keys, SignedMap
  <2>2. PICK step \in {"exchange", "redirected", "failed"} :
           /\ Moves(k)
           /\ Is(k, step, callback[k].state, callback[k].code,
                 callback[k].client, callback[k].identity,
                 callback[k].owner, callback[k].granted)
           /\ step = "redirected" => callback[k].step = "record"
           /\ step = "exchange" => callback[k].step = "clear"
    BY <1>0, <1>6, StepEffect
  <2>3. CASE step = "failed"
    BY <1>0, <1>3, <2>1, <2>2, <2>3, FailsContract
  <2>4. CASE step # "failed"
    <3>1. OwnersMap' = OwnersMap
      BY <2>2, OwnersRest DEF Is
    <3>2. /\ callback'[k].granted = callback[k].granted
          /\ callback'[k].state = callback[k].state /\ callback'[k].code = callback[k].code
          /\ callback'[k].client = callback[k].client
          /\ callback'[k].owner = callback[k].owner
          /\ callback'[k].step = step
      BY <2>2 DEF Is
    <3>3. ~ callback[k].granted => callback[k].step = "clear" /\ step = "exchange"
      BY <1>0, <2>2, <2>4 DEF CallbackAgrees
    <3>4. ~ callback[k].granted =>
              /\ callback[k].step \notin {"mint", "complete", "failed"}
              /\ callback'[k].step \notin {"mint", "complete", "failed"}
      BY <3>2, <3>3
    <3> QED BY <1>0, <2>1, <2>2, <3>1, <3>2, <3>4, QuietContract
  <2> QED BY <2>3, <2>4
<1>7. CASE Resolve(k)
  BY <1>7, ResolveContract
<1>8. CASE Mint(k)
  BY <1>8, MintContract
<1>9. CASE Complete(k)
  BY <1>9, CompleteContract
<1> QED BY <1>4, <1>5, <1>6, <1>7, <1>8, <1>9 DEF CallbackStep

LEMMA VisitContract ==
    ASSUME IInv, NEW v \in Visit, VisitStep(v) \/ \E c \in Client : Arrive(v, c)
    PROVE  Contract!Next \/ Hides
<1>0. TypeOK
  BY DEF IInv
<1>1. UNCHANGED <<SignedMap, allowlist, OwnersMap, raced, LoginMap>>
  <2>1. UNCHANGED <<allowlist, code, callback, raced>>
    BY DEF VisitStep, Hold, Show, VisitFails, Arrive, keys
  <2> QED BY <2>1 DEF SignedMap, OwnersMap, LoginMap, Minted
<1>2. /\ \A u \in Visit \ {v} : visit'[u] = visit[u]
      /\ \/ visit[v].step = "unseen" /\ visit'[v].step = "hold" /\ visit'[v].client \in Client
         \/ /\ visit[v].step # "unseen" /\ visit'[v].step # "unseen"
            /\ visit'[v].client = visit[v].client
  BY <1>0, VisitEffect
<1>3. CASE visit[v].step = "unseen" /\ visit'[v].step = "hold" /\ visit'[v].client \in Client
  <2>1. AskedMap[v] = NoClient
    BY <1>3 DEF AskedMap
  <2>2. AskedMap' = [AskedMap EXCEPT ![v] = visit'[v].client]
    BY <1>2, <1>3 DEF AskedMap
  <2>3. Contract!Ask(v, visit'[v].client)
    BY <1>1, <2>1, <2>2 DEF Contract!Ask
  <2> QED BY <1>3, <2>3 DEF Contract!Next
<1>4. CASE /\ visit[v].step # "unseen" /\ visit'[v].step # "unseen"
           /\ visit'[v].client = visit[v].client
  <2>1. AskedMap' = AskedMap
    BY <1>2, <1>4 DEF AskedMap
  <2> QED BY <1>1, <2>1 DEF Hides
<1> QED BY <1>2, <1>3, <1>4

LEMMA SignInContract ==
    ASSUME IInv, NEW v \in Visit, NEW d \in Code, NEW i \in Identity, SignIn(v, d, i)
    PROVE  Contract!Next
<1>0. TypeOK /\ StatesAgree
  BY DEF IInv
<1>1. UNCHANGED <<AskedMap, allowlist, OwnersMap, raced, LoginMap>>
  <2>1. UNCHANGED <<allowlist, visit, callback, raced>>
    BY DEF SignIn, keys
  <2> QED BY <2>1 DEF AskedMap, OwnersMap, LoginMap, Minted
<1>2. /\ code[d].step = "unissued" /\ code'[d].step = "issued"
      /\ code'[d].identity = i
      /\ \A e \in Code \ {d} : code'[e] = code[e]
  BY <1>0, SignInEffect
<1>3. SignedMap[d] = NoIdentity
  BY <1>2 DEF SignedMap
<1>4. SignedMap' = [SignedMap EXCEPT ![d] = i]
  BY <1>2 DEF SignedMap
<1>5. AskedMap[v] # NoClient
  BY <1>0, LoginAssumption DEF SignIn, StatesAgree, AskedMap
<1>6. Contract!SignIn(v, d, i)
  BY <1>1, <1>3, <1>4, <1>5 DEF Contract!SignIn
<1> QED BY <1>6 DEF Contract!Next

LEMMA ContractInit == Init => Contract!Init
<1> SUFFICES ASSUME Init PROVE Contract!Init
  OBVIOUS
<1>1. AskedMap = [v \in Visit |-> NoClient] /\ SignedMap = [d \in Code |-> NoIdentity]
  BY DEF Init, AskedMap, SignedMap
<1>2. OwnersMap = [i \in Identity |-> {}]
  BY LoginAssumption DEF Init, OwnersMap, Minted
<1>3. LoginMap = [k \in Callback |-> Contract!Login("none")]
  <2>1. ASSUME NEW k \in Callback PROVE LoginSeen(callback[k]) = Contract!Login("none")
    <3>1. callback[k].granted \in BOOLEAN /\ ~ callback[k].granted /\ callback[k].step = "unsent"
      BY DEF Init
    <3> QED BY <3>1, LoginSeenCases DEF Contract!Login
  <2> QED BY <2>1 DEF LoginMap
<1> QED BY <1>1, <1>2, <1>3 DEF Init, Contract!Init

LEMMA ContractStep ==
    IInv /\ [Next]_vars =>
        [Contract!Next]_<<AskedMap, SignedMap, allowlist, OwnersMap, raced, LoginMap>>
<1> SUFFICES ASSUME IInv, [Next]_vars PROVE Contract!Next \/ Hides
  BY DEF Hides
<1>0. TypeOK /\ \A k \in Callback : CallbackAgrees(k)
  BY DEF IInv
<1>1. ASSUME NEW v \in Visit, VisitStep(v) \/ \E c \in Client : Arrive(v, c)
      PROVE  Contract!Next \/ Hides
  BY <1>1, VisitContract
<1>2. ASSUME NEW v \in Visit, NEW d \in Code, NEW i \in Identity, SignIn(v, d, i)
      PROVE  Contract!Next \/ Hides
  BY <1>2, SignInContract
<1>3. ASSUME NEW v \in Visit, Expire(v) PROVE Hides
  BY <1>3 DEF Expire, Hides, AskedMap, SignedMap, OwnersMap, LoginMap, Minted
<1>4. CASE Redeploy
  <2>1. UNCHANGED <<AskedMap, SignedMap, OwnersMap, raced, LoginMap>>
    BY <1>4 DEF Redeploy, AskedMap, SignedMap, OwnersMap, LoginMap, Minted
  <2>2. Contract!Allow
    BY <1>4, <2>1 DEF Redeploy, Contract!Allow
  <2> QED BY <2>2 DEF Contract!Next
<1>5. ASSUME NEW k \in Callback, CallbackStep(k) PROVE Contract!Next \/ Hides
  BY <1>5, CallbackContract
<1>6. ASSUME NEW k \in Callback, NEW v \in Visit, NEW d \in Code, CallBack(k, v, d) PROVE Hides
  <2>1. /\ Moves(k)
        /\ Is(k, "lookup", v, d, callback[k].client, callback[k].identity, callback[k].owner,
              callback[k].granted)
    BY <1>0, <1>6, CallBackEffect
  <2>2. UNCHANGED <<AskedMap, SignedMap, allowlist, raced>>
    BY <1>6 DEF CallBack, keys, AskedMap, SignedMap
  <2>3. callback[k].step = "unsent" /\ ~ callback[k].granted
    BY <1>0, <1>6 DEF CallBack, CallbackAgrees
  <2>4. OwnersMap' = OwnersMap
    BY <2>1, OwnersRest DEF Is
  <2>5. callback'[k].granted = callback[k].granted /\ callback'[k].step = "lookup"
    BY <2>1 DEF Is
  <2> QED BY <1>0, <2>1, <2>2, <2>3, <2>4, <2>5, QuietContract
<1>7. CASE UNCHANGED vars
  BY <1>7 DEF vars, keys, Hides, AskedMap, SignedMap, OwnersMap, LoginMap, Minted
<1> QED BY <1>1, <1>2, <1>3, <1>4, <1>5, <1>6, <1>7 DEF Next

\* The login with all its awaits implements the contract in which a person is
\* let in, given an owner and granted in single steps (Authorize.ts:148-201,
\* Owner.ts:130-161).
THEOREM Implementation == Spec => ContractSpec
  BY ContractInit, ContractStep, Invariance, PTL DEF Spec, ContractSpec, Contract!Spec
=============================================================================
