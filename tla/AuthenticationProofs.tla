------------------------ MODULE AuthenticationProofs ------------------------
(***************************************************************************)
(* For every set of sessions and every bound: AInv is inductive, every     *)
(* step of Authentication is a step of OneTimeLogin or a stutter, and a    *)
(* text is used once unless a second was the seed of two authenticators.   *)
(***************************************************************************)
EXTENDS Authentication, FiniteSetTheorems, TLAPS

\* The first object, and a null pointer that is none of them.
LEMMA ObjectFacts == Objects \subseteq Nat /\ 1 \in Objects /\ Null \notin Objects
<1>1. Cardinality(Sessions) \in Nat
  BY FS_CardinalityType, AuthenticationAssumption
<1>2. QED
  BY <1>1, AuthenticationAssumption DEF Objects

LEMMA InitHolds == Init => AInv
<1>. SUFFICES ASSUME Init PROVE AInv
  OBVIOUS
<1>1. TypeOK
  BY ObjectFacts, AuthenticationAssumption
  DEF Init, TypeOK, Authenticators, NewToken, NewNone, Seconds
<1>2. \A o \in Objects : ~Live(o)
  BY DEF Init, Live, NewToken, NewNone
<1>3. CastSafe /\ ShownTokenWorks
  BY ObjectFacts DEF Init, CastSafe, ShownTokenWorks, NewToken
<1>4. QED
  BY <1>1, <1>2, <1>3 DEF AInv, TokensSound, Init

-----------------------------------------------------------------------------
(* The invariant, action by action.                                        *)

\* A new text in o, whatever o held before, is held by o alone.
LEMMA GenerateSound ==
  ASSUME AInv, NEW o \in Objects, NEW second \in Seconds,
         NEW nth \in 1..(issued + 1), issued < MaxTokens,
         Generate(o, second, nth)
  PROVE  /\ obj' \in [Objects -> Authenticators]
         /\ obj'[o] = [kind |-> "token", text |-> <<second, nth>>, gen |-> issued + 1]
         /\ \A p \in Objects \ {o} : obj'[p] = obj[p]
         /\ drawn' = nth /\ issued' = issued + 1 /\ issued' \in 1..MaxTokens
         /\ issued' \notin spent'
         /\ TokensSound'
<1>1. issued \in Nat /\ issued + 1 \in 1..MaxTokens /\ MaxTokens \in Nat
  BY AuthenticationAssumption DEF AInv, TypeOK
<1>2. <<second, nth>> \in Texts /\ <<second, nth>> # NoText
  BY <1>1 DEF Texts, NoText
<1>3. /\ drawn' = nth /\ issued' = issued + 1 /\ spent' = spent
      /\ obj' = [obj EXCEPT ![o] =
                   [kind |-> "token", text |-> <<second, nth>>, gen |-> issued + 1]]
  BY DEF Generate
<1>4. /\ obj' \in [Objects -> Authenticators]
      /\ obj'[o] = [kind |-> "token", text |-> <<second, nth>>, gen |-> issued + 1]
      /\ \A p \in Objects \ {o} : obj'[p] = obj[p]
  <2>. DEFINE new == [kind |-> "token", text |-> <<second, nth>>, gen |-> issued + 1]
  <2>1. new \in Authenticators
    BY <1>1, <1>2 DEF Authenticators
  <2>. HIDE DEF new
  <2>2. obj \in [Objects -> Authenticators] /\ obj' = [obj EXCEPT ![o] = new]
    BY <1>3 DEF AInv, TypeOK, new
  <2>3. QED
    BY <2>1, <2>2 DEF new
<1>5. spent \subseteq 1..issued /\ issued + 1 \notin spent
  BY <1>1 DEF AInv, TokensSound
<1>6. \A p \in Objects \ {o} :
        Live(p)' => obj'[p].kind = "token" /\ obj'[p].gen \in (1..issued) \ spent
  BY <1>4 DEF AInv, TokensSound, Live
<1>7. \A p \in Objects :
        Live(p)' => obj'[p].kind = "token" /\ obj'[p].gen \in (1..issued') \ spent'
  BY <1>1, <1>3, <1>4, <1>5, <1>6
<1>8. ASSUME NEW p \in Objects, NEW q \in Objects,
             Live(p)', Live(q)', obj'[p].gen = obj'[q].gen
      PROVE  p = q
  <2>1. CASE p = o \/ q = o
    BY <2>1, <1>1, <1>4, <1>6, <1>8
  <2>2. CASE p # o /\ q # o
    BY <2>2, <1>4, <1>8 DEF AInv, TokensSound, Live
  <2>3. QED
    BY <2>1, <2>2
<1>9. spent' \subseteq 1..issued'
  BY <1>1, <1>3, <1>5
<1>10. QED
  BY <1>1, <1>3, <1>4, <1>5, <1>7, <1>8, <1>9 DEF TokensSound

\* A new authenticator is nobody's, and not the null pointer.
LEMMA FreeFacts ==
  ASSUME NEW o, Free(o)
  PROVE  /\ o \in Objects /\ o # uiAuth /\ o # serverAuth
         /\ \A s \in Sessions : mAuth[s] # o
BY DEF Free, Referenced

LEMMA GenerateTokenStep == AInv /\ GenerateToken => AInv'
<1>. SUFFICES ASSUME AInv, GenerateToken PROVE AInv'
  OBVIOUS
<1>1. /\ mAuth' = mAuth /\ mState' = mState /\ clock' = clock
      /\ spent' = spent /\ accepted' = accepted
  BY DEF GenerateToken, Generate
<1>2. CASE enabled /\ Generate(uiAuth, seed, drawn + 1)
             /\ UNCHANGED <<interface, seed, created>>
  <2>1. uiAuth \in Objects /\ seed \in Seconds /\ drawn + 1 \in 1..(issued + 1)
        /\ issued < MaxTokens
    BY <1>2, AuthenticationAssumption DEF AInv, TypeOK, GenerateToken
  <2>2. /\ obj' \in [Objects -> Authenticators]
        /\ obj'[uiAuth] = [kind |-> "token", text |-> <<seed, drawn + 1>>,
                           gen |-> issued + 1]
        /\ drawn' = drawn + 1 /\ issued' = issued + 1 /\ issued' \in 1..MaxTokens
        /\ issued' \notin spent' /\ TokensSound'
    BY <1>2, <2>1, GenerateSound
  <2>3. uiAuth' = uiAuth /\ serverAuth' = serverAuth /\ enabled' = enabled
        /\ seed' = seed /\ created' = created
    BY <1>2 DEF interface
  <2>4. TypeOK'
    BY <1>1, <2>1, <2>2, <2>3 DEF AInv, TypeOK
  <2>5. CastSafe' /\ ShownTokenWorks'
    BY <1>2, <2>2, <2>3, ObjectFacts DEF AInv, CastSafe, ShownTokenWorks
  <2>6. QED
    BY <1>1, <2>2, <2>4, <2>5 DEF AInv
<1>3. ASSUME ~enabled, enabled' = TRUE, seed' = clock,
             created' = [created EXCEPT ![clock] = @ + 1],
             NEW o \in Objects, Free(o), uiAuth' = o, serverAuth' = o,
             Generate(o, clock, 1)
      PROVE  AInv'
  <2>1. clock \in Seconds /\ 1 \in 1..(issued + 1) /\ issued < MaxTokens
    BY AuthenticationAssumption DEF AInv, TypeOK, GenerateToken
  <2>2. /\ obj' \in [Objects -> Authenticators]
        /\ obj'[o] = [kind |-> "token", text |-> <<clock, 1>>, gen |-> issued + 1]
        /\ drawn' = 1 /\ issued' = issued + 1 /\ issued' \in 1..MaxTokens
        /\ issued' \notin spent' /\ TokensSound'
    BY <1>3, <2>1, GenerateSound
  <2>3. created' \in [Seconds -> Nat]
    BY <1>3, <2>1 DEF AInv, TypeOK
  <2>4. TypeOK'
    BY <1>1, <1>3, <2>1, <2>2, <2>3 DEF AInv, TypeOK
  <2>5. CastSafe' /\ ShownTokenWorks'
    BY <1>3, <2>2 DEF CastSafe, ShownTokenWorks
  <2>6. QED
    BY <1>1, <2>2, <2>4, <2>5 DEF AInv
<1>4. QED
  BY <1>2, <1>3 DEF GenerateToken

LEMMA DisableStep == AInv /\ DisableAuthentication => AInv'
<1>. SUFFICES ASSUME AInv, DisableAuthentication PROVE AInv'
  OBVIOUS
<1>1. PICK o \in Objects : Free(o) /\ uiAuth' = o /\ serverAuth' = o
                           /\ obj' = [obj EXCEPT ![o] = NewNone]
  BY DEF DisableAuthentication
<1>2. /\ enabled' = FALSE /\ enabled
      /\ UNCHANGED <<mAuth, mState, clock, seed, drawn, created, issued, spent, accepted>>
  BY DEF DisableAuthentication, sessions, random
<1>3. /\ obj' \in [Objects -> Authenticators]
      /\ obj'[o] = NewNone
      /\ \A p \in Objects \ {o} : obj'[p] = obj[p]
  <2>1. NewNone \in Authenticators
    BY AuthenticationAssumption DEF NewNone, Authenticators
  <2>2. QED
    BY <1>1, <2>1 DEF AInv, TypeOK
<1>4. TypeOK'
  BY <1>1, <1>2, <1>3 DEF AInv, TypeOK
<1>5. CastSafe' /\ ShownTokenWorks'
  BY <1>1, <1>2, <1>3 DEF CastSafe, ShownTokenWorks, NewNone
<1>6. TokensSound'
  <2>1. ~Live(o)'
    BY <1>3 DEF Live, NewNone
  <2>2. QED
    BY <1>2, <1>3, <2>1 DEF AInv, TokensSound, Live
<1>7. QED
  BY <1>2, <1>4, <1>5, <1>6 DEF AInv

\* Steps that touch neither the authenticators nor the tokens.
LEMMA OtherStep ==
  ASSUME AInv, obj' = obj, uiAuth' = uiAuth, enabled' = enabled,
         UNCHANGED <<seed, drawn, created, issued, spent, accepted>>,
         serverAuth' \in {serverAuth, Null}, clock' \in Seconds,
         mAuth' \in [Sessions -> Objects \cup {Null}],
         mState' \in [Sessions -> {"absent", "login", "password", "ready"}],
         \A s \in Sessions : mState'[s] = "absent" <=> mAuth'[s] = Null
  PROVE  AInv'
<1>1. TypeOK'
  BY DEF AInv, TypeOK
<1>2. CastSafe' /\ ShownTokenWorks'
  BY DEF AInv, CastSafe, ShownTokenWorks
<1>3. TokensSound'
  BY DEF AInv, TokensSound, Live
<1>4. QED
  BY <1>1, <1>2, <1>3 DEF AInv

\* The sessions of S end and the others stay as they are.
LEMMA GoneFacts ==
  ASSUME AInv, NEW S \in SUBSET Sessions, Gone(S)
  PROVE  /\ mAuth' \in [Sessions -> Objects \cup {Null}]
         /\ mState' \in [Sessions -> {"absent", "login", "password", "ready"}]
         /\ \A s \in Sessions : mState'[s] = "absent" <=> mAuth'[s] = Null
BY DEF AInv, TypeOK, Gone

LEMMA MovesFacts ==
  ASSUME AInv, NEW s \in Sessions, mState[s] # "absent",
         NEW next \in {"login", "password", "ready"}, Moves(s, next)
  PROVE  /\ mAuth' \in [Sessions -> Objects \cup {Null}]
         /\ mState' \in [Sessions -> {"absent", "login", "password", "ready"}]
         /\ \A t \in Sessions : mState'[t] = "absent" <=> mAuth'[t] = Null
BY DEF AInv, TypeOK, Moves

\* A token that is accepted is no longer live, and nothing else changes hands.
LEMMA SpendFacts ==
  ASSUME AInv, NEW o \in Objects, NEW pw, Password(o, pw), Spend(o)
  PROVE  /\ obj' \in [Objects -> Authenticators]
         /\ \A p \in Objects : obj'[p].kind = obj[p].kind
         /\ spent' \in SUBSET (1..MaxTokens)
         /\ accepted' \in [Texts -> Nat]
         /\ TokensSound' \/ issued' # issued
         /\ issued \notin spent' =>
              \A p \in Objects : obj[p].gen = issued => obj'[p] = obj[p]
         /\ spent \subseteq spent'
         /\ IF obj[o].kind = "token"
            THEN \E g \in (1..issued) \ spent : spent' = spent \cup {g}
            ELSE spent' = spent
<1>1. CASE obj[o].kind = "token"
  <2>1. Live(o) /\ obj[o].gen \in (1..issued) \ spent
    BY <1>1 DEF Password, Live, AInv, TokensSound
  <2>2. /\ obj' = [obj EXCEPT ![o].text = NoText]
        /\ spent' = spent \cup {obj[o].gen}
        /\ accepted' = [t \in Texts |->
                          IF t = obj[o].text THEN accepted[t] + 1 ELSE accepted[t]]
    BY <1>1 DEF Spend
  <2>3. /\ obj' \in [Objects -> Authenticators]
        /\ obj'[o].text = NoText /\ obj'[o].kind = obj[o].kind
        /\ \A p \in Objects \ {o} : obj'[p] = obj[p]
    BY <2>2 DEF AInv, TypeOK, Authenticators
  <2>4. spent' \in SUBSET (1..MaxTokens)
    BY <2>1, <2>2, AuthenticationAssumption DEF AInv, TypeOK
  <2>5. accepted' \in [Texts -> Nat]
    BY <2>2 DEF AInv, TypeOK
  <2>6. ASSUME issued' = issued PROVE TokensSound'
    <3>1. ~Live(o)'
      BY <2>3 DEF Live
    <3>2. \A p \in Objects \ {o} : Live(p)' => Live(p) /\ obj[p].gen # obj[o].gen
      BY <2>1, <2>3 DEF Live, AInv, TokensSound
    <3>3. spent' \subseteq 1..issued'
      BY <2>1, <2>2, <2>6 DEF AInv, TokensSound
    <3>4. QED
      BY <2>2, <2>3, <2>6, <3>1, <3>2, <3>3 DEF AInv, TokensSound
  <2>7. issued \notin spent' =>
          \A p \in Objects : obj[p].gen = issued => obj'[p] = obj[p]
    BY <2>2, <2>3
  <2>8. QED
    BY <1>1, <2>1, <2>2, <2>3, <2>4, <2>5, <2>6, <2>7
<1>2. CASE obj[o].kind # "token"
  BY <1>2 DEF Spend, AInv, TypeOK, TokensSound, Live
<1>3. QED
  BY <1>1, <1>2

LEMMA AwaitPasswordStep == AInv /\ (\E s \in Sessions : AwaitPassword(s)) => AInv'
<1>. SUFFICES ASSUME AInv, NEW s \in Sessions, AwaitPassword(s) PROVE AInv'
  OBVIOUS
<1>1. mState[s] = "password" /\ mAuth[s] \in Objects
  BY DEF AInv, TypeOK, AwaitPassword
<1>2. UNCHANGED <<uiAuth, serverAuth, enabled, clock, seed, drawn, created, issued>>
  BY DEF AwaitPassword, interface, random
<1>3. ASSUME NEW pw, Password(mAuth[s], pw), Spend(mAuth[s]),
             Moves(s, "ready") \/ Gone({s})
      PROVE  AInv'
  <2>1. /\ mAuth' \in [Sessions -> Objects \cup {Null}]
        /\ mState' \in [Sessions -> {"absent", "login", "password", "ready"}]
        /\ \A t \in Sessions : mState'[t] = "absent" <=> mAuth'[t] = Null
    BY <1>1, <1>3, MovesFacts, GoneFacts
  <2>2. /\ obj' \in [Objects -> Authenticators]
        /\ \A p \in Objects : obj'[p].kind = obj[p].kind
        /\ spent' \in SUBSET (1..MaxTokens)
        /\ accepted' \in [Texts -> Nat]
        /\ TokensSound'
        /\ issued \notin spent' =>
             \A p \in Objects : obj[p].gen = issued => obj'[p] = obj[p]
        /\ spent \subseteq spent'
    BY <1>1, <1>2, <1>3, SpendFacts
  <2>3. TypeOK'
    BY <1>2, <2>1, <2>2 DEF AInv, TypeOK
  <2>4. CastSafe'
    BY <1>2, <2>2 DEF AInv, TypeOK, CastSafe
  <2>5. ShownTokenWorks'
    BY <1>2, <2>2 DEF AInv, TypeOK, CastSafe, ShownTokenWorks
  <2>6. QED
    BY <2>1, <2>2, <2>3, <2>4, <2>5 DEF AInv
<1>4. ASSUME Moves(s, "login"), UNCHANGED <<obj, spent, accepted>>
      PROVE  AInv'
  BY <1>1, <1>2, <1>4, MovesFacts, OtherStep DEF AInv, TypeOK
<1>5. QED
  BY <1>3, <1>4 DEF AwaitPassword

LEMMA NextStep == AInv /\ [Next]_vars => AInv'
<1>. SUFFICES ASSUME AInv, [Next]_vars PROVE AInv'
  OBVIOUS
<1>. USE DEF interface, sessions, random
<1>1. CASE GenerateToken
  BY <1>1, GenerateTokenStep
<1>2. CASE DisableAuthentication
  BY <1>2, DisableStep
<1>3. CASE ServerCrashed
  BY <1>3, GoneFacts, OtherStep DEF ServerCrashed, AInv, TypeOK
<1>4. CASE SecondPasses
  <2>1. clock' \in Seconds
    BY <1>4, AuthenticationAssumption DEF SecondPasses, Seconds, AInv, TypeOK
  <2>2. QED
    BY <1>4, <2>1, OtherStep DEF SecondPasses, AInv, TypeOK
<1>5. ASSUME NEW s \in Sessions, IncomingConnection(s) PROVE AInv'
  <2>1. /\ mAuth' \in [Sessions -> Objects \cup {Null}]
        /\ mState' \in [Sessions -> {"absent", "login", "password", "ready"}]
        /\ \A t \in Sessions : mState'[t] = "absent" <=> mAuth'[t] = Null
    BY <1>5 DEF IncomingConnection, AInv, TypeOK
  <2>2. QED
    BY <1>5, <2>1, OtherStep DEF IncomingConnection, AInv, TypeOK
<1>6. ASSUME NEW s \in Sessions, AwaitLogin(s) PROVE AInv'
  BY <1>6, MovesFacts, OtherStep DEF AwaitLogin, AInv, TypeOK
<1>7. ASSUME NEW s \in Sessions, AwaitPassword(s) PROVE AInv'
  BY <1>7, AwaitPasswordStep
<1>8. ASSUME NEW s \in Sessions, Remove(s) PROVE AInv'
  BY <1>8, GoneFacts, OtherStep DEF Remove, AInv, TypeOK
<1>9. CASE UNCHANGED vars
  BY <1>9, OtherStep DEF vars, AInv, TypeOK
<1>10. QED
  BY <1>1, <1>2, <1>3, <1>4, <1>5, <1>6, <1>7, <1>8, <1>9 DEF Next

-----------------------------------------------------------------------------
(* The theorems.                                                           *)

\* Every variable keeps its type, tokens that can be used are held once, and
\* the flags and objects of the user interface and the server agree.
THEOREM Inductive == Spec => []AInv
<1>1. Init => AInv
  BY InitHolds
<1>2. AInv /\ [Next]_vars => AInv'
  BY NextStep
<1>3. QED
  BY <1>1, <1>2, PTL DEF Spec

\* Type correctness of Authentication.tla.
THEOREM TypeCorrect == Spec => []TypeOK
<1>1. AInv => TypeOK
  BY DEF AInv
<1>2. QED
  BY <1>1, Inductive, PTL

\* QtApp::GenerateToken (QtMain.cpp:152) never casts an AuthNone to AuthToken*.
THEOREM CastIsSafe == Spec => []CastSafe
<1>1. AInv => CastSafe
  BY DEF AInv
<1>2. QED
  BY <1>1, Inductive, PTL

\* The token printed last is the one that new sessions are asked for.
THEOREM ShownTokenIsGood == Spec => []ShownTokenWorks
<1>1. AInv => ShownTokenWorks
  BY DEF AInv
<1>2. QED
  BY <1>1, Inductive, PTL

-----------------------------------------------------------------------------
(* Authentication implements OneTimeLogin.                                 *)

LEMMA PromiseInit == Init => Promise!Init
BY ObjectFacts DEF Init, Promise!Init, Door

\* A step that leaves the doors as they are.
LEMMA SameDoors ==
  ASSUME AInv, mAuth' = mAuth, \A o \in Objects : (\E s \in Sessions : mAuth[s] = o)
                                  => obj'[o].kind = obj[o].kind
  PROVE  \A s \in Sessions : Door(s)' = Door(s)
BY DEF AInv, TypeOK, Door

LEMMA PromiseIssue ==
  ASSUME AInv, GenerateToken PROVE Promise!Issue
<1>1. mAuth' = mAuth /\ mState' = mState /\ spent' = spent /\ issued' = issued + 1
  BY DEF GenerateToken, Generate
<1>2. enabled' = TRUE
  BY DEF GenerateToken, interface
<1>3. \A o \in Objects : (\E s \in Sessions : mAuth[s] = o) => obj'[o].kind = obj[o].kind
  <2>1. CASE enabled /\ Generate(uiAuth, seed, drawn + 1)
    BY <2>1 DEF Generate, AInv, TypeOK, CastSafe
  <2>2. ASSUME NEW o \in Objects, Free(o), Generate(o, clock, 1)
        PROVE  \A p \in Objects : (\E s \in Sessions : mAuth[s] = p)
                                     => obj'[p].kind = obj[p].kind
    BY <2>2, FreeFacts DEF Generate, AInv, TypeOK
  <2>3. QED
    BY <2>1, <2>2 DEF GenerateToken
<1>4. \A s \in Sessions : Door(s)' = Door(s)
  BY <1>1, <1>3, SameDoors
<1>5. QED
  BY <1>1, <1>2, <1>4 DEF Promise!Issue

LEMMA PromiseDisable ==
  ASSUME AInv, DisableAuthentication PROVE Promise!Disable
<1>1. mAuth' = mAuth /\ mState' = mState /\ spent' = spent /\ issued' = issued
      /\ enabled' = FALSE
  BY DEF DisableAuthentication, sessions
<1>2. \A o \in Objects : (\E s \in Sessions : mAuth[s] = o) => obj'[o].kind = obj[o].kind
  BY FreeFacts DEF DisableAuthentication, AInv, TypeOK
<1>3. \A s \in Sessions : Door(s)' = Door(s)
  BY <1>1, <1>2, SameDoors
<1>4. QED
  BY <1>1, <1>3 DEF Promise!Disable

\* The sessions of S leave.
LEMMA PromiseLeave ==
  ASSUME AInv, NEW S \in SUBSET Sessions, Gone(S),
         \A o \in Objects : obj'[o].kind = obj[o].kind,
         enabled' = enabled, issued' = issued
  PROVE  Promise!Leave(S)
<1>1. \A s \in Sessions : Door(s)' = IF s \in S THEN "away" ELSE Door(s)
  BY DEF Gone, Door, AInv, TypeOK
<1>2. \A s \in Sessions : (mState'[s] = "ready") <=> (s \notin S /\ mState[s] = "ready")
  BY DEF Gone, AInv, TypeOK
<1>3. QED
  BY <1>1, <1>2 DEF Promise!Leave

LEMMA PromiseConnect ==
  ASSUME AInv, NEW s \in Sessions, IncomingConnection(s)
  PROVE  Promise!Connect(s)
<1>1. /\ mAuth' = [mAuth EXCEPT ![s] = uiAuth]
      /\ mState' = [mState EXCEPT ![s] = "login"]
      /\ serverAuth = uiAuth /\ mAuth[s] = Null /\ mState[s] = "absent"
      /\ UNCHANGED <<obj, enabled, issued, spent>>
  BY DEF IncomingConnection, interface, AInv, CastSafe
<1>2. Door(s) = "away" /\ Door(s)' = (IF enabled THEN "token" ELSE "open")
  BY <1>1, ObjectFacts DEF Door, AInv, TypeOK, CastSafe
<1>3. \A t \in Sessions \ {s} : Door(t)' = Door(t)
  BY <1>1 DEF Door, AInv, TypeOK
<1>4. \A t \in Sessions : (mState'[t] = "ready") <=> (mState[t] = "ready")
  BY <1>1 DEF AInv, TypeOK
<1>5. QED
  BY <1>1, <1>2, <1>3, <1>4 DEF Promise!Connect

\* A session goes on without having logged in.
LEMMA PromiseMoves ==
  ASSUME AInv, NEW s \in Sessions, Moves(s, "login") \/ Moves(s, "password"),
         mState[s] # "ready", UNCHANGED <<obj, enabled, issued, spent>>
  PROVE  UNCHANGED Promise!vars
<1>1. \A t \in Sessions : Door(t)' = Door(t)
  BY DEF Moves, Door
<1>2. \A t \in Sessions : (mState'[t] = "ready") <=> (mState[t] = "ready")
  BY DEF Moves, AInv, TypeOK
<1>3. QED
  BY <1>1, <1>2 DEF Promise!vars

LEMMA PromisePassword ==
  ASSUME AInv, NEW s \in Sessions, AwaitPassword(s)
  PROVE  [Promise!Next]_(Promise!vars)
<1>1. /\ mState[s] = "password" /\ mAuth[s] \in Objects /\ mAuth[s] # Null
      /\ enabled' = enabled /\ issued' = issued
  BY ObjectFacts DEF AInv, TypeOK, AwaitPassword, interface
<1>2. CASE Moves(s, "login") /\ UNCHANGED <<obj, spent, accepted>>
  BY <1>1, <1>2, PromiseMoves
<1>3. ASSUME NEW pw, Password(mAuth[s], pw), Spend(mAuth[s]),
             Moves(s, "ready") \/ Gone({s})
      PROVE  Promise!Next
  <2>1. /\ \A p \in Objects : obj'[p].kind = obj[p].kind
        /\ IF obj[mAuth[s]].kind = "token"
           THEN \E g \in (1..issued) \ spent : spent' = spent \cup {g}
           ELSE spent' = spent
    BY <1>1, <1>3, SpendFacts
  <2>2. Door(s) = IF obj[mAuth[s]].kind = "token" THEN "token" ELSE "open"
    BY <1>1 DEF Door
  <2>3. CASE Moves(s, "ready")
    <3>1. \A t \in Sessions : Door(t)' = Door(t)
      BY <2>1, <2>3 DEF Moves, Door, AInv, TypeOK
    <3>2. \A t \in Sessions : (mState'[t] = "ready") <=> (t = s \/ mState[t] = "ready")
      BY <2>3 DEF Moves, AInv, TypeOK
    <3>3. Promise!Enter(s)
      BY <1>1, <3>1, <3>2 DEF Promise!Enter
    <3>4. Promise!EnterByToken(s) \/ Promise!EnterFreely(s)
      BY <1>1, <2>1, <2>2, <3>3 DEF Promise!EnterByToken, Promise!EnterFreely
    <3>5. QED
      BY <3>4 DEF Promise!Next
  <2>4. CASE Gone({s})
    <3>1. Promise!Leave({s})
      BY <1>1, <2>1, <2>4, PromiseLeave
    <3>2. Promise!LeaveSpending(s) \/ spent' = spent
      BY <1>1, <2>1, <2>2, <3>1 DEF Promise!LeaveSpending
    <3>3. QED
      BY <3>1, <3>2 DEF Promise!Next
  <2>5. QED
    BY <1>3, <2>3, <2>4
<1>4. QED
  BY <1>2, <1>3 DEF AwaitPassword

LEMMA PromiseStep ==
  ASSUME AInv, [Next]_vars PROVE [Promise!Next]_(Promise!vars)
<1>1. CASE GenerateToken
  BY <1>1, PromiseIssue DEF Promise!Next
<1>2. CASE DisableAuthentication
  BY <1>2, PromiseDisable DEF Promise!Next
<1>3. CASE ServerCrashed
  <2>1. Promise!Leave(Sessions) /\ spent' = spent
    BY <1>3, PromiseLeave DEF ServerCrashed
  <2>2. QED
    BY <2>1 DEF Promise!Next
<1>4. CASE SecondPasses
  BY <1>4 DEF SecondPasses, interface, sessions, Promise!vars, Door
<1>5. ASSUME NEW s \in Sessions, IncomingConnection(s) PROVE Promise!Next
  BY <1>5, PromiseConnect DEF Promise!Next
<1>6. ASSUME NEW s \in Sessions, AwaitLogin(s) PROVE UNCHANGED Promise!vars
  BY <1>6, PromiseMoves DEF AwaitLogin, interface
<1>7. ASSUME NEW s \in Sessions, AwaitPassword(s) PROVE [Promise!Next]_(Promise!vars)
  BY <1>7, PromisePassword
<1>8. ASSUME NEW s \in Sessions, Remove(s) PROVE Promise!Next
  <2>1. Promise!Leave({s}) /\ spent' = spent
    BY <1>8, PromiseLeave DEF Remove, interface
  <2>2. QED
    BY <2>1 DEF Promise!Next
<1>9. CASE UNCHANGED vars
  BY <1>9 DEF vars, interface, sessions, Promise!vars, Door
<1>10. QED
  BY <1>1, <1>2, <1>3, <1>4, <1>5, <1>6, <1>7, <1>8, <1>9 DEF Next

\* For every set of sessions and every number of tokens: a session accepted
\* with authentication on logs in with a token that was generated, and a token
\* lets one session in (AuthToken.cpp:17, QtMain.cpp:133).
THEOREM PromiseKept == Spec => OneTimeTokens
<1>1. Init => Promise!Init
  BY PromiseInit
<1>2. AInv /\ [Next]_vars => [Promise!Next]_(Promise!vars)
  BY PromiseStep
<1>3. QED
  BY <1>1, <1>2, Inductive, PTL DEF Spec, OneTimeTokens, Promise!Spec

-----------------------------------------------------------------------------
(* A text is used once, but for two authenticators of one second.          *)

LEMMA TextFacts ==
  /\ NoText \notin Texts
  /\ \A t \in Texts : t[1] \in Seconds /\ t[2] \in 1..MaxTokens /\ t = <<t[1], t[2]>>
BY AuthenticationAssumption DEF NoText, Texts

LEMMA InitFresh == Init => TextsFresh
<1>. SUFFICES ASSUME Init PROVE TextsFresh
  OBVIOUS
<1>1. created[seed] > 0
  BY AuthenticationAssumption DEF Init, Seconds
<1>2. \A t \in Texts : ~Known(t) /\ accepted[t] = 0
  BY TextFacts DEF Init, Known, NewToken, NewNone
<1>3. \A o \in Objects : obj[o].text \notin Texts
  BY TextFacts DEF Init, NewToken, NewNone
<1>4. QED
  BY <1>1, <1>2, <1>3 DEF TextsFresh

\* Drawing a text that nobody knows, from a second that was the seed once.
LEMMA DrawKeepsFresh ==
  ASSUME AInv, TextsFresh, NEW o \in Objects, NEW second \in Seconds,
         NEW nth \in 1..(issued + 1), issued < MaxTokens, Generate(o, second, nth),
         seed' = second, created' \in [Seconds -> Nat], created'[second] > 0,
         \A t \in Texts : created'[t[1]] <= 1 => created[t[1]] <= 1,
         \A t \in Texts : created'[t[1]] <= 1 /\ Known(t) =>
           created'[t[1]] = 1 /\ t # <<second, nth>> /\ (t[1] = second => t[2] <= nth)
  PROVE  TextsFresh'
<1>1. /\ obj'[o].text = <<second, nth>> /\ drawn' = nth /\ accepted' = accepted
      /\ \A p \in Objects \ {o} : obj'[p] = obj[p]
  BY GenerateSound DEF Generate
<1>2. accepted \in [Texts -> Nat]
  BY DEF AInv, TypeOK
<1>3. created'[seed'] > 0
  OBVIOUS
<1>4. ASSUME NEW t \in Texts, created'[t[1]] <= 1
      PROVE  /\ Known(t)' => created'[t[1]] = 1 /\ (t[1] = seed' => t[2] <= drawn')
             /\ accepted'[t] <= 1
             /\ accepted'[t] = 1 => \A p \in Objects : obj'[p].text # t
             /\ \A p, q \in Objects : obj'[p].text = t /\ obj'[q].text = t => p = q
  <2>1. /\ accepted[t] <= 1
        /\ accepted[t] = 1 => \A p \in Objects : obj[p].text # t
        /\ \A p, q \in Objects : obj[p].text = t /\ obj[q].text = t => p = q
    BY <1>4 DEF TextsFresh
  <2>2. CASE t = <<second, nth>>
    <3>1. ~Known(t)
      BY <1>4, <2>2
    <3>2. accepted[t] = 0 /\ \A p \in Objects : obj[p].text # t
      BY <1>2, <3>1 DEF Known
    <3>3. created'[t[1]] = 1
      BY <1>4, <2>2
    <3>4. QED
      BY <1>1, <2>2, <3>2, <3>3
  <2>3. CASE t # <<second, nth>>
    <3>1. \A p \in Objects : obj'[p].text = t => p # o /\ obj[p].text = t
      BY <1>1, <2>3
    <3>2. Known(t)' => Known(t)
      BY <1>1, <3>1 DEF Known
    <3>3. QED
      BY <1>1, <1>4, <2>1, <3>1, <3>2
  <2>4. QED
    BY <2>2, <2>3
<1>5. QED
  BY <1>3, <1>4 DEF TextsFresh

LEMMA GenerateTokenFresh == AInv /\ TextsFresh /\ GenerateToken => TextsFresh'
<1>. SUFFICES ASSUME AInv, TextsFresh, GenerateToken PROVE TextsFresh'
  OBVIOUS
<1>1. /\ issued < MaxTokens /\ issued \in Nat /\ drawn \in 0..issued
      /\ uiAuth \in Objects /\ seed \in Seconds /\ clock \in Seconds
      /\ created \in [Seconds -> Nat]
  BY AuthenticationAssumption DEF AInv, TypeOK, GenerateToken
<1>2. CASE enabled /\ Generate(uiAuth, seed, drawn + 1)
             /\ UNCHANGED <<interface, seed, created>>
  <2>1. drawn + 1 \in 1..(issued + 1)
    BY <1>1
  <2>2. ASSUME NEW t \in Texts, created[t[1]] <= 1, Known(t)
        PROVE  created[t[1]] = 1 /\ t # <<seed, drawn + 1>>
               /\ (t[1] = seed => t[2] <= drawn + 1)
    <3>1. created[t[1]] = 1 /\ (t[1] = seed => t[2] <= drawn)
      BY <2>2 DEF TextsFresh
    <3>2. QED
      BY <1>1, <3>1, TextFacts
  <2>3. created[seed] > 0
    BY DEF TextsFresh
  <2>4. QED
    BY <1>1, <1>2, <2>1, <2>2, <2>3, DrawKeepsFresh
<1>3. ASSUME seed' = clock, created' = [created EXCEPT ![clock] = @ + 1],
             NEW o \in Objects, Generate(o, clock, 1)
      PROVE  TextsFresh'
  <2>1. /\ created' \in [Seconds -> Nat] /\ created'[clock] = created[clock] + 1
        /\ \A c \in Seconds \ {clock} : created'[c] = created[c]
    BY <1>1, <1>3
  <2>2. created'[clock] > 0 /\ 1 \in 1..(issued + 1)
    BY <1>1, <2>1
  <2>3. ASSUME NEW t \in Texts, created'[t[1]] <= 1
        PROVE  created[t[1]] <= 1
    BY <1>1, <2>1, <2>3, TextFacts
  <2>4. ASSUME NEW t \in Texts, created'[t[1]] <= 1, Known(t)
        PROVE  created'[t[1]] = 1 /\ t[1] # clock
    <3>1. created[t[1]] = 1
      BY <2>3, <2>4 DEF TextsFresh
    <3>2. QED
      BY <1>1, <2>1, <2>4, <3>1, TextFacts
  <2>5. \A t \in Texts : created'[t[1]] <= 1 /\ Known(t) =>
          created'[t[1]] = 1 /\ t # <<clock, 1>> /\ (t[1] = clock => t[2] <= 1)
    BY <2>4
  <2>6. QED
    BY <1>1, <1>3, <2>1, <2>2, <2>3, <2>5, DrawKeepsFresh
<1>4. QED
  BY <1>2, <1>3 DEF GenerateToken

\* A text that lets somebody in is cleared; it was in one authenticator.
LEMMA SpendFresh ==
  ASSUME AInv, TextsFresh, NEW o \in Objects, NEW pw, Password(o, pw), Spend(o),
         UNCHANGED <<seed, drawn, created>>
  PROVE  TextsFresh'
<1>1. CASE obj[o].kind # "token"
  BY <1>1 DEF Spend, TextsFresh, Known
<1>2. CASE obj[o].kind = "token"
  <2>. DEFINE used == obj[o].text
  <2>1. used \in Texts
    BY <1>2 DEF Password, AInv, TypeOK, Authenticators
  <2>2. /\ accepted' = [t \in Texts |-> IF t = used THEN accepted[t] + 1 ELSE accepted[t]]
        /\ obj'[o].text = NoText
        /\ \A p \in Objects \ {o} : obj'[p] = obj[p]
        /\ accepted \in [Texts -> Nat]
    BY <1>2 DEF Spend, AInv, TypeOK, Authenticators
  <2>3. \A t \in Texts, p \in Objects : obj'[p].text = t => p # o /\ obj[p].text = t
    BY <2>2, TextFacts
  <2>4. Known(used)
    BY DEF Known
  <2>5. \A t \in Texts : Known(t)' => Known(t)
    BY <2>2, <2>3, <2>4 DEF Known
  <2>. HIDE DEF used
  <2>6. ASSUME NEW t \in Texts, created[t[1]] <= 1
        PROVE  /\ Known(t)' => created[t[1]] = 1 /\ (t[1] = seed => t[2] <= drawn)
               /\ accepted'[t] <= 1
               /\ accepted'[t] = 1 => \A p \in Objects : obj'[p].text # t
               /\ \A p, q \in Objects : obj'[p].text = t /\ obj'[q].text = t => p = q
    <3>1. /\ Known(t) => created[t[1]] = 1 /\ (t[1] = seed => t[2] <= drawn)
          /\ accepted[t] <= 1
          /\ accepted[t] = 1 => \A p \in Objects : obj[p].text # t
          /\ \A p, q \in Objects : obj[p].text = t /\ obj[q].text = t => p = q
      BY <2>6 DEF TextsFresh
    <3>2. CASE t = used
      <4>1. obj[o].text = t
        BY <3>2 DEF used
      <4>2. accepted[t] = 0 /\ accepted'[t] = 1
        BY <2>2, <3>1, <3>2, <4>1
      <4>3. \A p \in Objects : obj'[p].text # t
        BY <2>3, <3>1, <4>1
      <4>4. QED
        BY <2>5, <3>1, <4>2, <4>3
    <3>3. CASE t # used
      <4>1. accepted'[t] = accepted[t]
        BY <2>2, <3>3
      <4>2. QED
        BY <2>3, <2>5, <3>1, <4>1
    <3>4. QED
      BY <3>2, <3>3
  <2>7. QED
    BY <2>6 DEF TextsFresh
<1>3. QED
  BY <1>1, <1>2

LEMMA NextFresh == AInv /\ TextsFresh /\ [Next]_vars => TextsFresh'
<1>. SUFFICES ASSUME AInv, TextsFresh, [Next]_vars PROVE TextsFresh'
  OBVIOUS
<1>1. ASSUME UNCHANGED <<obj, seed, drawn, created, accepted>> PROVE TextsFresh'
  BY <1>1 DEF TextsFresh, Known
<1>2. CASE GenerateToken
  BY <1>2, GenerateTokenFresh
<1>3. CASE DisableAuthentication
  <2>1. PICK o \in Objects : obj' = [obj EXCEPT ![o] = NewNone]
    BY <1>3 DEF DisableAuthentication
  <2>2. UNCHANGED <<seed, drawn, created, accepted>>
    BY <1>3 DEF DisableAuthentication, random
  <2>3. \A t \in Texts, p \in Objects : obj'[p].text = t => obj[p].text = t
    BY <2>1, TextFacts DEF NewNone, AInv, TypeOK
  <2>4. \A t \in Texts : Known(t)' => Known(t)
    BY <2>2, <2>3 DEF Known
  <2>5. QED
    BY <2>2, <2>3, <2>4 DEF TextsFresh
<1>4. ASSUME NEW s \in Sessions, AwaitPassword(s) PROVE TextsFresh'
  <2>1. mAuth[s] \in Objects /\ UNCHANGED <<seed, drawn, created>>
    BY <1>4 DEF AwaitPassword, random, AInv, TypeOK
  <2>2. CASE UNCHANGED <<obj, spent, accepted>>
    BY <1>1, <2>1, <2>2
  <2>3. ASSUME NEW pw, Password(mAuth[s], pw), Spend(mAuth[s]) PROVE TextsFresh'
    BY <2>1, <2>3, SpendFresh
  <2>4. QED
    BY <1>4, <2>2, <2>3 DEF AwaitPassword
<1>5. CASE ServerCrashed \/ SecondPasses \/ UNCHANGED vars
  BY <1>1, <1>5 DEF ServerCrashed, SecondPasses, vars, random
<1>6. ASSUME NEW s \in Sessions, IncomingConnection(s) \/ AwaitLogin(s) \/ Remove(s)
      PROVE  TextsFresh'
  BY <1>1, <1>6 DEF IncomingConnection, AwaitLogin, Remove, random
<1>7. QED
  BY <1>2, <1>3, <1>4, <1>5, <1>6 DEF Next

\* A text logs in one client, or srand() got the same second twice
\* (AuthToken.cpp:9).
THEOREM TextIsUsedOnce == Spec => []TextUsedOnce
<1>1. AInv /\ TextsFresh => TextUsedOnce
  <2>. SUFFICES ASSUME AInv, TextsFresh, NEW t \in Texts, accepted[t] > 1
                PROVE  created[t[1]] > 1
    BY DEF TextUsedOnce
  <2>1. created[t[1]] \in Nat /\ accepted[t] \in Nat
    BY TextFacts DEF AInv, TypeOK
  <2>2. QED
    BY <2>1 DEF TextsFresh
<1>2. Init => AInv /\ TextsFresh
  BY InitHolds, InitFresh
<1>3. AInv /\ TextsFresh /\ [Next]_vars => AInv' /\ TextsFresh'
  BY NextStep, NextFresh
<1>4. QED
  BY <1>1, <1>2, <1>3, PTL DEF Spec
=============================================================================
