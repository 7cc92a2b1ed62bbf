--------------------------- MODULE Authentication ---------------------------
(***************************************************************************)
(* The front ends with a menu (QtMain.cpp, SymbianUI.cpp), the two         *)
(* authenticators and the part of a session that asks them.  The user      *)
(* interface replaces the server's authenticator while sessions keep the   *)
(* one they were accepted with, so that several are alive at a time; an    *)
(* authenticator is destroyed with the last shared_ptr to it.  Everything  *)
(* runs in the thread of the user interface: the timer calls Server::Tick, *)
(* the menu calls the slots.  The greeting, which asks nothing of an       *)
(* authenticator, is left out.                                             *)
(***************************************************************************)
EXTENDS Integers, Sequences, FiniteSets

CONSTANTS
  Sessions,    \* identities of control connections, reused after a session is gone
  Null,        \* the null pointer
  MaxTokens,   \* bound: tokens generated
  MaxSeconds   \* bound: seconds that pass

ASSUME AuthenticationAssumption ==
  /\ IsFiniteSet(Sessions)
  /\ MaxTokens \in Nat
  /\ MaxSeconds \in Nat
  /\ Null \notin Int

Seconds == 0..MaxSeconds

\* The user interface holds one authenticator and each session one at most; a
\* new one is made before an old one is released.
Objects == 1..(Cardinality(Sessions) + 2)

\* The text of a token is the nth that rand() yields after srand(second).  Two
\* of them are taken to be equal only when both numbers are.
Texts == Seconds \X (1..MaxTokens)
NoText == <<0, 0>>

Authenticators ==
  [kind : {"token", "none"}, text : Texts \cup {NoText}, gen : 0..MaxTokens]

VARIABLES
  obj,          \* the authenticators; gen is a history: which token it holds
  uiAuth,       \* QtApp::m_auth
  serverAuth,   \* Server::m_auth; Null when QtApp::m_server is
  enabled,      \* QtApp::m_authenticationEnabled
  mAuth,        \* Session::m_auth
  mState,       \* Session::m_state; "absent" when there is no Session object
  clock,        \* time( NULL )
  seed, drawn,  \* the last srand(), and the tokens drawn from rand() since
  issued,       \* history: tokens generated
  spent,        \* history: the tokens that let somebody in
  accepted,     \* history: how often each text was accepted as a password
  created       \* history: authenticators with tokens made in each second

random == <<clock, seed, drawn, created>>
interface == <<uiAuth, serverAuth, enabled>>
sessions == <<mAuth, mState>>
vars == <<obj, interface, sessions, random, issued, spent, accepted>>

TypeOK ==
  /\ obj \in [Objects -> Authenticators]
  /\ uiAuth \in Objects
  /\ serverAuth \in Objects \cup {Null}
  /\ enabled \in BOOLEAN
  /\ mAuth \in [Sessions -> Objects \cup {Null}]
  /\ mState \in [Sessions -> {"absent", "login", "password", "ready"}]
  /\ clock \in Seconds
  /\ seed \in Seconds
  /\ drawn \in 0..issued
  /\ issued \in 0..MaxTokens
  /\ spent \in SUBSET (1..MaxTokens)
  /\ accepted \in [Texts -> Nat]
  /\ created \in [Seconds -> Nat]

\* AuthToken's constructor: no token, and a new seed.
NewToken == [kind |-> "token", text |-> NoText, gen |-> 0]
NewNone == [kind |-> "none", text |-> NoText, gen |-> 0]

\* QtApp::Run.  Server::Create may throw a ServerCrash.
Init ==
  /\ uiAuth = 1
  /\ obj = [o \in Objects |-> IF o = uiAuth THEN NewToken ELSE NewNone]
  /\ serverAuth \in {uiAuth, Null}
  /\ enabled = TRUE
  /\ mAuth = [s \in Sessions |-> Null]
  /\ mState = [s \in Sessions |-> "absent"]
  /\ clock = 0
  /\ seed = 0
  /\ drawn = 0
  /\ issued = 0
  /\ spent = {}
  /\ accepted = [t \in Texts |-> 0]
  /\ created = [t \in Seconds |-> IF t = 0 THEN 1 ELSE 0]

-----------------------------------------------------------------------------
(* The menu.                                                               *)

Referenced == {uiAuth, serverAuth} \cup {mAuth[s] : s \in Sessions}

\* Memory for a new authenticator.
Free(o) ==
  /\ o \in Objects \ Referenced
  /\ \A p \in Objects \ Referenced : o <= p

\* Mutant: m_token.clear() is missing.
GenerateAppends(o, second, nth) ==
  /\ drawn' = nth
  /\ issued' = issued + 1
  /\ obj' = [obj EXCEPT ![o] =
               [kind |-> "token", gen |-> issued',
                text |-> IF @.text = NoText THEN <<second, nth>>
                         ELSE @.text \o <<second, nth>>]]
  /\ UNCHANGED <<mAuth, mState, clock, spent, accepted>>

\* Mutant: srand() is called for every token.
GenerateReseeds(o, second, nth) ==
  /\ drawn' = nth
  /\ issued' = issued + 1
  /\ obj' = [obj EXCEPT ![o] =
               [kind |-> "token", text |-> <<clock, 1>>, gen |-> issued']]
  /\ UNCHANGED <<mAuth, mState, clock, spent, accepted>>

\* AuthToken::GenerateToken of the authenticator o: its text is replaced.
Generate(o, second, nth) ==
  /\ drawn' = nth
  /\ issued' = issued + 1
  /\ obj' = [obj EXCEPT ![o] =
               [kind |-> "token", text |-> <<second, nth>>, gen |-> issued']]
  /\ UNCHANGED <<mAuth, mState, clock, spent, accepted>>

\* Mutant: the server is not told of the new authenticator.
GenerateTokenUntold ==
  /\ serverAuth # Null
  /\ issued < MaxTokens
  /\ \/ /\ enabled
        /\ Generate(uiAuth, seed, drawn + 1)
        /\ UNCHANGED <<interface, seed, created>>
     \/ /\ ~enabled
        /\ enabled' = TRUE
        /\ seed' = clock
        /\ created' = [created EXCEPT ![clock] = @ + 1]
        /\ \E o \in Objects :
             /\ Free(o)
             /\ uiAuth' = o
             /\ Generate(o, clock, 1)
        /\ UNCHANGED serverAuth

GenerateToken ==
  /\ serverAuth # Null
  /\ issued < MaxTokens
  /\ \/ /\ enabled
        /\ Generate(uiAuth, seed, drawn + 1)
        /\ UNCHANGED <<interface, seed, created>>
     \/ /\ ~enabled
        /\ enabled' = TRUE
        /\ seed' = clock
        /\ created' = [created EXCEPT ![clock] = @ + 1]
        /\ \E o \in Objects :
             /\ Free(o)
             /\ uiAuth' = o
             /\ serverAuth' = o
             /\ Generate(o, clock, 1)

\* Mutant: m_authenticationEnabled is not cleared.
DisableKeepsFlag ==
  /\ serverAuth # Null /\ enabled
  /\ \E o \in Objects :
       /\ Free(o)
       /\ uiAuth' = o
       /\ serverAuth' = o
       /\ obj' = [obj EXCEPT ![o] = NewNone]
  /\ UNCHANGED <<enabled, sessions, random, issued, spent, accepted>>

DisableAuthentication ==
  /\ serverAuth # Null /\ enabled
  /\ enabled' = FALSE
  /\ \E o \in Objects :
       /\ Free(o)
       /\ uiAuth' = o
       /\ serverAuth' = o
       /\ obj' = [obj EXCEPT ![o] = NewNone]
  /\ UNCHANGED <<sessions, random, issued, spent, accepted>>

-----------------------------------------------------------------------------
(* The server and its sessions.                                            *)

Gone(S) ==
  /\ mState' = [s \in Sessions |-> IF s \in S THEN "absent" ELSE mState[s]]
  /\ mAuth' = [s \in Sessions |-> IF s \in S THEN Null ELSE mAuth[s]]

\* QtApp::ServerCrashed: the server goes with all its sessions; the user
\* interface stays, with its authenticator and its flag.
ServerCrashed ==
  /\ serverAuth # Null
  /\ serverAuth' = Null
  /\ Gone(Sessions)
  /\ UNCHANGED <<obj, uiAuth, enabled, random, issued, spent, accepted>>

\* Server::IncomingConnection.
IncomingConnection(s) ==
  /\ serverAuth # Null
  /\ mState[s] = "absent"
  /\ mState' = [mState EXCEPT ![s] = "login"]
  /\ mAuth' = [mAuth EXCEPT ![s] = serverAuth]
  /\ UNCHANGED <<obj, interface, random, issued, spent, accepted>>

\* The end of a session, for whatever reason.
Remove(s) ==
  /\ mState[s] # "absent"
  /\ Gone({s})
  /\ UNCHANGED <<obj, interface, random, issued, spent, accepted>>

Moves(s, next) ==
  /\ mState' = [mState EXCEPT ![s] = next]
  /\ UNCHANGED mAuth

\* Both authenticators let every user name through.
AwaitLogin(s) ==
  /\ mState[s] = "login"
  /\ Moves(s, "password")
  /\ UNCHANGED <<obj, interface, random, issued, spent, accepted>>

\* Mutant: TokenExists() is not asked.
PasswordUnguarded(o, pw) ==
  obj[o].kind = "token" => obj[o].text = pw

\* AuthToken::Password and AuthNone::Password.
Password(o, pw) ==
  obj[o].kind = "token" => obj[o].text # NoText /\ obj[o].text = pw

\* A token is one time use only.
Spend(o) ==
  IF obj[o].kind = "token"
  THEN /\ obj' = [obj EXCEPT ![o].text = NoText]
       /\ spent' = spent \cup {obj[o].gen}
       /\ accepted' = [t \in Texts |->
                         IF t = obj[o].text THEN accepted[t] + 1 ELSE accepted[t]]
  ELSE UNCHANGED <<obj, spent, accepted>>

\* PASS.  An empty argument is a password, too.  The password is accepted
\* before the reply is sent: if it cannot be, the session is removed.  A wrong
\* password, and any other command, sends the session back to S_LOGIN.
AwaitPassword(s) ==
  /\ mState[s] = "password"
  /\ \/ \E pw \in Texts \cup {NoText} :
          /\ Password(mAuth[s], pw)
          /\ Spend(mAuth[s])
          /\ Moves(s, "ready") \/ Gone({s})
     \/ Moves(s, "login") /\ UNCHANGED <<obj, spent, accepted>>
  /\ UNCHANGED <<interface, random, issued>>

SecondPasses ==
  /\ clock < MaxSeconds
  /\ clock' = clock + 1
  /\ UNCHANGED <<obj, interface, sessions, seed, drawn, created, issued, spent, accepted>>

Next ==
  \/ GenerateToken \/ DisableAuthentication \/ ServerCrashed \/ SecondPasses
  \/ \E s \in Sessions :
       IncomingConnection(s) \/ AwaitLogin(s) \/ AwaitPassword(s) \/ Remove(s)

Spec == Init /\ [][Next]_vars

-----------------------------------------------------------------------------
(* Properties.                                                             *)

\* GenerateToken casts m_auth to AuthToken* when the flag says so
\* (QtMain.cpp:152): the flag and the class of the object agree after every
\* order of menu entries, timer ticks and crashes, and the server that runs
\* asks the authenticator the user interface holds.
CastSafe ==
  /\ enabled <=> obj[uiAuth].kind = "token"
  /\ serverAuth \in {uiAuth, Null}

\* The last token printed works until it is used: the authenticator that new
\* sessions get holds it, while the server runs and authentication is enabled.
ShownTokenWorks ==
  serverAuth # Null /\ enabled /\ issued \notin spent \cup {0} =>
    obj[serverAuth].text = <<seed, drawn>> /\ obj[serverAuth].gen = issued

\* A text that was accepted as a password is accepted again only if two
\* authenticators took the same second for their seed (AuthToken.cpp:9).
TextUsedOnce ==
  \A t \in Texts : accepted[t] > 1 => created[t[1]] > 1


\* The rule a session is under is the class of the authenticator it keeps.
Door(s) ==
  IF mAuth[s] = Null THEN "away"
  ELSE IF obj[mAuth[s]].kind = "token" THEN "token" ELSE "open"

\* The promise of the help text.
Promise == INSTANCE OneTimeLogin WITH
  door <- [s \in Sessions |-> Door(s)],
  inside <- [s \in Sessions |-> mState[s] = "ready"]

\* The code keeps it: a session accepted with authentication on logs in with
\* a token that was generated and that let nobody in before, in whatever
\* order tokens are generated, authenticators replaced and sessions accepted.
OneTimeTokens == Promise!Spec

-----------------------------------------------------------------------------
(* The strengthening that makes the properties inductive.                  *)

Live(o) == obj[o].text # NoText

\* A token that can be used is held by one authenticator and was not spent.
TokensSound ==
  /\ spent \subseteq 1..issued
  /\ \A o \in Objects :
       Live(o) => obj[o].kind = "token" /\ obj[o].gen \in (1..issued) \ spent
  /\ \A o, p \in Objects : Live(o) /\ Live(p) /\ obj[o].gen = obj[p].gen => o = p

AInv ==
  /\ TypeOK
  /\ CastSafe
  /\ ShownTokenWorks
  /\ TokensSound
  /\ \A s \in Sessions : mState[s] = "absent" <=> mAuth[s] = Null

\* A text that let somebody in, or can do so.
Known(t) == accepted[t] > 0 \/ \E o \in Objects : obj[o].text = t

\* A second that was the seed of one authenticator yields a text once: it is in
\* one authenticator, and no longer when it was accepted; the next is new.
TextsFresh ==
  /\ created[seed] > 0
  /\ \A t \in Texts : created[t[1]] <= 1 =>
       /\ Known(t) => created[t[1]] = 1 /\ (t[1] = seed => t[2] <= drawn)
       /\ accepted[t] <= 1
       /\ accepted[t] = 1 => \A o \in Objects : obj[o].text # t
       /\ \A o, p \in Objects : obj[o].text = t /\ obj[p].text = t => o = p
=============================================================================
