--------------------------- MODULE FrontendProofs ---------------------------
(***************************************************************************)
(* Proofs about Frontend. Every part has an inductive invariant, IInv of   *)
(* its module. For the ten parts that FrontendSettingsProofs does not treat*)
(* it is shown here, part by part, that it holds initially, is kept by     *)
(* every step and implies what is promised of the part; then the parts are *)
(* put together, and the properties of Frontend follow. In the proofs the  *)
(* slots have the names that the part gives them.                          *)
(***************************************************************************)
EXTENDS FrontendSettingsProofs, Integers, Sequences, NaturalsInduction, WellFoundedInduction,
        FiniteSetTheorems, SequenceTheorems

-----------------------------------------------------------------------------
(* Session: the cookie and the calls that set it.                          *)

\* What sending does to the calls in flight.
LEMMA AuthSendCalls ==
    ASSUME Auth!TypeOK, NEW cs \in SUBSET Auth!Call, Auth!Send(cs)
    PROVE  /\ s3' \in [Auth!Call -> Nat] /\ s7' \in BOOLEAN
           /\ Auth!InFlight' = Auth!InFlight \cup cs
           /\ ~s7' => ~s7 /\ \A c \in cs, d \in Auth!InFlight : c.user = d.user
<1> DEFINE calls == s3  disturbed == s7
<1>1. calls' \in [Auth!Call -> Nat]
  BY DEF Auth!Send, Auth!TypeOK
<1>2. Auth!InFlight' = Auth!InFlight \cup cs
  <2>1. ASSUME NEW c \in Auth!Call PROVE calls'[c] > 0 <=> calls[c] > 0 \/ c \in cs
    BY DEF Auth!Send, Auth!TypeOK
  <2> QED
    BY <2>1 DEF Auth!InFlight
<1>3. disturbed' \in BOOLEAN
  BY DEF Auth!Send, Auth!TypeOK
<1>4. ~disturbed' => ~disturbed /\ \A c \in cs, d \in Auth!InFlight : c.user = d.user
  BY DEF Auth!Send
<1> QED
  BY <1>1, <1>2, <1>3, <1>4

\* A call sent for who is signed in, when no others are in flight for others, is enough: the
\* cookie will be right.
LEMMA AuthSentInv ==
    ASSUME Auth!TypeOK, Auth!CallsInv, NEW cs \in SUBSET Auth!Call, Auth!Send(cs), cs # {},
           NEW u \in {s1', none}, \A c \in cs : c.user = u
    PROVE  Auth!CallsInv'
<1> DEFINE account == s1  disturbed == s7
<1> SUFFICES ASSUME ~disturbed'
             PROVE  /\ \A c, d \in Auth!InFlight' : c.user = d.user
                    /\ \A c \in Auth!InFlight' : c.user \in {account', none}
                    /\ \E c \in Auth!InFlight' : c.user \in {account', none}
  BY DEF Auth!CallsInv
<1>1. /\ Auth!InFlight' = Auth!InFlight \cup cs /\ ~disturbed
      /\ \A c \in cs, d \in Auth!InFlight : c.user = d.user
  BY AuthSendCalls
<1>2. \A c \in Auth!InFlight' : c.user = u
  BY <1>1
<1>3. Auth!InFlight' # {}
  BY <1>1
<1> QED
  BY <1>2, <1>3

\* The calls that are made.
LEMMA AuthMadeCalls ==
    ASSUME NEW t \in Tabs, NEW u \in Users \cup {none}
    PROVE  /\ Auth!Told(t, u) \subseteq Auth!Call /\ \A c \in Auth!Told(t, u) : c.user = u
           /\ \A by \in {"signIn", "logOut"} : Auth!Made(t, by, u) \in Auth!Call
                /\ Auth!Made(t, by, u).user = u
BY DEF Auth!Told, Auth!Made, Auth!Call

\* A call that ends leaves no other in flight than there were.
LEMMA AuthEndedCalls ==
    ASSUME Auth!TypeOK, NEW c \in Auth!Call, s3[c] > 0, s3' = [s3 EXCEPT ![c] = @ - 1]
    PROVE  s3' \in [Auth!Call -> Nat] /\ Auth!InFlight' \subseteq Auth!InFlight
           /\ c \in Auth!InFlight
BY DEF Auth!TypeOK, Auth!InFlight

-----------------------------------------------------------------------------
(* Types.                                                                  *)

\* The invariant holds initially.
LEMMA AuthInitIInv == ASSUME Auth!SessionAssumption, Auth!Init PROVE Auth!IInv
<1>1. Auth!TypeOK
  BY DEF Auth!Init, Auth!TypeOK, Auth!Steps
<1>2. Auth!CallsInv
  BY DEF Auth!Init, Auth!CallsInv, Auth!InFlight
<1>3. Auth!KnownInv
  BY DEF Auth!Init, Auth!KnownInv, Auth!SessionAssumption
<1> QED
  BY <1>1, <1>2, <1>3 DEF Auth!IInv

\* Every step keeps the types.
LEMMA AuthNextTypeOK == ASSUME Auth!TypeOK, [Auth!Next]_(Auth!vars) PROVE Auth!TypeOK'
<1> DEFINE cookie == s2
<1> USE DEF Auth!TypeOK, Auth!Act, Auth!Goto, Auth!Steps, Auth!browser, Auth!tabState
<1>1. ASSUME NEW t \in Tabs, Auth!Visit(t) \/ Auth!Load(t) \/ Auth!Gate(t) PROVE Auth!TypeOK'
  BY <1>1 DEF Auth!Visit, Auth!Load, Auth!Gate, Auth!Navigate
<1>2. ASSUME NEW t \in Tabs, Auth!Observe(t) PROVE Auth!TypeOK'
  BY <1>2, AuthMadeCalls, AuthSendCalls DEF Auth!Observe
<1>3. ASSUME NEW t \in Tabs, Auth!SignIn(t) \/ Auth!Refused(t) \/ Auth!Push(t) \/ Auth!Leave(t)
      PROVE  Auth!TypeOK'
  BY <1>3 DEF Auth!SignIn, Auth!Refused, Auth!Push, Auth!Leave, Auth!Navigate
<1>4. ASSUME NEW t \in Tabs, Auth!LogOut(t) PROVE Auth!TypeOK'
  <2>1. {Auth!Made(t, "logOut", none)} \in SUBSET Auth!Call
    BY AuthMadeCalls
  <2> QED
    BY <1>4, <2>1, AuthSendCalls DEF Auth!LogOut
<1>5. ASSUME NEW t \in Tabs, Auth!SignOut(t) PROVE Auth!TypeOK'
  BY <1>5, AuthMadeCalls, AuthSendCalls DEF Auth!SignOut
<1>6. ASSUME NEW t \in Tabs, NEW u \in Users, Auth!Accepted(t, u) PROVE Auth!TypeOK'
  <2>1. Auth!Told(t, u) \cup {Auth!Made(t, "signIn", u)} \in SUBSET Auth!Call
    BY AuthMadeCalls
  <2> QED
    BY <1>6, <2>1, AuthSendCalls DEF Auth!Accepted
<1>7. CASE Auth!Expire
  BY <1>7 DEF Auth!Expire
<1>8. ASSUME NEW c \in Auth!Call, Auth!Reply(c) PROVE Auth!TypeOK'
  BY <1>8, AuthEndedCalls DEF Auth!Reply, Auth!Resume, Auth!Call
<1>9. ASSUME NEW c \in Auth!Call, Auth!Fail(c) PROVE Auth!TypeOK'
  BY <1>9, AuthEndedCalls DEF Auth!Fail, Auth!Resume
<1>10. CASE UNCHANGED Auth!vars
  BY <1>10 DEF Auth!vars
<1> QED
  BY <1>1, <1>2, <1>3, <1>4, <1>5, <1>6, <1>7, <1>8, <1>9, <1>10 DEF Auth!Next

-----------------------------------------------------------------------------
(* The cookie.                                                             *)

\* Every step keeps some tab that a sign-out would reach.
LEMMA AuthNextKnownInv ==
    ASSUME Auth!SessionAssumption, Auth!TypeOK, Auth!KnownInv, [Auth!Next]_(Auth!vars)
    PROVE  Auth!KnownInv'
<1> USE DEF Auth!TypeOK, Auth!KnownInv, Auth!browser, Auth!tabState
<1>1. ASSUME NEW t \in Tabs, Auth!Load(t) PROVE Auth!KnownInv'
  BY <1>1 DEF Auth!Load, Auth!SessionAssumption
<1>2. ASSUME NEW t \in Tabs, Auth!Observe(t) PROVE Auth!KnownInv'
  BY <1>2 DEF Auth!Observe
<1>3. ASSUME NEW t \in Tabs,
             Auth!Visit(t) \/ Auth!Gate(t) \/ Auth!SignIn(t) \/ Auth!Refused(t) \/ Auth!Push(t)
             \/ Auth!LogOut(t) \/ Auth!Leave(t)
      PROVE  Auth!KnownInv'
  BY <1>3 DEF Auth!Visit, Auth!Gate, Auth!SignIn, Auth!Refused, Auth!Push, Auth!LogOut, Auth!Leave
<1>4. ASSUME NEW t \in Tabs, Auth!SignOut(t) PROVE Auth!KnownInv'
  BY <1>4 DEF Auth!SignOut
<1>5. ASSUME NEW t \in Tabs, NEW u \in Users, Auth!Accepted(t, u) PROVE Auth!KnownInv'
  BY <1>5 DEF Auth!Accepted, Auth!SessionAssumption
<1>6. CASE Auth!Expire \/ \E c \in Auth!Call : Auth!Reply(c) \/ Auth!Fail(c)
  BY <1>6 DEF Auth!Expire, Auth!Reply, Auth!Fail
<1>7. CASE UNCHANGED Auth!vars
  BY <1>7 DEF Auth!vars
<1> QED
  BY <1>1, <1>2, <1>3, <1>4, <1>5, <1>6, <1>7 DEF Auth!Next

\* Every step keeps what the calls in flight will make of the cookie.
LEMMA AuthNextCallsInv ==
    ASSUME Auth!SessionAssumption, Auth!IInv, [Auth!Next]_(Auth!vars)
    PROVE  Auth!CallsInv'
<1> DEFINE account == s1  cookie == s2  calls == s3  user == s4  disturbed == s7
<1> USE DEF Auth!IInv, Auth!TypeOK, Auth!browser, Auth!tabState
<1>1. ASSUME account' = account, cookie' = cookie, user' = user, calls' = calls,
             disturbed' = disturbed
      PROVE  Auth!CallsInv'
  BY <1>1 DEF Auth!CallsInv, Auth!InFlight, Auth!Behind
<1>2. ASSUME NEW t \in Tabs,
             Auth!Visit(t) \/ Auth!Gate(t) \/ Auth!SignIn(t) \/ Auth!Refused(t) \/ Auth!Push(t)
             \/ Auth!Leave(t)
      PROVE  Auth!CallsInv'
  BY <1>1, <1>2 DEF Auth!Visit, Auth!Gate, Auth!SignIn, Auth!Refused, Auth!Push, Auth!Leave,
    Auth!Navigate
<1>3. ASSUME NEW t \in Tabs, Auth!Load(t) PROVE Auth!CallsInv'
  <2>1. Auth!Behind'
    BY <1>3 DEF Auth!Load, Auth!Behind, Auth!SessionAssumption
  <2>2. Auth!InFlight' = Auth!InFlight /\ disturbed' = disturbed
    BY <1>3 DEF Auth!Load, Auth!InFlight
  <2> QED
    BY <2>1, <2>2 DEF Auth!CallsInv
<1>4. ASSUME NEW t \in Tabs, Auth!Observe(t) PROVE Auth!CallsInv'
  <2>1. Auth!Told(t, account) # {} /\ Auth!Send(Auth!Told(t, account)) /\ account' = account
    BY <1>4 DEF Auth!Observe, Auth!Told
  <2> QED
    BY <2>1, AuthMadeCalls, AuthSentInv
<1>5. ASSUME NEW t \in Tabs, Auth!LogOut(t) PROVE Auth!CallsInv'
  <2>1. Auth!Send({Auth!Made(t, "logOut", none)})
    BY <1>5 DEF Auth!LogOut
  <2>2. Auth!Made(t, "logOut", none) \in Auth!Call /\ Auth!Made(t, "logOut", none).user = none
    BY AuthMadeCalls
  <2>3. {Auth!Made(t, "logOut", none)} \in SUBSET Auth!Call
    BY <2>2
  <2> QED
    BY <2>1, <2>2, <2>3, AuthSentInv
<1>6. ASSUME NEW t \in Tabs, NEW u \in Users, Auth!Accepted(t, u) PROVE Auth!CallsInv'
  <2>1. Auth!Send(Auth!Told(t, u) \cup {Auth!Made(t, "signIn", u)}) /\ account' = u
    BY <1>6 DEF Auth!Accepted
  <2>2. \A c \in Auth!Told(t, u) \cup {Auth!Made(t, "signIn", u)} : c \in Auth!Call /\ c.user = u
    BY AuthMadeCalls
  <2>3. Auth!Told(t, u) \cup {Auth!Made(t, "signIn", u)} \in SUBSET Auth!Call
    BY <2>2
  <2> QED
    BY <2>1, <2>2, <2>3, AuthSentInv
<1>7. ASSUME NEW t \in Tabs, Auth!SignOut(t) PROVE Auth!CallsInv'
  <2>1. Auth!Send(Auth!Told(t, none)) /\ account' = none /\ cookie' = cookie
    BY <1>7 DEF Auth!SignOut
  <2>2. CASE user[t] # none
    <3>1. Auth!Told(t, none) # {}
      BY <2>2 DEF Auth!Told
    <3> QED
      BY <2>1, <3>1, AuthMadeCalls, AuthSentInv
  <2>3. CASE user[t] = none
    <3>1. user' = user
      BY <1>7, <2>3 DEF Auth!SignOut
    <3>2. Auth!InFlight' = Auth!InFlight /\ (~disturbed' => ~disturbed)
      <4>1. Auth!Told(t, none) = {}
        BY <2>3 DEF Auth!Told
      <4>2. Auth!InFlight' = Auth!InFlight \cup {} /\ (~disturbed' => ~disturbed)
        BY <2>1, <4>1, AuthSendCalls
      <4> QED
        BY <4>2
    <3>3. account # none => Auth!Behind'
      BY <2>1, <3>1 DEF Auth!KnownInv, Auth!Behind
    <3> QED
      BY <2>1, <3>1, <3>2, <3>3 DEF Auth!CallsInv, Auth!Behind
  <2> QED
    BY <2>2, <2>3
<1>8. CASE Auth!Expire
  BY <1>8 DEF Auth!Expire, Auth!CallsInv, Auth!InFlight, Auth!Behind
<1>9. ASSUME NEW c \in Auth!Call, Auth!Reply(c) PROVE Auth!CallsInv'
  <2>1. Auth!InFlight' \subseteq Auth!InFlight /\ c \in Auth!InFlight
    BY <1>9, AuthEndedCalls DEF Auth!Reply
  <2>2. account' = account /\ user' = user /\ disturbed' = disturbed /\ cookie' = c.user
    BY <1>9 DEF Auth!Reply
  <2> QED
    BY <2>1, <2>2 DEF Auth!CallsInv, Auth!Behind
<1>10. ASSUME NEW c \in Auth!Call, Auth!Fail(c) PROVE Auth!CallsInv'
  <2>1. Auth!InFlight' \subseteq Auth!InFlight /\ c \in Auth!InFlight
    BY <1>10, AuthEndedCalls DEF Auth!Fail
  <2>2. /\ account' = account /\ user' = user /\ cookie' = cookie
        /\ ~disturbed' => ~disturbed /\ cookie \in {c.user, none}
    BY <1>10 DEF Auth!Fail
  <2> QED
    BY <2>1, <2>2 DEF Auth!CallsInv, Auth!Behind
<1>11. CASE UNCHANGED Auth!vars
  BY <1>1, <1>11 DEF Auth!vars
<1> QED
  BY <1>2, <1>3, <1>4, <1>5, <1>6, <1>7, <1>8, <1>9, <1>10, <1>11 DEF Auth!Next

-----------------------------------------------------------------------------
(* SignIn: lookups and the one-time code.                                  *)

\* The invariant holds initially.
LEMMA LoginInitIInv == ASSUME Login!AddressesAssumption, Login!Init PROVE Login!IInv
<1> DEFINE devToken == s1  signedIn == s3  loaded == s4  discovering == s9  submitting == s10
           failed == s11  mistyped == s15  upset == s16  typed == s17
<1>1. Login!TypeOK
  <2>1. /\ signedIn \in BOOLEAN /\ loaded \in BOOLEAN /\ discovering \in BOOLEAN
             /\ submitting \in BOOLEAN
        /\ failed \in BOOLEAN /\ mistyped \in BOOLEAN /\ upset \in BOOLEAN
    BY DEF Login!Init
  <2>2. devToken \in BOOLEAN /\ typed \in 0..MaxTyped
    BY DEF Login!Init, Login!AddressesAssumption
  <2> QED  BY <2>1, <2>2 DEF Login!Init, Login!TypeOK, Login!Stages
<1>2. Login!LookupInv
  BY DEF Login!Init, Login!LookupInv, Login!Undiscovered
<1>3. Login!RunsInv /\ Login!CodeInv
  BY DEF Login!Init, Login!RunsInv, Login!CodeInv
<1> QED
  BY <1>1, <1>2, <1>3 DEF Login!IInv

\* What an answer says is of the address that was looked up.
LEMMA LoginVerdicts ==
    ASSUME NEW a \in Addresses
    PROVE  /\ Login!Verdict(a) \in Login!Discovery /\ Login!NoSso(a) \in Login!Discovery
           /\ Login!Verdict(a).address = a /\ Login!NoSso(a).address = a
BY DEF Login!Verdict, Login!NoSso, Login!Discovery, Login!Verdicts

\* Every step keeps the invariant.
LEMMA LoginNextIInv ==
    ASSUME Login!AddressesAssumption, Login!IInv, [Login!Next]_(Login!vars)
    PROVE  Login!IInv'
<1> DEFINE devToken == s1  page == s2  signedIn == s3  loaded == s4  timer == s6  failed == s11
           code == s12  run == s13  latest == s14  upset == s16
<1> USE DEF Login!IInv, Login!TypeOK, Login!loginVars, Login!callbackVars, Login!Live, Login!Holds
<1>a. /\ none \notin Addresses /\ MaxTyped \in Nat /\ Login!Undiscovered.address = none
      /\ Login!Runs = 1..3
  BY DEF Login!AddressesAssumption, Login!Undiscovered, Login!Runs
<1>1. ASSUME NEW a \in Addresses \cup {none}, Login!Type(a) PROVE Login!IInv'
  <2>1. Login!TypeOK'
    BY <1>1, <1>a DEF Login!Type
  <2>2. Login!LookupInv'
    BY <1>1, <1>a DEF Login!Type, Login!LookupInv
  <2>3. Login!RunsInv' /\ Login!CodeInv'
    BY <1>1 DEF Login!Type, Login!RunsInv, Login!CodeInv
  <2> QED  BY <2>1, <2>2, <2>3
<1>2. CASE Login!LookUp
  <2>0. timer \in Addresses /\ Login!NoSso(timer) \in Login!Discovery
        /\ Login!NoSso(timer).address = timer
    BY <1>2, LoginVerdicts DEF Login!LookUp
  <2>1. Login!TypeOK'
    <3>1. /\ timer' = none
          /\ s7' \in {s7, s7 \cup {timer}} /\ s8' \in {s8, Login!NoSso(timer)} /\ s9' \in BOOLEAN
          /\ UNCHANGED <<s1, s2, s3, s4, s5, s10, s11, s12, s13, s14, s15, s16, s17>>
      BY <1>2 DEF Login!LookUp
    <3> QED
      <4>1. /\ s1' \in BOOLEAN /\ s3' \in BOOLEAN /\ s4' \in BOOLEAN /\ s9' \in BOOLEAN
            /\ s10' \in BOOLEAN /\ s11' \in BOOLEAN /\ s15' \in BOOLEAN /\ s16' \in BOOLEAN
        BY <2>0, <3>1
      <4>2. s2' \in {"login", "idp", "callback", "app"} /\ s12' \in {"none", "fresh", "used"}
        BY <2>0, <3>1
      <4>3. /\ s5' \in Addresses \cup {none} /\ s6' \in Addresses \cup {none}
            /\ s7' \in SUBSET Addresses /\ s8' \in Login!Discovery \cup {Login!Undiscovered}
        BY <2>0, <3>1
      <4>4. /\ s13' \in [Login!Runs -> Login!Stages]
            /\ s14' \in Login!Runs \cup {0} /\ s17' \in 0..MaxTyped
        BY <2>0, <3>1
      <4> QED
        BY Zenon, <4>1, <4>2, <4>3, <4>4
  <2>2. Login!LookupInv'
    BY <1>2, <2>0 DEF Login!LookUp, Login!LookupInv
  <2>3. Login!RunsInv' /\ Login!CodeInv'
    BY <1>2 DEF Login!LookUp, Login!RunsInv, Login!CodeInv, Login!Live, Login!Holds
  <2> QED  BY <2>1, <2>2, <2>3
<1>3. ASSUME NEW a \in Addresses, NEW verdict \in Login!Discovery, verdict.address = a,
             Login!Found(a, verdict)
      PROVE  Login!IInv'
  <2>1. Login!TypeOK'
    <3>1. /\ s7' \subseteq s7 /\ s8' \in Login!Discovery /\ s9' = FALSE
          /\ UNCHANGED <<s1, s2, s3, s4, s5, s6, s10, s11, s12, s13, s14, s15, s16, s17>>
      BY <1>3 DEF Login!Found
    <3> QED
      <4>1. /\ s1' \in BOOLEAN /\ s3' \in BOOLEAN /\ s4' \in BOOLEAN /\ s9' \in BOOLEAN
            /\ s10' \in BOOLEAN /\ s11' \in BOOLEAN /\ s15' \in BOOLEAN /\ s16' \in BOOLEAN
        BY <3>1
      <4>2. s2' \in {"login", "idp", "callback", "app"} /\ s12' \in {"none", "fresh", "used"}
        BY <3>1
      <4>3. /\ s5' \in Addresses \cup {none} /\ s6' \in Addresses \cup {none}
            /\ s7' \in SUBSET Addresses /\ s8' \in Login!Discovery \cup {Login!Undiscovered}
        BY <3>1
      <4>4. /\ s13' \in [Login!Runs -> Login!Stages]
            /\ s14' \in Login!Runs \cup {0} /\ s17' \in 0..MaxTyped
        BY <3>1
      <4> QED
        BY Zenon, <4>1, <4>2, <4>3, <4>4
  <2>2. Login!LookupInv'
    BY <1>3, <1>a DEF Login!Found, Login!LookupInv
  <2>3. Login!RunsInv' /\ Login!CodeInv'
    BY <1>3 DEF Login!Found, Login!RunsInv, Login!CodeInv
  <2> QED  BY <2>1, <2>2, <2>3
<1>4. CASE Login!GoToProvider \/ Login!Submit
  <2>1. Login!TypeOK'
    <3>1. /\ s2' \in {"idp", s2} /\ s10' \in BOOLEAN /\ s11' \in BOOLEAN
          /\ UNCHANGED <<s1, s3, s4, s5, s6, s7, s8, s9, s12, s13, s14, s15, s16, s17>>
      BY <1>4 DEF Login!GoToProvider, Login!Submit
    <3> QED
      <4>1. /\ s1' \in BOOLEAN /\ s3' \in BOOLEAN /\ s4' \in BOOLEAN /\ s9' \in BOOLEAN
            /\ s10' \in BOOLEAN /\ s11' \in BOOLEAN /\ s15' \in BOOLEAN /\ s16' \in BOOLEAN
        BY <3>1
      <4>2. s2' \in {"login", "idp", "callback", "app"} /\ s12' \in {"none", "fresh", "used"}
        BY <3>1
      <4>3. /\ s5' \in Addresses \cup {none} /\ s6' \in Addresses \cup {none}
            /\ s7' \in SUBSET Addresses /\ s8' \in Login!Discovery \cup {Login!Undiscovered}
        BY <3>1
      <4>4. /\ s13' \in [Login!Runs -> Login!Stages]
            /\ s14' \in Login!Runs \cup {0} /\ s17' \in 0..MaxTyped
        BY <3>1
      <4> QED
        BY Zenon, <4>1, <4>2, <4>3, <4>4
  <2>2. Login!LookupInv'
    BY <1>4 DEF Login!GoToProvider, Login!Submit, Login!LookupInv
  <2>3. Login!RunsInv' /\ Login!CodeInv'
    BY <1>4 DEF Login!GoToProvider, Login!Submit, Login!RunsInv, Login!CodeInv
  <2> QED  BY <2>1, <2>2, <2>3
<1>5. ASSUME NEW accepted \in BOOLEAN, Login!Submitted(accepted) PROVE Login!IInv'
  <2>0. signedIn' \in BOOLEAN /\ failed' \in BOOLEAN /\ page' \in {"app", page}
    BY <1>5 DEF Login!Submitted
  <2>1. Login!TypeOK'
    <3>1. /\ s10' = FALSE
          /\ UNCHANGED <<s1, s4, s5, s6, s7, s8, s9, s12, s13, s14, s15, s16, s17>>
      BY <1>5 DEF Login!Submitted
    <3> QED
      <4>1. /\ s1' \in BOOLEAN /\ s3' \in BOOLEAN /\ s4' \in BOOLEAN /\ s9' \in BOOLEAN
            /\ s10' \in BOOLEAN /\ s11' \in BOOLEAN /\ s15' \in BOOLEAN /\ s16' \in BOOLEAN
        BY <2>0, <3>1
      <4>2. s2' \in {"login", "idp", "callback", "app"} /\ s12' \in {"none", "fresh", "used"}
        BY <2>0, <3>1
      <4>3. /\ s5' \in Addresses \cup {none} /\ s6' \in Addresses \cup {none}
            /\ s7' \in SUBSET Addresses /\ s8' \in Login!Discovery \cup {Login!Undiscovered}
        BY <2>0, <3>1
      <4>4. /\ s13' \in [Login!Runs -> Login!Stages]
            /\ s14' \in Login!Runs \cup {0} /\ s17' \in 0..MaxTyped
        BY <2>0, <3>1
      <4> QED
        BY Zenon, <4>1, <4>2, <4>3, <4>4
  <2>2. Login!LookupInv'
    BY <1>5 DEF Login!Submitted, Login!LookupInv
  <2>3. Login!RunsInv' /\ Login!CodeInv'
    BY <1>5 DEF Login!Submitted, Login!RunsInv, Login!CodeInv
  <2> QED  BY <2>1, <2>2, <2>3
<1>6. CASE Login!Return
  <2>0. failed' \in BOOLEAN /\ run' \in {[run EXCEPT ![1] = "asking"], [run EXCEPT ![1] = "over"]}
    BY <1>6 DEF Login!Return
  <2>5. loaded' \in BOOLEAN /\ upset' \in BOOLEAN
    BY <1>6 DEF Login!Return
  <2>6. run' = [run EXCEPT ![1] = "asking"] \/ (run' = [run EXCEPT ![1] = "over"] /\ failed')
    <3>1. CASE devToken
      BY <1>6, <3>1 DEF Login!Return
    <3>2. CASE ~devToken
      BY <1>6, <3>2 DEF Login!Return
    <3> QED  BY <3>1, <3>2
  <2>7. /\ \A r \in Login!Runs : run[r] = "none"
        /\ page' = "callback" /\ code' = "fresh" /\ latest' = 1
    BY <1>6 DEF Login!Return, Login!RunsInv
  <2>1. Login!TypeOK'
    <3>1. run' \in [Login!Runs -> Login!Stages]
      BY <1>a, <2>0 DEF Login!Stages
    <3> QED  BY <1>6, <1>a, <2>0, <2>5, <3>1 DEF Login!Return
  <2>2. Login!LookupInv'
    BY <1>6 DEF Login!Return, Login!LookupInv
  <2>3. /\ \A r \in Login!Runs : run'[r] \in {"none", "asking", "over"}
             /\ (run'[r] # "none" => r = 1)
        /\ ~failed' => run'[1] = "asking"
    BY <1>a, <2>6, <2>7
  <2>4. Login!RunsInv' /\ Login!CodeInv'
    BY <1>a, <2>3, <2>7 DEF Login!RunsInv, Login!CodeInv, Login!Live, Login!Holds
  <2> QED  BY <2>1, <2>2, <2>4
<1>7. CASE Login!Loaded
  <2>1. CASE page = "callback"
    <3>0. /\ latest = 1 /\ Login!RunAnew(latest + 1, signedIn \/ devToken)
          /\ UNCHANGED <<page, code>> /\ loaded'
      BY <1>7, <2>1 DEF Login!Loaded, Login!RunsInv
    <3>1. /\ latest' = 2 /\ run[2] = "none" /\ run[3] = "none"
          /\ \/ run' = [run EXCEPT ![2] = "asking"]
             \/ run' = [run EXCEPT ![2] = "over"] /\ failed'
          /\ ~upset' => ~upset /\ \A q \in Login!Runs : run[q] \notin {"asking", "found", "granted"}
      <4>1. latest + 1 = 2
        BY <3>0
      <4>2. run[2] = "none" /\ run[3] = "none"
        BY <1>a, <2>1, <3>0 DEF Login!RunsInv
      <4>3. CASE signedIn \/ devToken
        BY <3>0, <4>1, <4>2, <4>3 DEF Login!RunAnew
      <4>4. CASE ~(signedIn \/ devToken)
        BY <3>0, <4>1, <4>2, <4>4 DEF Login!RunAnew
      <4> QED  BY <4>3, <4>4
    <3>6. failed' \in BOOLEAN /\ upset' \in BOOLEAN /\ loaded' \in BOOLEAN
      BY <1>7, <2>1 DEF Login!Loaded, Login!RunAnew
    <3>2. Login!TypeOK'
      <4>1. run' \in [Login!Runs -> Login!Stages] /\ latest' \in Login!Runs \cup {0}
        BY <1>a, <3>1 DEF Login!Stages
      <4> QED  BY <1>7, <3>6, <4>1 DEF Login!Loaded
    <3>3. Login!LookupInv'
      BY <2>1, <3>0 DEF Login!LookupInv
    <3>4. \A r \in Login!Runs : (Login!Holds(r)' <=> Login!Holds(r)) /\ (r # 2 => run'[r] = run[r])
      BY <1>a, <3>1 DEF Login!Holds
    <3>5. Login!RunsInv'
      BY <1>a, <2>1, <3>0, <3>1, <3>4 DEF Login!RunsInv
    <3>7. Login!CodeInv'
      BY <1>a, <2>1, <3>0, <3>1, <3>4 DEF Login!CodeInv, Login!Live
    <3> QED  BY <3>2, <3>3, <3>5, <3>7
  <2>2. CASE page # "callback"
    <3>1. UNCHANGED <<page, latest, run, failed, upset>>
      BY <1>7, <2>2 DEF Login!Loaded
    <3>2. Login!TypeOK'
      BY <1>7, <3>1 DEF Login!Loaded
    <3>3. Login!LookupInv'
      BY <1>7, <3>1 DEF Login!Loaded, Login!LookupInv
    <3>4. Login!RunsInv' /\ Login!CodeInv'
      BY <2>2, <3>1 DEF Login!RunsInv, Login!CodeInv
    <3> QED  BY <3>2, <3>3, <3>4
  <2> QED  BY <2>1, <2>2
<1>8. ASSUME NEW r \in Login!Runs,
             \/ Login!Exchange(r) \/ Login!Consume(r) \/ Login!ExchangeFails(r)
             \/ Login!Granted(r) \/ Login!RefusedCode(r)
             \/ Login!FirebaseSignsIn(r) \/ Login!FirebaseRefuses(r)
             \/ Login!Redirect(r) \/ Login!NoSession(r)
      PROVE  Login!IInv'
  <2> USE DEF Login!RunsInv, Login!CodeInv, Login!Live, Login!Holds
  <2>0. page = "callback" /\ latest \in Login!Runs /\ page' \in {"callback", "app"}
    BY <1>8 DEF Login!Exchange, Login!Consume, Login!ExchangeFails, Login!Granted,
      Login!RefusedCode, Login!FirebaseSignsIn, Login!FirebaseRefuses, Login!Redirect,
      Login!NoSession
  <2>1. Login!LookupInv'
    BY <2>0 DEF Login!LookupInv
  <2>2. CASE Login!Exchange(r)
    <3>1. Login!TypeOK'
      BY <2>2 DEF Login!Exchange, Login!Stages
    <3>2. Login!RunsInv' /\ Login!CodeInv'
      <4>1. CASE code = "fresh"
        <5>1. /\ run' = [run EXCEPT ![r] = "found"] /\ run[r] = "asking"
              /\ UNCHANGED <<page, loaded, failed, code, latest, upset>>
          BY <2>2, <4>1 DEF Login!Exchange
        <5> QED  BY <1>a, <2>0, <4>1, <5>1
      <4>2. CASE code # "fresh"
        <5>1. /\ run' = [run EXCEPT ![r] = "refused"] /\ run[r] = "asking"
              /\ UNCHANGED <<page, loaded, failed, code, latest, upset>>
          BY <2>2, <4>2 DEF Login!Exchange
        <5> QED  BY <1>a, <2>0, <4>2, <5>1
      <4> QED  BY <4>1, <4>2
    <3> QED  BY <2>1, <3>1, <3>2
  <2>3. CASE Login!Consume(r)
    <3>1. Login!TypeOK'
      BY <2>3 DEF Login!Consume, Login!Stages
    <3>2. /\ run' = [run EXCEPT ![r] = "granted"] /\ run[r] = "found" /\ code' = "used"
          /\ UNCHANGED <<page, loaded, failed, latest, upset>>
      BY <2>3 DEF Login!Consume
    <3>3. Login!RunsInv'
      BY <1>a, <2>0, <3>2
    <3>4. Login!CodeInv'
      BY <1>a, <2>0, <3>2
    <3> QED  BY <2>1, <3>1, <3>3, <3>4
  <2>4. CASE Login!ExchangeFails(r)
    <3>0. upset' \in BOOLEAN
      BY <2>4 DEF Login!ExchangeFails
    <3>1. Login!TypeOK'
      BY <2>4, <3>0 DEF Login!ExchangeFails, Login!Stages
    <3>2. /\ run' = [run EXCEPT ![r] = "refused"] /\ run[r] \in {"asking", "found", "granted"}
          /\ UNCHANGED <<page, loaded, failed, code, latest>>
          /\ ~upset' => ~upset /\ run[r] # "granted"
      BY <2>4 DEF Login!ExchangeFails
    <3>3. Login!RunsInv'
      BY <1>a, <2>0, <3>2
    <3>4. Login!CodeInv'
      BY <1>a, <2>0, <3>2
    <3> QED  BY <2>1, <3>1, <3>3, <3>4
  <2>5. CASE Login!Granted(r)
    <3>0. /\ UNCHANGED <<page, loaded, failed, code, latest, upset>>
          /\ run[r] = "granted"
          /\ run' = [run EXCEPT ![r] = IF Login!Live(r) THEN "signing" ELSE "over"]
      BY <2>5 DEF Login!Granted
    <3>1. Login!TypeOK'
      BY <2>5 DEF Login!Granted, Login!Stages
    <3>2. Login!RunsInv' /\ Login!CodeInv'
      <4>1. CASE Login!Live(r)
        <5>1. run' = [run EXCEPT ![r] = "signing"]
          BY <3>0, <4>1
        <5>2. \A q \in Login!Runs : Login!Holds(q)' <=> Login!Holds(q)
          BY <3>0, <5>1
        <5> QED  BY <1>a, <2>0, <3>0, <5>1, <5>2
      <4>2. CASE ~Login!Live(r)
        <5>1. run' = [run EXCEPT ![r] = "over"]
          BY <3>0, <4>2
        <5>2. ~upset => Login!Live(r)
          BY <2>0, <3>0
        <5> QED  BY <1>a, <2>0, <3>0, <4>2, <5>1, <5>2
      <4> QED  BY <4>1, <4>2
    <3> QED  BY <2>1, <3>1, <3>2
  <2>6. CASE Login!RefusedCode(r)
    <3>0. /\ run' = [run EXCEPT ![r] = "over"] /\ run[r] = "refused"
          /\ UNCHANGED <<page, loaded, code, latest, upset>>
          /\ failed' \in BOOLEAN /\ (~failed' => ~failed /\ r # latest)
      BY <2>6 DEF Login!RefusedCode
    <3>1. Login!TypeOK'
      BY <2>6, <3>0 DEF Login!RefusedCode, Login!Stages
    <3>2. Login!RunsInv' /\ Login!CodeInv'
      BY <1>a, <2>0, <3>0
    <3> QED  BY <2>1, <3>1, <3>2
  <2>7. CASE Login!FirebaseSignsIn(r)
    <3>0. /\ run[r] = "signing" /\ UNCHANGED <<page, loaded, failed, code, upset>>
          /\ \/ run' = [run EXCEPT ![r] = "session"] /\ latest' = latest
             \/ /\ latest + 1 \in Login!Runs /\ latest' = latest + 1
                /\ run' = [run EXCEPT ![r] = "session", ![latest + 1] = "asking"]
      BY <2>7 DEF Login!FirebaseSignsIn
    <3>1. Login!TypeOK'
      BY <1>a, <2>7 DEF Login!FirebaseSignsIn, Login!Stages
    <3>2. r # latest + 1 /\ code = "used" /\ loaded
      BY <1>a, <2>0, <2>7 DEF Login!FirebaseSignsIn
    <3>3. \A q \in Login!Runs : Login!Holds(q)' <=> Login!Holds(q)
      BY <1>a, <2>0, <3>0, <3>2
    <3>4. Login!RunsInv'
      BY <1>a, <2>0, <3>0, <3>2
    <3>5. Login!CodeInv'
      BY <1>a, <2>0, <3>0, <3>2, <3>3
    <3> QED  BY <2>1, <3>1, <3>4, <3>5
  <2>8. CASE Login!FirebaseRefuses(r) \/ Login!NoSession(r)
    <3>0. /\ run' = [run EXCEPT ![r] = "over"] /\ run[r] \in {"signing", "session"} /\ upset' = TRUE
          /\ UNCHANGED <<page, loaded, code, latest>>
          /\ failed' \in BOOLEAN /\ (~failed' => ~failed /\ r # latest)
      BY <2>8 DEF Login!FirebaseRefuses, Login!NoSession
    <3>1. Login!TypeOK'
      BY <2>8, <3>0 DEF Login!FirebaseRefuses, Login!NoSession, Login!Stages
    <3>2. Login!RunsInv' /\ Login!CodeInv'
      BY <1>a, <2>0, <3>0
    <3> QED  BY <2>1, <3>1, <3>2
  <2>9. CASE Login!Redirect(r)
    <3>1. Login!TypeOK'
      BY <2>9 DEF Login!Redirect, Login!Stages
    <3>2. Login!RunsInv' /\ Login!CodeInv'
      BY <1>a, <2>0, <2>9 DEF Login!Redirect
    <3> QED  BY <2>1, <3>1, <3>2
  <2> QED  BY <1>8, <2>2, <2>3, <2>4, <2>5, <2>6, <2>7, <2>8, <2>9
<1>9. CASE UNCHANGED Login!vars
  <2>1. Login!TypeOK'
    BY <1>9 DEF Login!vars
  <2>2. Login!LookupInv'
    BY <1>9 DEF Login!vars, Login!LookupInv
  <2>3. Login!RunsInv' /\ Login!CodeInv'
    BY <1>9 DEF Login!vars, Login!RunsInv, Login!CodeInv, Login!Live, Login!Holds
  <2> QED  BY <2>1, <2>2, <2>3
<1> QED
  BY <1>1, <1>2, <1>3, <1>4, <1>5, <1>6, <1>7, <1>8, <1>9, LoginVerdicts DEF Login!Next

\* The invariant implies what is promised.
LEMMA LoginFitsAndKeeps ==
    ASSUME Login!IInv
    PROVE  Login!VerdictFitsAddress /\ Login!CodeNotWasted /\ Login!EndIsShown
<1>1. Login!VerdictFitsAddress
  BY DEF Login!IInv, Login!LookupInv, Login!VerdictFitsAddress
<1>2. Login!CodeNotWasted
  BY DEF Login!IInv, Login!CodeInv, Login!Holds, Login!CodeNotWasted, Login!Ended
<1>3. Login!EndIsShown
  BY DEF Login!IInv, Login!RunsInv, Login!EndIsShown, Login!Ended
<1> QED
  BY <1>1, <1>2, <1>3

-----------------------------------------------------------------------------
(* Scans: links, requests and the progress on show.                        *)

\* The invariant holds initially.
LEMMA ScanInitIInv == ASSUME Scan!ScanIdsAssumption, Scan!Init PROVE Scan!IInv
<1> DEFINE handled == s3  replacing == s4  pending == s5  configOrg == s11  visits == s17
           owed == s18  overlapped == s19
<1>1. Scan!TypeOK
  <2>1. configOrg \in BOOLEAN /\ handled \in BOOLEAN /\ replacing \in BOOLEAN
        /\ pending \in BOOLEAN /\ overlapped \in BOOLEAN
    BY DEF Scan!Init, Scan!Fresh
  <2>2. visits \in 0..MaxVisits /\ owed \in -ScanStarts..MaxVisits
    BY DEF Scan!Init, Scan!ScanIdsAssumption
  <2> QED
    BY <2>1, <2>2 DEF Scan!Init, Scan!TypeOK, Scan!Fresh, Scan!Unfetched, Scan!Links, Scan!Views,
      Scan!Stages, Scan!ScanIds
<1>2. Scan!OwedInv
  BY DEF Scan!Init, Scan!OwedInv
<1>3. Scan!FlightInv
  BY DEF Scan!Init, Scan!FlightInv, Scan!Flying, Scan!Fresh
<1> QED
  BY <1>1, <1>2, <1>3 DEF Scan!IInv

\* What a step that starts a scan does, or is refused.
LEMMA ScanBegun ==
    ASSUME Scan!ScanIdsAssumption, Scan!TypeOK, NEW by \in {"link", "hand"}, Scan!Begin(by)
    PROVE  \E s \in Scan!Starts :
              /\ Scan!Flying' = Scan!Flying \cup {s} /\ s14' = s /\ s # 0 /\ s10' = "scanning"
              /\ s15' \in [Scan!Starts -> Scan!Stages] /\ s6' \in Scan!Starts \cup {0}
              /\ s18' = s18 - (IF by = "link" THEN 1 ELSE 0)
              /\ ~s19' => ~s19 /\ Scan!Flying = {} /\ s16 = {} /\ s2 = "none"
              /\ ~s19' /\ by = "hand" => ~s5
              /\ s11' \in BOOLEAN /\ s19' \in BOOLEAN /\ UNCHANGED <<s12, s13>>
<1> DEFINE link == s2  pending == s5  autoStart == s6  view == s10  configOrg == s11
           chosen == s12  current == s13  timer == s14  starts == s15  gets == s16  owed == s18
           overlapped == s19
<1>1. PICK s \in Scan!Starts :
         /\ starts' = [starts EXCEPT ![s] = "flying"]
         /\ autoStart' = IF by = "link" THEN s ELSE autoStart
         /\ owed' = owed - (IF by = "link" THEN 1 ELSE 0)
         /\ view' = "scanning" /\ configOrg' = TRUE /\ timer' = s
         /\ overlapped'
              = (overlapped \/ Scan!Flying # {} \/ gets # {} \/ link # "none" \/ (by = "hand" /\ pending))
         /\ UNCHANGED <<chosen, current>>
  BY DEF Scan!Begin
<1>2. starts' \in [Scan!Starts -> Scan!Stages] /\ Scan!Flying' = Scan!Flying \cup {s}
  BY <1>1 DEF Scan!TypeOK, Scan!Flying, Scan!Stages
<1>3. s # 0 /\ autoStart' \in Scan!Starts \cup {0}
  BY <1>1 DEF Scan!TypeOK, Scan!Starts
<1>4. overlapped' \in BOOLEAN /\ configOrg' \in BOOLEAN
  BY <1>1
<1> QED
  BY <1>1, <1>2, <1>3, <1>4

\* A scan that ends.
LEMMA ScanEnded ==
    ASSUME Scan!TypeOK, NEW s \in Scan!Starts, NEW w \in Scan!Stages \ {"flying"},
           s15' = [s15 EXCEPT ![s] = w]
    PROVE  s15' \in [Scan!Starts -> Scan!Stages] /\ Scan!Flying' = Scan!Flying \ {s}
BY DEF Scan!TypeOK, Scan!Flying

\* Every step keeps the invariant.
LEMMA ScanNextIInv ==
    ASSUME Scan!ScanIdsAssumption, Scan!IInv, [Scan!Next]_(Scan!vars)
    PROVE  Scan!IInv'
<1> DEFINE at == s1  link == s2  handled == s3  replacing == s4  pending == s5  autoStart == s6
           history == s9  view == s10  configOrg == s11  chosen == s12  current == s13
           timer == s14  starts == s15  gets == s16  visits == s17  owed == s18
           overlapped == s19
<1> USE DEF Scan!IInv, Scan!linkVars, Scan!cacheVars, Scan!viewVars, Scan!requestVars, Scan!marks
<1>a. /\ ScanStarts \in Nat /\ MaxVisits \in Nat /\ visits \in Nat /\ owed \in Nat
           /\ owed <= visits
      /\ visits <= MaxVisits /\ 0 \notin Scan!Starts
  BY DEF Scan!ScanIdsAssumption, Scan!TypeOK, Scan!OwedInv, Scan!Starts
<1>1. ASSUME NEW l \in Scan!Links, Scan!Open(l) PROVE Scan!IInv'
  <2>1. Scan!TypeOK'
    BY <1>1, <1>a DEF Scan!Open, Scan!TypeOK, Scan!Unfetched
  <2>2. Scan!OwedInv'
    BY <1>1, <1>a DEF Scan!Open, Scan!OwedInv
  <2>3. Scan!FlightInv'
    BY <1>1 DEF Scan!Open, Scan!FlightInv, Scan!Flying
  <2> QED  BY <2>1, <2>2, <2>3
<1>2. CASE Scan!Leave
  <2>0. starts' \in [Scan!Starts -> Scan!Stages] /\ Scan!Flying' = {}
    BY <1>2 DEF Scan!Leave, Scan!TypeOK, Scan!Flying, Scan!Stages
  <2>4. configOrg' \in BOOLEAN /\ handled' \in BOOLEAN /\ replacing' \in BOOLEAN
    BY <1>2 DEF Scan!Leave, Scan!Fresh
  <2>1. Scan!TypeOK'
    BY <1>2, <2>0, <2>4 DEF Scan!Leave, Scan!TypeOK, Scan!Fresh, Scan!Links, Scan!Views
  <2>2. Scan!OwedInv'
    BY <1>2, <1>a DEF Scan!Leave, Scan!OwedInv
  <2>3. Scan!FlightInv'
    BY <1>2, <2>0 DEF Scan!Leave, Scan!FlightInv, Scan!Fresh
  <2> QED  BY <2>1, <2>2, <2>3
<1>3. CASE Scan!Switch
  <2>1. Scan!TypeOK'
    BY <1>3 DEF Scan!Switch, Scan!GoToHub, Scan!OpenApp, Scan!TypeOK
  <2>2. Scan!OwedInv'
    BY <1>3 DEF Scan!Switch, Scan!OwedInv
  <2>3. Scan!FlightInv'
    BY <1>3 DEF Scan!Switch, Scan!GoToHub, Scan!OpenApp, Scan!FlightInv, Scan!Flying
  <2> QED  BY <2>1, <2>2, <2>3
<1>4. CASE Scan!FetchStatus \/ Scan!FetchPolicies \/ Scan!FetchHistory
  <2>1. Scan!Listed \subseteq Scan!ScanIds
    BY DEF Scan!Listed, Scan!ScanIds
  <2>5. handled' \in BOOLEAN
    BY <1>4 DEF Scan!FetchStatus, Scan!FetchPolicies, Scan!FetchHistory, Scan!TypeOK
  <2>6. history' \subseteq Scan!ScanIds \cup {none}
    BY <1>4, <2>1 DEF Scan!FetchStatus, Scan!FetchPolicies, Scan!FetchHistory, Scan!TypeOK
  <2>2. Scan!TypeOK'
    BY <1>4, <2>5, <2>6 DEF Scan!FetchStatus, Scan!FetchPolicies, Scan!FetchHistory, Scan!TypeOK
  <2>3. Scan!OwedInv'
    BY <1>4 DEF Scan!FetchStatus, Scan!FetchPolicies, Scan!FetchHistory, Scan!OwedInv
  <2>4. Scan!FlightInv'
    BY <1>4 DEF Scan!FetchStatus, Scan!FetchPolicies, Scan!FetchHistory, Scan!FlightInv, Scan!Flying
  <2> QED  BY <2>2, <2>3, <2>4
<1>5. ASSUME NEW by \in {"link", "hand"}, Scan!Begin(by),
             UNCHANGED <<at, Scan!linkVars, Scan!cacheVars, gets, visits>>,
             at # "away", pending' = (pending /\ by = "hand"), by = "link"
             => pending /\ link = "none"
      PROVE  Scan!IInv'
  <2>1. PICK s \in Scan!Starts :
              /\ Scan!Flying' = Scan!Flying \cup {s} /\ timer' = s /\ s # 0 /\ view' = "scanning"
              /\ starts' \in [Scan!Starts -> Scan!Stages] /\ autoStart' \in Scan!Starts \cup {0}
              /\ owed' = owed - (IF by = "link" THEN 1 ELSE 0)
              /\ ~overlapped' => ~overlapped /\ Scan!Flying = {} /\ gets = {} /\ link = "none"
              /\ ~overlapped' /\ by = "hand" => ~pending
              /\ configOrg' \in BOOLEAN /\ overlapped' \in BOOLEAN
                   /\ UNCHANGED <<chosen, current>>
    BY <1>5, ScanBegun
  <2>2. Scan!OwedInv'
    <3>1. CASE by = "link"
      <4>1. ~pending' /\ link' = "none" /\ owed > 0
        BY <1>5, <3>1 DEF Scan!OwedInv
      <4> QED  BY <1>5, <1>a, <2>1, <3>1, <4>1 DEF Scan!OwedInv
    <3>2. CASE by = "hand"
      <4>1. pending' => pending
        BY <1>5
      <4> QED  BY <1>5, <1>a, <2>1, <3>2, <4>1 DEF Scan!OwedInv
    <3> QED  BY <3>1, <3>2
  <2>3. pending' \in BOOLEAN
    BY <1>5
  <2>4. owed' \in -ScanStarts..MaxVisits
    BY <1>5, <1>a, <2>1 DEF Scan!OwedInv
  <2>5. Scan!TypeOK'
    BY <1>5, <2>1, <2>3, <2>4 DEF Scan!TypeOK, Scan!Views
  <2>6. Scan!FlightInv'
    BY <1>5, <2>1 DEF Scan!FlightInv
  <2> QED  BY <2>2, <2>5, <2>6
<1>6. ASSUME Scan!Refuse, UNCHANGED <<at, Scan!linkVars, Scan!cacheVars, gets, visits>>,
             pending' \in BOOLEAN,
             pending' => pending, Scan!Flying = {} \/ overlapped
      PROVE  Scan!IInv'
  <2>1. Scan!TypeOK'
    BY <1>6 DEF Scan!Refuse, Scan!TypeOK, Scan!Views
  <2>2. Scan!OwedInv'
    BY <1>6, <1>a DEF Scan!Refuse, Scan!OwedInv
  <2>3. Scan!FlightInv'
    BY <1>6 DEF Scan!Refuse, Scan!FlightInv, Scan!Flying
  <2> QED  BY <2>1, <2>2, <2>3
<1>7. CASE Scan!StartByHand
  <2>1. /\ UNCHANGED <<at, Scan!linkVars, pending, Scan!cacheVars, gets, visits>>
             /\ at # "away" /\ view = "config"
        /\ Scan!Refuse \/ Scan!Begin("hand")
    BY <1>7 DEF Scan!StartByHand, Scan!AtView
  <2>2. Scan!Flying = {} \/ overlapped
    BY <2>1 DEF Scan!FlightInv
  <2>3. pending \in BOOLEAN
    BY DEF Scan!TypeOK
  <2> QED  BY <1>5, <1>6, <2>1, <2>2, <2>3
<1>8. CASE Scan!Recover
  <2>1. /\ UNCHANGED <<at, Scan!linkVars, Scan!cacheVars, gets, visits>> /\ at # "away"
             /\ link = "none" /\ pending
        /\ pending' = FALSE /\ (Scan!Refuse \/ Scan!Begin("link"))
    BY <1>8 DEF Scan!Recover, Scan!PendingDue
  <2>2. Scan!Flying = {} \/ overlapped
    BY <2>1 DEF Scan!FlightInv
  <2> QED  BY <1>5, <1>6, <2>1, <2>2
<1>9. ASSUME NEW s \in Scan!Starts, Scan!Answered(s) \/ Scan!NotAnswered(s) PROVE Scan!IInv'
  <2>1. PICK w \in Scan!Stages \ {"flying"} : starts' = [starts EXCEPT ![s] = w]
    BY <1>9 DEF Scan!Answered, Scan!NotAnswered, Scan!Stages
  <2>2. starts' \in [Scan!Starts -> Scan!Stages] /\ Scan!Flying' = Scan!Flying \ {s}
        /\ s \in Scan!Flying
    BY <1>9, <2>1, ScanEnded DEF Scan!Answered, Scan!NotAnswered
  <2>3. Scan!TypeOK'
    BY <1>9, <2>2 DEF Scan!Answered, Scan!NotAnswered, Scan!TypeOK, Scan!Views, Scan!ScanIds
  <2>4. Scan!OwedInv'
    BY <1>9 DEF Scan!Answered, Scan!NotAnswered, Scan!OwedInv
  <2>5. Scan!FlightInv'
    BY <1>9, <2>2 DEF Scan!Answered, Scan!NotAnswered, Scan!FlightInv
  <2> QED  BY <2>3, <2>4, <2>5
<1>10. ASSUME NEW s \in Scan!Starts, Scan!OrphanEnds(s) PROVE Scan!IInv'
  <2>1. PICK w \in Scan!Stages \ {"flying"} : starts' = [starts EXCEPT ![s] = w]
    BY <1>10 DEF Scan!OrphanEnds, Scan!Stages
  <2>2. starts' \in [Scan!Starts -> Scan!Stages] /\ Scan!Flying' = Scan!Flying
    BY <1>10, <2>1, ScanEnded DEF Scan!OrphanEnds, Scan!Flying
  <2>3. Scan!TypeOK'
    BY <1>10, <2>2 DEF Scan!OrphanEnds, Scan!TypeOK
  <2>4. Scan!OwedInv'
    BY <1>10 DEF Scan!OrphanEnds, Scan!OwedInv
  <2>5. Scan!FlightInv'
    BY <1>10, <2>2 DEF Scan!OrphanEnds, Scan!FlightInv
  <2> QED  BY <2>3, <2>4, <2>5
<1>11. CASE Scan!HandleLink
  <2>0. /\ at = "github" /\ link # "none" /\ handled' = TRUE /\ replacing' = TRUE
        /\ UNCHANGED <<at, link, autoStart, Scan!cacheVars, chosen, timer, starts, Scan!marks>>
    BY <1>11 DEF Scan!HandleLink, Scan!LinkDue
  <2>1. CASE link = "run"
    <3>1. pending' = TRUE /\ UNCHANGED <<view, configOrg, current, gets>>
      BY <1>11, <2>1 DEF Scan!HandleLink
    <3>2. Scan!TypeOK'
      BY <2>0, <3>1 DEF Scan!TypeOK
    <3>3. Scan!OwedInv' /\ Scan!FlightInv'
      BY <2>0, <2>1, <3>1 DEF Scan!OwedInv, Scan!FlightInv, Scan!Flying
    <3> QED  BY <3>2, <3>3
  <2>2. CASE link = "config"
    <3>1. view' = "config" /\ UNCHANGED <<pending, current, gets>>
          /\ configOrg' = (configOrg \/ Scan!ResolvesOrg)
      BY <1>11, <2>2 DEF Scan!HandleLink
    <3>2. configOrg' \in BOOLEAN
      BY <3>1
    <3>3. Scan!TypeOK'
      BY <2>0, <3>1, <3>2 DEF Scan!TypeOK, Scan!Views
    <3>4. Scan!OwedInv' /\ Scan!FlightInv'
      BY <2>0, <2>2, <3>1 DEF Scan!OwedInv, Scan!FlightInv, Scan!Flying
    <3> QED  BY <3>3, <3>4
  <2>3. CASE link \notin {"run", "config"}
    <3>1. /\ UNCHANGED <<pending, configOrg>> /\ link \in Recent \cup Older
          /\ \/ view' = "results" /\ current' = link /\ UNCHANGED gets
             \/ gets' = gets \cup {link} /\ UNCHANGED <<view, current>>
      BY <1>11, <2>0, <2>3 DEF Scan!HandleLink, Scan!TypeOK, Scan!Links
    <3>2. Scan!TypeOK'
      BY <2>0, <3>1 DEF Scan!TypeOK, Scan!Views, Scan!ScanIds
    <3>3. Scan!OwedInv'
      BY <2>0, <3>1 DEF Scan!OwedInv
    <3>4. Scan!FlightInv'
      BY <2>0, <3>1 DEF Scan!FlightInv, Scan!Flying
    <3> QED  BY <3>2, <3>3, <3>4
  <2> QED  BY <2>1, <2>2, <2>3
<1>12. CASE Scan!Replaced
  <2>4. handled' \in BOOLEAN /\ replacing' \in BOOLEAN
    BY <1>12 DEF Scan!Replaced, Scan!TypeOK
  <2>1. Scan!TypeOK'
    BY <1>12, <2>4 DEF Scan!Replaced, Scan!TypeOK, Scan!Links
  <2>2. Scan!OwedInv'
    BY <1>12, <1>a DEF Scan!Replaced, Scan!OwedInv
  <2>3. Scan!FlightInv'
    BY <1>12 DEF Scan!Replaced, Scan!FlightInv, Scan!Flying
  <2> QED  BY <2>1, <2>2, <2>3
<1>13. ASSUME NEW s \in Recent \cup Older, Scan!Got(s) PROVE Scan!IInv'
  <2>1. Scan!TypeOK'
    BY <1>13 DEF Scan!Got, Scan!TypeOK, Scan!Views, Scan!ScanIds
  <2>2. Scan!OwedInv'
    BY <1>13 DEF Scan!Got, Scan!OwedInv
  <2>3. Scan!FlightInv'
    BY <1>13 DEF Scan!Got, Scan!FlightInv, Scan!Flying
  <2> QED  BY <2>1, <2>2, <2>3
<1>14. CASE Scan!Navigate
  <2>1. /\ view' \in Scan!Views \ {"scanning"} /\ current' \in Scan!ScanIds \cup {none}
             /\ configOrg' \in BOOLEAN
        /\ view # "scanning"
        /\ UNCHANGED <<at, Scan!linkVars, pending, autoStart, Scan!cacheVars, chosen, timer, starts, gets, Scan!marks>>
    <3>1. CASE Scan!StartConfig
      BY <1>14, <3>1 DEF Scan!StartConfig, Scan!Navigate, Scan!AtView, Scan!TypeOK, Scan!Views
    <3>2. CASE Scan!CancelConfig \/ Scan!ViewTrends \/ Scan!BackToMain \/ Scan!BackFromTrends
               \/ \E s \in Scan!ScanIds : Scan!ViewResults(s)
      BY <1>14, <3>2 DEF Scan!CancelConfig, Scan!ViewTrends, Scan!BackToMain, Scan!BackFromTrends,
        Scan!ViewResults, Scan!Shown,
                         Scan!Navigate, Scan!AtView, Scan!TypeOK, Scan!Views
    <3> QED  BY <1>14, <3>1, <3>2 DEF Scan!Navigate
  <2>2. Scan!TypeOK'
    BY <2>1 DEF Scan!TypeOK
  <2>3. Scan!OwedInv'
    BY <2>1 DEF Scan!OwedInv
  <2>4. Scan!FlightInv'
    BY <2>1 DEF Scan!FlightInv, Scan!Flying
  <2> QED  BY <2>2, <2>3, <2>4
<1>15. CASE Scan!Configure
  <2>1. Scan!TypeOK'
    BY <1>15 DEF Scan!Configure, Scan!TypeOK
  <2>2. Scan!OwedInv'
    BY <1>15 DEF Scan!Configure, Scan!OwedInv
  <2>3. Scan!FlightInv'
    BY <1>15 DEF Scan!Configure, Scan!FlightInv, Scan!Flying
  <2> QED  BY <2>1, <2>2, <2>3
<1>16. CASE UNCHANGED Scan!vars
  <2>1. Scan!TypeOK'
    BY <1>16 DEF Scan!vars, Scan!TypeOK
  <2>2. Scan!OwedInv'
    BY <1>16 DEF Scan!vars, Scan!OwedInv
  <2>3. Scan!FlightInv'
    BY <1>16 DEF Scan!vars, Scan!FlightInv, Scan!Flying
  <2> QED  BY <2>1, <2>2, <2>3
<1> QED
  BY <1>1, <1>2, <1>3, <1>4, <1>7, <1>8, <1>9, <1>10, <1>11, <1>12, <1>13, <1>14, <1>15, <1>16
    DEF Scan!Next

\* The invariant implies what is promised.
LEMMA ScanFollows == ASSUME Scan!IInv PROVE Scan!ProgressFollowsScan /\ Scan!IntentRunsOnce
<1> DEFINE pending == s5  owed == s18
<1>1. Scan!ProgressFollowsScan
  BY DEF Scan!IInv, Scan!FlightInv, Scan!ProgressFollowsScan
<1>2. Scan!IntentRunsOnce
  <2>1. CASE pending
    BY <2>1 DEF Scan!IInv, Scan!OwedInv, Scan!IntentRunsOnce
  <2>2. CASE ~pending
    <3>1. owed >= 0
      BY DEF Scan!IInv, Scan!TypeOK, Scan!OwedInv
    <3> QED  BY <2>2, <3>1 DEF Scan!IntentRunsOnce
  <2> QED  BY <2>1, <2>2
<1> QED
  BY <1>1, <1>2

-----------------------------------------------------------------------------
(* AppScans: results at the designs they are of.                           *)

\* The invariant holds initially.
LEMMA AppsInitIInv == ASSUME Apps!FramesAssumption, Apps!Init PROVE Apps!IInv
<1> DEFINE frames == s9
<1>1. frames \in Seq(Apps!Frames) /\ Apps!Range(frames) = {}
  BY DEF Apps!Init, Apps!Range
<1> QED
  BY <1>1 DEF Apps!Init, Apps!IInv, Apps!TypeOK, Apps!PanelInv, Apps!Apps

\* Every step keeps the invariant.
LEMMA AppsNextIInv ==
    ASSUME Apps!FramesAssumption, Apps!IInv, [Apps!Next]_(Apps!vars)
    PROVE  Apps!IInv'
<1> DEFINE frames == s9  selected == s10  result == s11  fetching == s13  scanning == s14
           raced == s15
<1> USE DEF Apps!IInv, Apps!awsVars, Apps!figmaVars
<1>1. CASE Apps!BackToHub
  <2>1. raced' = FALSE /\ frames' = <<>>
    BY <1>1 DEF Apps!BackToHub
  <2>2. frames' \in Seq(Apps!Frames) /\ Apps!Range(frames') = {}
    BY <2>1 DEF Apps!Range
  <2>3. raced' \in BOOLEAN
    BY <2>1
  <2> QED
    BY <1>1, <2>1, <2>2, <2>3 DEF Apps!BackToHub, Apps!TypeOK, Apps!PanelInv
<1>2. ASSUME NEW a \in Apps!Apps, Apps!Toggle(a) PROVE Apps!IInv'
  BY <1>2 DEF Apps!Toggle, Apps!TypeOK, Apps!PanelInv
<1>3. ASSUME NEW a \in Apps!Apps, Apps!OpenApp(a) PROVE Apps!IInv'
  BY <1>3 DEF Apps!OpenApp, Apps!TypeOK, Apps!PanelInv
<1>4. CASE Apps!RunAws
  BY <1>4 DEF Apps!RunAws, Apps!TypeOK, Apps!PanelInv
<1>5. CASE Apps!AwsEnds
  <2>1. /\ s4' = FALSE /\ s5' \in BOOLEAN /\ s6' \in BOOLEAN
        /\ UNCHANGED <<s1, s2, s3, s7, s8, s9, s10, s11, s12, s13, s14, s15>>
    BY <1>5 DEF Apps!AwsEnds, Apps!TypeOK
  <2>2. Apps!TypeOK'
    BY <2>1 DEF Apps!TypeOK
  <2>3. Apps!PanelInv'
    BY <2>1 DEF Apps!PanelInv
  <2> QED
    BY <2>2, <2>3
<1>6. CASE Apps!OpenAws
  BY <1>6 DEF Apps!OpenAws, Apps!TypeOK, Apps!PanelInv
<1>7. CASE Apps!StepPanel
  BY <1>7 DEF Apps!StepPanel, Apps!RunPanel, Apps!PanelDone, Apps!TypeOK, Apps!PanelInv
<1>8. ASSUME NEW t \in Targets, Apps!PasteUrl(t) PROVE Apps!IInv'
  BY <1>8 DEF Apps!PasteUrl, Apps!TypeOK, Apps!PanelInv
<1>9. ASSUME NEW t \in Targets, Apps!FramesFetched(t) PROVE Apps!IInv'
  <2>1. FramesOf[t] \in Seq(Apps!Frames)
        /\ Apps!Range(FramesOf[t]) \subseteq Apps!Range(FramesOf[t])
    BY DEF Apps!FramesAssumption
  <2>2. Apps!TypeOK'
    BY <1>9, <2>1 DEF Apps!FramesFetched, Apps!TypeOK
  <2>3. ASSUME ~raced PROVE result = {} /\ scanning = {} /\ fetching' = {}
    BY <1>9, <2>3 DEF Apps!FramesFetched, Apps!PanelInv, Apps!Range
  <2>4. Apps!PanelInv'
    BY <1>9, <2>3 DEF Apps!FramesFetched, Apps!PanelInv
  <2> QED
    BY <2>2, <2>4
<1>10. CASE Apps!FetchFrames
  <2>1. raced' \in BOOLEAN
    BY <1>10 DEF Apps!FetchFrames
  <2>2. ~raced' => ~raced /\ fetching = {} /\ scanning = {}
    BY <1>10 DEF Apps!FetchFrames
  <2>3. Apps!TypeOK'
    BY <1>10, <2>1 DEF Apps!FetchFrames, Apps!TypeOK
  <2>4. Apps!PanelInv'
    BY <1>10, <2>2 DEF Apps!FetchFrames, Apps!EmptyPanel, Apps!PanelInv
  <2> QED
    BY <2>3, <2>4
<1>11. CASE Apps!Select
  <2>1. selected' \subseteq Apps!Range(frames)
    BY <1>11 DEF Apps!Select, Apps!TypeOK
  <2> QED
    BY <1>11, <2>1 DEF Apps!Select, Apps!TypeOK, Apps!PanelInv
<1>12. CASE Apps!ScanFrames
  <2>1. Apps!TypeOK'
    BY <1>12 DEF Apps!ScanFrames, Apps!TypeOK, Apps!Range
  <2>2. Apps!PanelInv'
    BY <1>12 DEF Apps!ScanFrames, Apps!PanelInv
  <2> QED
    BY <2>1, <2>2
<1>13. CASE Apps!Restart
  <2>1. frames' \in Seq(Apps!Frames) /\ Apps!Range(frames') = {} /\ raced' \in BOOLEAN
    BY <1>13 DEF Apps!Restart, Apps!Range
  <2>2. ~raced' => ~raced /\ fetching = {} /\ scanning = {}
    BY <1>13 DEF Apps!Restart
  <2>3. Apps!TypeOK'
    BY <1>13, <2>1 DEF Apps!Restart, Apps!TypeOK
  <2>4. Apps!PanelInv'
    BY <1>13, <2>2 DEF Apps!Restart, Apps!PanelInv
  <2> QED
    BY <2>3, <2>4
<1>14. ASSUME NEW s \in scanning, Apps!FramesScanned(s) PROVE Apps!IInv'
  <2>1. Apps!TypeOK'
    BY <1>14 DEF Apps!FramesScanned, Apps!TypeOK
  <2>2. Apps!PanelInv'
    BY <1>14 DEF Apps!FramesScanned, Apps!PanelInv
  <2> QED
    BY <2>1, <2>2
<1>15. CASE UNCHANGED Apps!vars
  BY <1>15 DEF Apps!vars, Apps!TypeOK, Apps!PanelInv
<1> QED
  BY <1>1, <1>2, <1>3, <1>4, <1>5, <1>6, <1>7, <1>8, <1>9, <1>10, <1>11, <1>12, <1>13, <1>14, <1>15
  DEF Apps!Next

\* What selects the first index of a kind returns one of them.
LEMMA AppsMinIsMember == ASSUME NEW I \in SUBSET Nat, I # {} PROVE Apps!Min(I) \in I
<1>1. PICK m \in I : \A n \in I : ~(n < m)
  <2>1. PICK m \in I : \A n \in I : <<n, m>> \notin OpToRel(<, Nat)
    BY WFMin, NatLessThanWellFounded, Zenon
  <2>2. \A n \in I : ~(n < m)
    BY <2>1, Zenon DEF OpToRel
  <2> QED
    BY <2>2
<1>2. \A n \in I : m <= n
  BY <1>1
<1> QED
  BY <1>2 DEF Apps!Min

\* The score of a frame that alone has its node id is its own.
LEMMA AppsFits == ASSUME Apps!FramesAssumption, Apps!IInv PROVE Apps!ScoresFitFrames
<1> DEFINE frames == s9  result == s11  raced == s15
<1> SUFFICES ASSUME ~raced PROVE
       /\ result \subseteq Apps!Range(frames)
       /\ frames = <<>> => Apps!EmptyPanel
       /\ \A f \in Apps!Range(frames) :
             (\A g \in Apps!Range(frames) : g.node = f.node => g = f)
             => (Apps!Badged(f) <=> f \in result)
  BY DEF Apps!ScoresFitFrames
<1>1. result \subseteq Apps!Range(frames)
  BY DEF Apps!IInv, Apps!PanelInv
<1>2. frames = <<>> => Apps!EmptyPanel
  BY <1>1 DEF Apps!IInv, Apps!PanelInv, Apps!EmptyPanel, Apps!Range
<1>3. ASSUME NEW f \in Apps!Range(frames), \A g \in Apps!Range(frames) : g.node = f.node => g = f
      PROVE  Apps!Badged(f) <=> f \in result
  <2> DEFINE Same == {i \in 1..Len(frames) : frames[i].node = f.node}
             first == Apps!SelectInSeq(frames, LAMBDA g : g.node = f.node)
  <2>1. Apps!Range(frames) = {frames[i] : i \in 1..Len(frames)}
    BY DEF Apps!IInv, Apps!TypeOK, Apps!Range
  <2>2. Same # {} /\ Same \in SUBSET Nat
    BY <2>1
  <2>3. first \in Same
    BY <2>2, AppsMinIsMember DEF Apps!SelectInSeq
  <2>4. frames[first] = f
    BY <1>3, <2>1, <2>3
  <2>5. f.node \in Apps!NodesScanned <=> f \in result
    BY <1>1, <1>3 DEF Apps!NodesScanned
  <2> QED
    BY <2>4, <2>5 DEF Apps!Badged
<1> QED
  BY <1>1, <1>2, <1>3

-----------------------------------------------------------------------------
(* Systems: the list of systems and the recommendations.                   *)

\* A list is a function, and the empty one is.
LEMMA SysLists ==
    ASSUME Sys!TypeOK
    PROVE  /\ s1 \in [DOMAIN s1 -> Sys!Scans] /\ DOMAIN s1 \subseteq Systems
           /\ s2 \in [DOMAIN s2 -> Sys!Scans] /\ DOMAIN s2 \subseteq Systems
           /\ s4 \in [DOMAIN s4 -> Sys!Scans] /\ DOMAIN s4 \subseteq Systems
           /\ Sys!Nothing \in [DOMAIN Sys!Nothing -> Sys!Scans]
                /\ DOMAIN Sys!Nothing \subseteq Systems
BY DEF Sys!TypeOK, Sys!Nothing

\* The result of a scan.
LEMMA SysScanned ==
    ASSUME NEW item \in Sys!Items
    PROVE  Sys!ScanOf(item) \in Sys!Scans /\ item.id \in Systems
<1>1. item.id \in Systems /\ item.connected \in BOOLEAN
  BY DEF Sys!Items
<1>2. Sys!ScanOf(item) = Sys!ScanOf([id |-> item.id, connected |-> item.connected])
  BY DEF Sys!ScanOf
<1> QED
  BY <1>1, <1>2 DEF Sys!Scans

\* What asking for the list comes to.
LEMMA SysInvalidates ==
    ASSUME Sys!TypeOK, Sys!Invalidated
    PROVE  /\ s3' \in {"idle", "sent", "read"} /\ s17' \in BOOLEAN
           /\ s17' \/ s3' = "sent"
<1> DEFINE fetch == s3  loaded == s5  stale == s17
<1>1. fetch' = IF loaded \/ fetch = "idle" THEN "sent" ELSE fetch
  BY DEF Sys!Invalidated
<1>2. stale' = (stale \/ (~loaded /\ fetch = "read"))
  BY DEF Sys!Invalidated
<1>3. fetch \in {"idle", "sent", "read"}
  BY DEF Sys!TypeOK
<1>4. stale' \in BOOLEAN
  BY <1>2
<1>5. fetch' \in {"idle", "sent", "read"}
  BY <1>1, <1>3
<1>6. stale' \/ fetch' = "sent"
  BY <1>1, <1>2, <1>3
<1> QED
  BY <1>4, <1>5, <1>6

\* A system that has not been scanned has no scan.
LEMMA SysNoScan == none \in Sys!Scans
<1> DEFINE R == {Sys!ScanOf([id |-> s, connected |-> c]) : s \in Systems, c \in BOOLEAN}
<1>1. Sys!Scans = {none} \cup R
  BY DEF Sys!Scans
<1> HIDE DEF R
<1> QED
  BY <1>1

\* The invariant holds initially.
LEMMA SysInitIInv == ASSUME Sys!SystemsAssumption, Sys!Init PROVE Sys!IInv
<1> DEFINE stored == s1  listed == s2  fetched == s4  loaded == s5  linked == s6
           creates == s14  starts == s16  stale == s17  crossed == s18
<1>1. Sys!TypeOK
  <2>1. \A i \in {stored, listed, fetched} : DOMAIN i \subseteq Systems
        /\ i \in [DOMAIN i -> Sys!Scans]
    <3>1. none \in Sys!Scans
      BY SysNoScan
    <3>2. DOMAIN stored = Registered /\ stored \in [Registered -> Sys!Scans]
          /\ Registered \subseteq Systems
      BY <3>1 DEF Sys!Init, Sys!SystemsAssumption
    <3>3. DOMAIN Sys!Nothing = {} /\ Sys!Nothing \in [{} -> Sys!Scans]
      BY DEF Sys!Nothing
    <3>4. listed = Sys!Nothing /\ fetched = Sys!Nothing
      BY DEF Sys!Init
    <3> QED
      BY <3>2, <3>3, <3>4
  <2>2. loaded \in BOOLEAN /\ linked \in BOOLEAN /\ stale \in BOOLEAN /\ crossed \in BOOLEAN
    BY DEF Sys!Init
  <2>3. creates \in [{"form", "presets", "csv"} -> 0..SystemStarts] /\ starts \in 0..SystemStarts
    BY DEF Sys!Init, Sys!SystemsAssumption
  <2> QED
    BY <2>1, <2>2, <2>3 DEF Sys!Init, Sys!TypeOK
<1>2. Sys!ListInv /\ Sys!AdviceInv /\ Sys!CountsInv
  BY DEF Sys!Init, Sys!ListInv, Sys!AdviceInv, Sys!CountsInv
<1> QED
  BY <1>1, <1>2 DEF Sys!IInv

\* Every step keeps the invariant.
LEMMA SysNextIInv == ASSUME Sys!SystemsAssumption, Sys!IInv, [Sys!Next]_(Sys!vars) PROVE Sys!IInv'
<1> DEFINE stored == s1  listed == s2  fetch == s3  fetched == s4  loaded == s5  linked == s6
           view == s7  details == s8  modal == s9  scanItem == s10  recommends == s13
           creates == s14  patches == s15  starts == s16  stale == s17  crossed == s18
<1> DEFINE Patches == [id : Systems, scan : Sys!Scans, applied : BOOLEAN]
           Updates == \A p \in patches : ~p.applied
<1> USE DEF Sys!IInv, Sys!server, Sys!advice
<1>a. /\ \A i \in {stored, listed, fetched} : DOMAIN i \subseteq Systems
           /\ i \in [DOMAIN i -> Sys!Scans]
      /\ patches \subseteq Patches
      /\ SystemStarts \in Nat
  BY DEF Sys!TypeOK, Sys!SystemsAssumption
<1>b. ASSUME starts < SystemStarts, starts' = starts + 1
      PROVE  /\ starts' \in 0..SystemStarts
             /\ \A k \in DOMAIN creates : creates[k] <= starts'
  BY <1>a, <1>b DEF Sys!TypeOK, Sys!CountsInv
<1>c. ASSUME UNCHANGED <<Sys!server, patches>> PROVE Sys!ListInv'
  BY <1>c DEF Sys!ListInv
<1>d. ASSUME UNCHANGED <<Sys!advice, modal>> PROVE Sys!AdviceInv'
  BY <1>d DEF Sys!AdviceInv
<1>e. ASSUME UNCHANGED <<modal, scanItem, creates, starts>> PROVE Sys!CountsInv'
  BY <1>e DEF Sys!CountsInv
<1>1. CASE Sys!Read
  <2>1. Sys!TypeOK'
    <3>1. stale' \in BOOLEAN
      BY <1>1 DEF Sys!Read
    <3>2. \A i \in {stored', listed', fetched'} : DOMAIN i \subseteq Systems
          /\ i \in [DOMAIN i -> Sys!Scans]
      BY <1>1, <1>a DEF Sys!Read
    <3> QED
      BY <1>1, <3>1, <3>2 DEF Sys!Read, Sys!TypeOK
  <2>2. Sys!ListInv'
    BY <1>1 DEF Sys!Read, Sys!ListInv
  <2> QED
    BY <1>1, <1>d, <1>e, <2>1, <2>2 DEF Sys!Read
<1>2. CASE Sys!Fetched
  <2>1. Sys!TypeOK'
    <3>1. stale' \in BOOLEAN /\ loaded' \in BOOLEAN
      BY <1>2 DEF Sys!Fetched, Sys!TypeOK
    <3>2. \A i \in {stored', listed', fetched'} : DOMAIN i \subseteq Systems
          /\ i \in [DOMAIN i -> Sys!Scans]
      BY <1>2, <1>a, SysLists DEF Sys!Fetched
    <3> QED
      BY <1>2, <3>1, <3>2 DEF Sys!Fetched, Sys!TypeOK
  <2>2. Sys!ListInv'
    BY <1>2 DEF Sys!Fetched, Sys!ListInv
  <2> QED
    BY <1>2, <1>d, <1>e, <2>1, <2>2 DEF Sys!Fetched
<1>3. CASE Sys!ProvidersKnown
  <2>1. Sys!TypeOK'
    BY <1>3 DEF Sys!ProvidersKnown, Sys!TypeOK
  <2> QED
    BY <1>3, <1>c, <1>d, <1>e, <2>1 DEF Sys!ProvidersKnown
<1>4. CASE Sys!Register
  <2>1. Sys!TypeOK'
    BY <1>4 DEF Sys!Register, Sys!TypeOK
  <2> QED
    BY <1>4, <1>c, <1>d, <1>e, <2>1 DEF Sys!Register
<1>5. CASE Sys!Back
  <2>1. Sys!TypeOK'
    BY <1>5 DEF Sys!Back, Sys!TypeOK
  <2> QED
    BY <1>5, <1>c, <1>d, <1>e, <2>1 DEF Sys!Back
<1>6. ASSUME NEW s \in Systems, Sys!ViewDetails(s) PROVE Sys!IInv'
  <2>1. (Facts[s].covered /\ linked) \in BOOLEAN
    OBVIOUS
  <2>2. listed[s] \in Sys!Scans
    BY <1>6, SysLists DEF Sys!ViewDetails
  <2>3. Sys!Item(s) \in Sys!Items
    BY <2>1, <2>2 DEF Sys!Item, Sys!Items
  <2>4. Sys!TypeOK'
    BY <1>6, <2>3 DEF Sys!ViewDetails, Sys!TypeOK
  <2> QED
    BY <1>6, <1>c, <1>d, <1>e, <2>4 DEF Sys!ViewDetails
<1>7. ASSUME NEW open \in BOOLEAN, Sys!Presets(open) PROVE Sys!IInv'
  <2>1. Sys!TypeOK' /\ modal' # "recommendation" /\ modal' # "scanning"
    BY <1>7 DEF Sys!Presets, Sys!TypeOK
  <2> QED
    BY <1>7, <1>c, <2>1 DEF Sys!Presets, Sys!AdviceInv, Sys!CountsInv
<1>8. ASSUME NEW k \in DOMAIN creates, Sys!Create(k) PROVE Sys!IInv'
  <2>1. creates' = [creates EXCEPT ![k] = @ + 1] /\ creates[k] \in Nat /\ creates[k] <= starts
        /\ starts \in Nat
    BY <1>8 DEF Sys!Create, Sys!TypeOK, Sys!CountsInv
  <2>2. /\ \A j \in DOMAIN creates' : creates'[j] <= starts'
        /\ creates' \in [{"form", "presets", "csv"} -> 0..SystemStarts]
             /\ starts' \in 0..SystemStarts
    BY <1>8, <1>a, <1>b, <2>1 DEF Sys!Create, Sys!TypeOK
  <2>3. Sys!TypeOK'
    BY <1>8, <2>2 DEF Sys!Create, Sys!TypeOK
  <2> QED
    BY <1>8, <1>c, <1>d, <2>2, <2>3 DEF Sys!Create, Sys!CountsInv
<1>9. ASSUME NEW k \in DOMAIN creates, Sys!Created(k) PROVE Sys!IInv'
  <2>1. creates' = [creates EXCEPT ![k] = @ - 1] /\ creates[k] > 0
    BY <1>9 DEF Sys!Created
  <2>2. creates' \in [{"form", "presets", "csv"} -> 0..SystemStarts]
        /\ \A j \in DOMAIN creates' : creates'[j] <= starts
    BY <2>1, <1>a DEF Sys!TypeOK, Sys!CountsInv
  <2>3. PICK new \in SUBSET (Systems \ DOMAIN stored) :
          /\ stored' = [s \in DOMAIN stored \cup new |-> IF s \in new THEN none ELSE stored[s]]
          /\ \/ Sys!Invalidated /\ view' = (IF k = "form" THEN "list" ELSE view)
             \/ stale' = (stale \/ new # {}) /\ UNCHANGED <<fetch, view>>
    BY <1>9 DEF Sys!Created
  <2>4. stored' \in [DOMAIN stored \cup new -> Sys!Scans]
        /\ DOMAIN stored \cup new \subseteq Systems
    <3>1. none \in Sys!Scans
      BY SysNoScan
    <3> QED
      BY <2>3, <3>1, SysLists
  <2>5. \A i \in {stored', listed', fetched'} : DOMAIN i \subseteq Systems
        /\ i \in [DOMAIN i -> Sys!Scans]
    BY <1>9, <1>a, <2>4 DEF Sys!Created
  <2>6. /\ fetch' \in {"idle", "sent", "read"} /\ view' \in {"list", "register", "details"}
        /\ view' = "details" => view = "details"
    BY <2>3, SysInvalidates DEF Sys!TypeOK
  <2>7. stale' \in BOOLEAN
    <3>1. CASE Sys!Invalidated
      BY <3>1, SysInvalidates
    <3>2. CASE stale' = (stale \/ new # {})
      BY <3>2
    <3> QED
      BY <2>3, <3>1, <3>2
  <2>8. Sys!TypeOK'
    BY <1>9, <2>2, <2>5, <2>6, <2>7 DEF Sys!Created, Sys!TypeOK
  <2>9. Sys!ListInv'
    <3>1. CASE Sys!Invalidated
      BY <3>1, SysInvalidates DEF Sys!ListInv
    <3>2. CASE stale' = (stale \/ new # {}) /\ fetch' = fetch
      <4>1. new = {} => stored' = stored
        BY <2>3, SysLists
      <4>2. ~stale' => ~stale /\ new = {}
        BY <3>2
      <4> QED
        BY <1>9, <3>2, <4>1, <4>2 DEF Sys!Created, Sys!ListInv
    <3> QED
      BY <2>3, <3>1, <3>2
  <2> QED
    BY <1>9, <1>d, <2>2, <2>8, <2>9 DEF Sys!Created, Sys!CountsInv
<1>10. CASE Sys!RunScan
  <2>1. details \in Sys!Items /\ starts' \in 0..SystemStarts
        /\ \A k \in DOMAIN creates : creates[k] <= starts'
    BY <1>10, <1>b DEF Sys!RunScan, Sys!TypeOK
  <2>2. Sys!TypeOK'
    BY <1>10, <2>1 DEF Sys!RunScan, Sys!TypeOK
  <2>3. Sys!CountsInv' /\ Sys!AdviceInv'
    BY <1>10, <2>1 DEF Sys!RunScan, Sys!CountsInv, Sys!AdviceInv
  <2> QED
    BY <1>10, <1>c, <2>2, <2>3 DEF Sys!RunScan
<1>11. CASE Sys!ScanDone
  <2> DEFINE p == [id |-> scanItem.id, scan |-> Sys!ScanOf(scanItem), applied |-> FALSE]
  <2>1. scanItem \in Sys!Items
    BY <1>11 DEF Sys!ScanDone, Sys!CountsInv
  <2>2. p \in Patches /\ p.applied = FALSE
    BY <2>1, SysScanned
  <2> HIDE DEF p
  <2>3. patches' = patches \cup {p}
    BY <1>11 DEF Sys!ScanDone, p
  <2>4. Sys!TypeOK'
    BY <1>11, <2>2, <2>3 DEF Sys!ScanDone, Sys!TypeOK
  <2>5. Sys!ListInv'
    BY <1>11, <2>3 DEF Sys!ScanDone, Sys!ListInv
  <2>6. Sys!CountsInv' /\ Sys!AdviceInv'
    BY <1>11 DEF Sys!ScanDone, Sys!CountsInv, Sys!AdviceInv
  <2> QED
    BY <2>4, <2>5, <2>6
<1>12. CASE Sys!CloseScan
  <2>1. Sys!TypeOK' /\ Sys!CountsInv' /\ Sys!AdviceInv'
    BY <1>12 DEF Sys!CloseScan, Sys!TypeOK, Sys!CountsInv, Sys!AdviceInv
  <2> QED
    BY <1>12, <1>c, <2>1 DEF Sys!CloseScan
<1>13. ASSUME NEW p \in patches, Sys!PatchApplied(p) PROVE Sys!IInv'
  <2> DEFINE q == [p EXCEPT !.applied = TRUE]
  <2>1. q \in Patches /\ q.applied = TRUE /\ p.id \in Systems /\ p.scan \in Sys!Scans
    BY <1>a
  <2> HIDE DEF q
  <2>2. patches' = (patches \ {p}) \cup {q} /\ stored' = [stored EXCEPT ![p.id] = p.scan]
    BY <1>13 DEF Sys!PatchApplied, q
  <2>3. \A i \in {stored', listed', fetched'} : DOMAIN i \subseteq Systems
        /\ i \in [DOMAIN i -> Sys!Scans]
    BY <1>13, <1>a, <2>1, <2>2 DEF Sys!PatchApplied
  <2>4. Sys!TypeOK'
    BY <1>13, <1>a, <2>1, <2>2, <2>3 DEF Sys!PatchApplied, Sys!TypeOK
  <2>5. Sys!ListInv'
    BY <2>1, <2>2 DEF Sys!ListInv
  <2> QED
    BY <1>13, <1>d, <1>e, <2>4, <2>5 DEF Sys!PatchApplied
<1>14. ASSUME NEW p \in patches, Sys!PatchEnds(p) PROVE Sys!IInv'
  <2>1. /\ patches' = patches \ {p} /\ UNCHANGED <<stored, listed, fetched, loaded>>
        /\ details' = IF details # none /\ details.id = p.id THEN [details EXCEPT !.scan = p.scan] ELSE details
        /\ UNCHANGED <<Sys!advice, linked, view, modal, scanItem, creates, starts>>
        /\ \/ p.applied /\ Sys!Invalidated
           \/ stale' = (stale \/ p.applied) /\ UNCHANGED fetch
    BY <1>14 DEF Sys!PatchEnds
  <2>2. details \in Sys!Items => [details EXCEPT !.scan = p.scan] \in Sys!Items
    BY <1>a DEF Sys!Items
  <2>3. /\ details' \in Sys!Items \cup {none}
        /\ view' = "details" => details' \in Sys!Items
    BY <2>1, <2>2 DEF Sys!TypeOK
  <2>4. fetch' \in {"idle", "sent", "read"}
    BY <2>1, SysInvalidates DEF Sys!TypeOK
  <2>5. stale' \in BOOLEAN
    <3>1. CASE Sys!Invalidated
      BY <3>1, SysInvalidates
    <3>2. CASE stale' = (stale \/ p.applied)
      BY <3>2
    <3> QED
      BY <2>1, <3>1, <3>2
  <2>6. Sys!TypeOK'
    BY <2>1, <2>3, <2>4, <2>5 DEF Sys!TypeOK
  <2>7. Sys!ListInv'
    <3>1. CASE Sys!Invalidated
      BY <3>1, SysInvalidates DEF Sys!ListInv
    <3>2. CASE stale' = (stale \/ p.applied) /\ UNCHANGED fetch
      <4>1. ~stale' => ~stale /\ ~p.applied
        BY <3>2
      <4>2. ~stale' /\ (\A q \in patches' : ~q.applied) => ~stale /\ \A q \in patches : ~q.applied
        BY <2>1, <4>1
      <4> QED
        BY <2>1, <3>2, <4>2 DEF Sys!ListInv
    <3> QED
      BY <2>1, <3>1, <3>2
  <2> QED
    BY <1>d, <1>e, <2>1, <2>6, <2>7
<1>15. ASSUME NEW s \in Systems, Sys!Recommend(s) PROVE Sys!IInv'
  <2>1. starts' \in 0..SystemStarts /\ \A k \in DOMAIN creates : creates[k] <= starts'
    BY <1>15, <1>b DEF Sys!Recommend
  <2>2. crossed' \in BOOLEAN
    BY <1>15 DEF Sys!Recommend
  <2>3. ~crossed' => recommends' = {s}
    BY <1>15 DEF Sys!Recommend
  <2>4. Sys!TypeOK'
    BY <1>15, <2>1, <2>2 DEF Sys!Recommend, Sys!TypeOK
  <2>5. Sys!AdviceInv' /\ Sys!CountsInv'
    BY <1>15, <2>1, <2>3 DEF Sys!Recommend, Sys!AdviceInv, Sys!CountsInv
  <2> QED
    BY <1>15, <1>c, <2>4, <2>5 DEF Sys!Recommend
<1>16. ASSUME NEW s \in Systems, Sys!Recommended(s) PROVE Sys!IInv'
  <2>1. Sys!TypeOK'
    BY <1>16 DEF Sys!Recommended, Sys!TypeOK
  <2>2. Sys!AdviceInv'
    BY <1>16 DEF Sys!Recommended, Sys!AdviceInv
  <2> QED
    BY <1>16, <1>c, <1>e, <2>1, <2>2 DEF Sys!Recommended
<1>17. CASE Sys!CloseRecommendation
  <2>1. Sys!TypeOK' /\ Sys!AdviceInv' /\ Sys!CountsInv'
    BY <1>17 DEF Sys!CloseRecommendation, Sys!TypeOK, Sys!AdviceInv, Sys!CountsInv
  <2> QED
    BY <1>17, <1>c, <2>1 DEF Sys!CloseRecommendation
<1>18. CASE UNCHANGED Sys!vars
  <2>1. Sys!TypeOK'
    BY <1>18 DEF Sys!vars, Sys!TypeOK
  <2> QED
    BY <1>18, <1>c, <1>d, <1>e, <2>1 DEF Sys!vars
<1> QED
  BY <1>1, <1>2, <1>3, <1>4, <1>5, <1>6, <1>7, <1>8, <1>9, <1>10, <1>11, <1>12, <1>13, <1>14,
  <1>15,
     <1>16, <1>17, <1>18 DEF Sys!Next

\* The invariant implies what is promised.
LEMMA SysFollows == ASSUME Sys!IInv PROVE Sys!ListFollowsServer /\ Sys!RecommendationFits
BY DEF Sys!IInv, Sys!ListInv, Sys!AdviceInv, Sys!ListFollowsServer, Sys!RecommendationFits

-----------------------------------------------------------------------------
(* Policies: the library, its checks and what the page lists.              *)

\* Inventories.
LEMMA PolStock ==
    /\ Pol!Nothing \in Pol!Inventories /\ DOMAIN Pol!Nothing = {}
    /\ \A P \in SUBSET Library : [P -> Pol!Statuses] \subseteq Pol!Inventories
    /\ \A x \in Pol!Inventories : DOMAIN x \subseteq Library /\ x \in [DOMAIN x -> Pol!Statuses]
BY DEF Pol!Inventories, Pol!Nothing, Pol!Statuses

\* The invariant holds initially.
LEMMA PolInitIInv == ASSUME Pol!LibraryAssumption, Pol!Init PROVE Pol!IInv
<1> DEFINE stored == s1  todo == s3  got == s4  fetching == s5  loaded == s6
           checksLoaded == s13  count == s16  stale == s17  staleChecks == s18
<1>1. Pol!TypeOK
  <2>1. /\ fetching \in BOOLEAN /\ loaded \in BOOLEAN /\ checksLoaded \in BOOLEAN
        /\ stale \in BOOLEAN /\ staleChecks \in BOOLEAN
    BY DEF Pol!Init
  <2>2. stored \in Pol!Inventories
    BY PolStock DEF Pol!Init, Pol!Statuses
  <2>3. count \in 0..MaxWrites
    BY DEF Pol!Init, Pol!LibraryAssumption
  <2> QED
    BY <2>1, <2>2, <2>3, PolStock DEF Pol!Init, Pol!TypeOK
<1>2. Pol!ReadInv
  <2>1. DOMAIN got = {} /\ todo = Systems /\ fetching
    BY PolStock DEF Pol!Init
  <2>2. \A p \in DOMAIN stored : SystemOf[p] \in Systems
    BY <1>1, PolStock DEF Pol!TypeOK, Pol!LibraryAssumption
  <2> QED
    BY <2>1, <2>2 DEF Pol!ReadInv
<1>3. Pol!ChecksInv
  BY DEF Pol!Init, Pol!ChecksInv
<1> QED
  BY <1>1, <1>2, <1>3 DEF Pol!IInv

\* The steps of the checks' tab that a change of tab takes.
LEMMA PolUnmounts ==
    ASSUME Pol!TypeOK, Pol!Unmounted
    PROVE  /\ s15' = none
           /\ s14' \subseteq [check : Checks, on : BOOLEAN, confirmed : BOOLEAN, mine : BOOLEAN]
<1> DEFINE flips == s14  toggling == s15
<1> DEFINE Flips == [check : Checks, on : BOOLEAN, confirmed : BOOLEAN, mine : BOOLEAN]
<1>1. \A f \in flips : [f EXCEPT !.mine = FALSE] \in Flips
  BY DEF Pol!TypeOK
<1> HIDE DEF Flips
<1>2. flips' \subseteq Flips /\ toggling' = none
  BY <1>1 DEF Pol!Unmounted
<1> QED
  BY <1>2 DEF Flips

\* What an invalidated query leaves as it was.
LEMMA PolInvalidates ==
    ASSUME Pol!TypeOK, Pol!Invalidated
    PROVE  /\ s5' \in BOOLEAN /\ s17' \in BOOLEAN /\ s3' \subseteq Systems
                /\ s4' \in Pol!Inventories
           /\ \/ s5' /\ s3' = Systems /\ s4' = Pol!Nothing
              \/ s5' = s5 /\ s5 /\ s3' = s3 /\ s4' = s4
                 /\ (~s17' => ~s17 /\ s3 = Systems)
<1> DEFINE todo == s3  got == s4  fetching == s5  loaded == s6  stale == s17
<1>1. CASE loaded \/ ~fetching
  BY <1>1, PolStock DEF Pol!Invalidated, Pol!TypeOK
<1>2. CASE ~(loaded \/ ~fetching)
  <2>1. stale' = (stale \/ todo # Systems) /\ UNCHANGED <<fetching, todo, got>> /\ fetching
    BY <1>2 DEF Pol!Invalidated
  <2>2. stale' \in BOOLEAN
    BY <2>1
  <2>3. ~stale' => ~stale /\ todo = Systems
    BY <2>1
  <2> QED
    BY <2>1, <2>2, <2>3 DEF Pol!TypeOK
<1> QED
  BY <1>1, <1>2

\* What storing a policy keeps.
LEMMA PolStores ==
    ASSUME Pol!TypeOK, NEW w \in s7
    PROVE  Pol!Store(w) \in Pol!Inventories
<1> DEFINE stored == s1
<1>1. stored \in [DOMAIN stored -> Pol!Statuses] /\ DOMAIN stored \subseteq Library
      /\ w.policy \in Library
      /\ w.status \in Pol!Statuses
  BY PolStock DEF Pol!TypeOK
<1>2. Pol!Store(w) \in [DOMAIN stored \cup {w.policy} -> Pol!Statuses]
  BY <1>1 DEF Pol!Store
<1>3. DOMAIN stored \cup {w.policy} \in SUBSET Library
  BY <1>1
<1> QED
  BY <1>2, <1>3, PolStock

\* Every step keeps the types.
LEMMA PolNextTypeOK ==
    ASSUME Pol!LibraryAssumption, Pol!TypeOK, [Pol!Next]_(Pol!vars)
    PROVE  Pol!TypeOK'
<1> DEFINE stored == s1  listed == s2  todo == s3  got == s4  fetching == s5  writes == s7
           enabled == s9  shown == s10  checkFetch == s11  checkGot == s12  flips == s14
           toggling == s15  count == s16  stale == s17  staleChecks == s18
<1> DEFINE Writes == [new : BOOLEAN, policy : Library, status : Pol!Statuses, stored : BOOLEAN]
           Flips == [check : Checks, on : BOOLEAN, confirmed : BOOLEAN, mine : BOOLEAN]
<1> USE DEF Pol!library, Pol!checks
<1>a. ASSUME NEW w \in Writes, Pol!Write(w)
      PROVE  writes' \subseteq Writes /\ count' \in 0..MaxWrites
  BY <1>a DEF Pol!Write, Pol!TypeOK, Pol!LibraryAssumption
<1>1. ASSUME NEW t \in {"view_all", "form", "github_checks"}, Pol!Tab(t) PROVE Pol!TypeOK'
  BY <1>1, PolUnmounts DEF Pol!Tab, Pol!TypeOK
<1>2. ASSUME NEW s \in Systems, Pol!ReadSystem(s) PROVE Pol!TypeOK'
  <2> DEFINE here == {p \in DOMAIN stored : SystemOf[p] = s}
  <2>1. got' = [p \in DOMAIN got \cup here |-> IF p \in here THEN stored[p] ELSE got[p]]
    BY <1>2 DEF Pol!ReadSystem
  <2>2. /\ stored \in [DOMAIN stored -> Pol!Statuses] /\ DOMAIN stored \subseteq Library
        /\ got \in [DOMAIN got -> Pol!Statuses] /\ DOMAIN got \subseteq Library
    BY PolStock DEF Pol!TypeOK
  <2>3. got' \in [DOMAIN got \cup here -> Pol!Statuses] /\ DOMAIN got \cup here \in SUBSET Library
    BY <2>1, <2>2
  <2>4. got' \in Pol!Inventories
    BY <2>3, PolStock
  <2> QED
    BY <1>2, <2>4 DEF Pol!ReadSystem, Pol!TypeOK
<1>3. CASE Pol!FetchEnds
  BY <1>3, PolStock DEF Pol!FetchEnds, Pol!TypeOK
<1>4. ASSUME NEW p \in Library, Pol!Create(p) PROVE Pol!TypeOK'
  <2>1. PICK st \in {"draft", "active"} :
           Pol!Write([new |-> TRUE, policy |-> p, status |-> st, stored |-> FALSE])
    BY <1>4 DEF Pol!Create
  <2>2. [new |-> TRUE, policy |-> p, status |-> st, stored |-> FALSE] \in Writes
    BY DEF Pol!Statuses
  <2>3. writes' \subseteq Writes /\ count' \in 0..MaxWrites
    BY <1>a, <2>1, <2>2
  <2> QED
    BY <2>1, <2>3 DEF Pol!Write, Pol!TypeOK
<1>5. ASSUME NEW p \in Library, Pol!Toggle(p) PROVE Pol!TypeOK'
  <2> DEFINE w == [new |-> FALSE, policy |-> p, stored |-> FALSE,
                   status |-> IF listed[p] = "active" THEN "inactive" ELSE "active"]
  <2>1. w \in Writes /\ Pol!Write(w)
    BY <1>5 DEF Pol!Toggle, Pol!Statuses
  <2> HIDE DEF w
  <2>2. writes' \subseteq Writes /\ count' \in 0..MaxWrites
    BY <1>a, <2>1
  <2> QED
    BY <2>1, <2>2 DEF Pol!Write, Pol!TypeOK
<1>6. ASSUME NEW w \in writes, Pol!Written(w) PROVE Pol!TypeOK'
  <2>1. stored' \in Pol!Inventories
    BY <1>6, PolStores DEF Pol!Written
  <2>2. [w EXCEPT !.stored = TRUE] \in Writes /\ writes \subseteq Writes
    BY DEF Pol!TypeOK
  <2>3. writes' \subseteq Writes
    BY <1>6, <2>2 DEF Pol!Written
  <2>4. /\ fetching' \in BOOLEAN /\ stale' \in BOOLEAN /\ todo' \subseteq Systems
             /\ got' \in Pol!Inventories
    BY <1>6, PolInvalidates DEF Pol!Written
  <2> QED
    BY <1>6, <2>1, <2>3, <2>4 DEF Pol!Written, Pol!TypeOK
<1>7. ASSUME NEW w \in writes, Pol!Landed(w) PROVE Pol!TypeOK'
  BY <1>7, PolUnmounts DEF Pol!Landed, Pol!TypeOK
<1>8. ASSUME NEW w \in writes, Pol!WriteFails(w) PROVE Pol!TypeOK'
  <2>1. stored' \in Pol!Inventories
    BY <1>8, PolStores DEF Pol!WriteFails, Pol!TypeOK
  <2>2. stale' \in BOOLEAN
    BY <1>8 DEF Pol!WriteFails, Pol!TypeOK
  <2> QED
    BY <1>8, <2>1, <2>2 DEF Pol!WriteFails, Pol!TypeOK
<1>9. CASE Pol!ReadChecks
  BY <1>9 DEF Pol!ReadChecks, Pol!TypeOK
<1>10. CASE Pol!ChecksFetched
  BY <1>10 DEF Pol!ChecksFetched, Pol!TypeOK
<1>11. ASSUME NEW c \in Checks, Pol!Flip(c) PROVE Pol!TypeOK'
  <2>1. (c \notin shown) \in BOOLEAN
    OBVIOUS
  <2>2. [check |-> c, on |-> c \notin shown, confirmed |-> FALSE, mine |-> TRUE] \in Flips
    BY <2>1
  <2>3. count' \in 0..MaxWrites
    BY <1>11 DEF Pol!Flip, Pol!TypeOK, Pol!LibraryAssumption
  <2>4. flips' \subseteq Flips /\ toggling' \in Checks
    BY <1>11, <2>2 DEF Pol!Flip, Pol!TypeOK
  <2> QED
    BY <1>11, <2>3, <2>4 DEF Pol!Flip, Pol!TypeOK
<1>12. ASSUME NEW f \in flips, Pol!Flipped(f) PROVE Pol!TypeOK'
  <2>1. [f EXCEPT !.confirmed = TRUE] \in Flips /\ f.check \in Checks
    BY DEF Pol!TypeOK
  <2>2. flips' \subseteq Flips
    BY <1>12, <2>1 DEF Pol!Flipped, Pol!TypeOK
  <2>3. enabled' \subseteq Checks /\ checkFetch' \in {"idle", "sent", "read"}
        /\ checkGot' \subseteq Checks
    BY <1>12, <2>1 DEF Pol!Flipped, Pol!TypeOK
  <2>4. staleChecks' \in BOOLEAN
    BY <1>12 DEF Pol!Flipped, Pol!TypeOK
  <2> QED
    BY <1>12, <2>2, <2>3, <2>4 DEF Pol!Flipped, Pol!TypeOK
<1>13. ASSUME NEW f \in flips, Pol!FlipEnds(f) PROVE Pol!TypeOK'
  BY <1>13 DEF Pol!FlipEnds, Pol!TypeOK
<1>14. CASE UNCHANGED Pol!vars
  BY <1>14 DEF Pol!vars, Pol!TypeOK
<1> QED
  BY <1>1, <1>2, <1>3, <1>4, <1>5, <1>6, <1>7, <1>8, <1>9, <1>10, <1>11, <1>12, <1>13, <1>14
    DEF Pol!Next

\* Every step keeps what was read to what is stored.
LEMMA PolNextReadInv ==
    ASSUME Pol!LibraryAssumption, Pol!TypeOK, Pol!ReadInv, [Pol!Next]_(Pol!vars)
    PROVE  Pol!ReadInv'
<1> DEFINE stored == s1  listed == s2  todo == s3  got == s4  fetching == s5  writes == s7
           flips == s14  stale == s17
<1> USE DEF Pol!library, Pol!checks
<1>0. ASSUME UNCHANGED Pol!library PROVE Pol!ReadInv'
  BY <1>0 DEF Pol!ReadInv
<1>a. \A p \in DOMAIN stored : p \in Library /\ SystemOf[p] \in Systems
  BY PolStock DEF Pol!TypeOK, Pol!LibraryAssumption
<1>1. ASSUME NEW t \in {"view_all", "form", "github_checks"}, Pol!Tab(t) PROVE Pol!ReadInv'
  BY <1>0, <1>1 DEF Pol!Tab
<1>2. ASSUME NEW s \in Systems, Pol!ReadSystem(s) PROVE Pol!ReadInv'
  <2> DEFINE here == {p \in DOMAIN stored : SystemOf[p] = s}
  <2>1. /\ got' = [p \in DOMAIN got \cup here |-> IF p \in here THEN stored[p] ELSE got[p]]
        /\ todo' = todo \ {s} /\ s \in todo /\ UNCHANGED <<stored, listed, fetching, stale>>
    BY <1>2 DEF Pol!ReadSystem
  <2>2. DOMAIN got' = DOMAIN got \cup here
    BY <2>1
  <2>3. ASSUME ~stale, fetching PROVE
           /\ DOMAIN got' = {p \in DOMAIN stored : SystemOf[p] \notin todo'}
           /\ \A p \in DOMAIN got' : got'[p] = stored[p]
    <3>1. DOMAIN got = {p \in DOMAIN stored : SystemOf[p] \notin todo}
          /\ \A p \in DOMAIN got : got[p] = stored[p]
      BY <2>3 DEF Pol!ReadInv
    <3> QED
      BY <2>1, <2>2, <3>1
  <2> QED
    BY <2>1, <2>3 DEF Pol!ReadInv
<1>3. CASE Pol!FetchEnds
  <2>1. ASSUME ~stale, todo = {} PROVE got = stored
    <3>1. DOMAIN got = DOMAIN stored /\ \A p \in DOMAIN got : got[p] = stored[p]
      BY <1>3, <2>1 DEF Pol!FetchEnds, Pol!ReadInv
    <3>2. got \in [DOMAIN got -> Pol!Statuses] /\ stored \in [DOMAIN stored -> Pol!Statuses]
      BY PolStock DEF Pol!TypeOK
    <3> QED
      BY <3>1, <3>2
  <2> QED
    BY <1>3, <2>1 DEF Pol!FetchEnds, Pol!ReadInv
<1>4. ASSUME NEW p \in Library, Pol!Create(p) \/ Pol!Toggle(p) PROVE Pol!ReadInv'
  BY <1>0, <1>4 DEF Pol!Create, Pol!Toggle, Pol!Write
<1>5. ASSUME NEW w \in writes, Pol!Written(w) PROVE Pol!ReadInv'
  <2>1. stored' \in Pol!Inventories
    BY <1>5, PolStores DEF Pol!Written
  <2>2. \A p \in DOMAIN stored' : SystemOf[p] \in Systems
    BY <2>1, PolStock DEF Pol!LibraryAssumption
  <2>3. CASE fetching' /\ todo' = Systems /\ got' = Pol!Nothing
    BY <2>2, <2>3, PolStock DEF Pol!ReadInv
  <2>4. CASE fetching' = fetching /\ fetching /\ todo' = todo /\ got' = got
             /\ (~stale' => ~stale /\ todo = Systems)
    <3>1. ASSUME ~stale' PROVE DOMAIN got = {} /\ todo' = Systems
      BY <1>a, <2>4, <3>1 DEF Pol!ReadInv
    <3> QED
      BY <2>2, <2>4, <3>1 DEF Pol!ReadInv
  <2> QED
    BY <1>5, <2>3, <2>4, PolInvalidates DEF Pol!Written
<1>6. ASSUME NEW w \in writes, Pol!Landed(w) PROVE Pol!ReadInv'
  BY <1>0, <1>6 DEF Pol!Landed
<1>7. ASSUME NEW w \in writes, Pol!WriteFails(w) PROVE Pol!ReadInv'
  BY <1>7 DEF Pol!WriteFails, Pol!ReadInv
<1>8. CASE Pol!ReadChecks \/ Pol!ChecksFetched \/ UNCHANGED Pol!vars
  BY <1>0, <1>8 DEF Pol!ReadChecks, Pol!ChecksFetched, Pol!vars
<1>9. ASSUME NEW c \in Checks, Pol!Flip(c) PROVE Pol!ReadInv'
  BY <1>0, <1>9 DEF Pol!Flip
<1>10. ASSUME NEW f \in flips, Pol!Flipped(f) \/ Pol!FlipEnds(f) PROVE Pol!ReadInv'
  BY <1>0, <1>10 DEF Pol!Flipped, Pol!FlipEnds
<1> QED
  BY <1>1, <1>2, <1>3, <1>4, <1>5, <1>6, <1>7, <1>8, <1>9, <1>10 DEF Pol!Next

\* Every step keeps the checks to those switched on.
LEMMA PolNextChecksInv == ASSUME Pol!ChecksInv, [Pol!Next]_(Pol!vars) PROVE Pol!ChecksInv'
<1> DEFINE writes == s7  flips == s14
<1> USE DEF Pol!checks, Pol!ChecksInv
<1>1. ASSUME NEW t \in {"view_all", "form", "github_checks"}, Pol!Tab(t) PROVE Pol!ChecksInv'
  BY <1>1 DEF Pol!Tab
<1>2. ASSUME NEW s \in Systems, Pol!ReadSystem(s) PROVE Pol!ChecksInv'
  BY <1>2 DEF Pol!ReadSystem
<1>3. ASSUME NEW p \in Library, Pol!Create(p) \/ Pol!Toggle(p) PROVE Pol!ChecksInv'
  BY <1>3 DEF Pol!Create, Pol!Toggle, Pol!Write
<1>4. ASSUME NEW w \in writes, Pol!Written(w) \/ Pol!Landed(w) \/ Pol!WriteFails(w)
      PROVE  Pol!ChecksInv'
  BY <1>4 DEF Pol!Written, Pol!Landed, Pol!WriteFails
<1>5. CASE Pol!FetchEnds \/ Pol!ReadChecks \/ UNCHANGED Pol!vars
  BY <1>5 DEF Pol!FetchEnds, Pol!ReadChecks, Pol!vars
<1>6. CASE Pol!ChecksFetched
  BY <1>6 DEF Pol!ChecksFetched
<1>7. ASSUME NEW c \in Checks, Pol!Flip(c) PROVE Pol!ChecksInv'
  BY <1>7 DEF Pol!Flip
<1>8. ASSUME NEW f \in flips, Pol!Flipped(f) PROVE Pol!ChecksInv'
  BY <1>8 DEF Pol!Flipped
<1>9. ASSUME NEW f \in flips, Pol!FlipEnds(f) PROVE Pol!ChecksInv'
  BY <1>9 DEF Pol!FlipEnds
<1> QED
  BY <1>1, <1>2, <1>3, <1>4, <1>5, <1>6, <1>7, <1>8, <1>9 DEF Pol!Next

\* Every step keeps the invariant.
LEMMA PolNextIInv == ASSUME Pol!LibraryAssumption, Pol!IInv, [Pol!Next]_(Pol!vars) PROVE Pol!IInv'
BY PolNextTypeOK, PolNextReadInv, PolNextChecksInv DEF Pol!IInv

\* The invariant implies what is promised.
LEMMA PolFollows == ASSUME Pol!IInv PROVE Pol!LibraryFollowsServer
BY DEF Pol!IInv, Pol!ReadInv, Pol!ChecksInv, Pol!LibraryFollowsServer

-----------------------------------------------------------------------------
(* PolicyChat: conversations and the systems they are filed with.          *)

\* Appending one element to a sequence.
LEMMA ChatAppended ==
    ASSUME NEW S, NEW q \in Seq(S), NEW e \in S
    PROVE  /\ Append(q, e) \in Seq(S) /\ Append(q, e) # <<>>
           /\ Len(Append(q, e)) = Len(q) + 1 /\ Len(q) \in Nat
           /\ DOMAIN q = 1..Len(q) /\ DOMAIN Append(q, e) = 1..(Len(q) + 1)
           /\ \A i \in DOMAIN q : Append(q, e)[i] = q[i]
           /\ Append(q, e)[Len(q) + 1] = e
           /\ Chat!Range(Append(q, e)) = Chat!Range(q) \cup {e}
<1>1. /\ Append(q, e) \in Seq(S) /\ Append(q, e) # <<>>
      /\ Len(Append(q, e)) = Len(q) + 1 /\ Len(q) \in Nat
      /\ DOMAIN q = 1..Len(q) /\ DOMAIN Append(q, e) = 1..(Len(q) + 1)
      /\ \A i \in DOMAIN q : Append(q, e)[i] = q[i]
      /\ Append(q, e)[Len(q) + 1] = e
  OBVIOUS
<1>2. Chat!Range(Append(q, e)) = Chat!Range(q) \cup {e}
  <2>1. \A i \in DOMAIN Append(q, e) : i \in DOMAIN q \/ i = Len(q) + 1
    BY <1>1
  <2>2. Len(q) + 1 \in DOMAIN Append(q, e) /\ DOMAIN q \subseteq DOMAIN Append(q, e)
    BY <1>1
  <2> QED
    BY <1>1, <2>1, <2>2 DEF Chat!Range
<1> QED
  BY <1>1, <1>2

\* Appending two.
LEMMA ChatAppendedTwice ==
    ASSUME NEW S, NEW q \in Seq(S), NEW d \in S, NEW e \in S
    PROVE  q \o <<d, e>> \in Seq(S) /\ Chat!Range(q \o <<d, e>>) = Chat!Range(q) \cup {d, e}
<1>1. q \o <<d, e>> = Append(Append(q, d), e)
  OBVIOUS
<1>2. Append(q, d) \in Seq(S) /\ Chat!Range(Append(q, d)) = Chat!Range(q) \cup {d}
  BY ChatAppended
<1>3. Append(Append(q, d), e) \in Seq(S)
      /\ Chat!Range(Append(Append(q, d), e)) = Chat!Range(Append(q, d)) \cup {e}
  <2> DEFINE p == Append(q, d)
  <2>1. p \in Seq(S)
    BY <1>2
  <2> HIDE DEF p
  <2>2. Append(p, e) \in Seq(S) /\ Chat!Range(Append(p, e)) = Chat!Range(p) \cup {e}
    BY <2>1, ChatAppended
  <2> QED
    BY <2>2 DEF p
<1> QED
  BY <1>1, <1>2, <1>3

\* Turns, and the books on their filing.
LEMMA ChatBooks ==
    ASSUME Chat!ChatAssumption, Chat!TypeOK, NEW t \in DOMAIN s9
    PROVE  /\ t \in Chat!Turns /\ s9[t] \in Systems /\ s9[t] # none
                /\ DOMAIN s12 \subseteq DOMAIN s9
           /\ Chat!User(t) \in Chat!Messages /\ Chat!Ai(t) \in Chat!Messages
           /\ DOMAIN Chat!Start(t) = DOMAIN s12 \cup {t} /\ Chat!Start(t)[t] = "user"
           /\ Chat!Start(t) \in [DOMAIN Chat!Start(t) -> {"user", "ai", "refetch", "wait"}]
           /\ \A u \in DOMAIN s12 \ {t} : Chat!Start(t)[u] = s12[u]
<1> DEFINE of == s9  filing == s12
<1>1. t \in Chat!Turns /\ of[t] \in Systems /\ of[t] # none /\ DOMAIN filing \subseteq DOMAIN of
  <2>1. /\ of \in Seq(Systems) /\ Len(of) <= MaxTurns /\ DOMAIN filing \subseteq DOMAIN of
        /\ MaxTurns \in Nat /\ none \notin Systems
    BY Zenon DEF Chat!TypeOK, Chat!ChatAssumption
  <2> QED
    BY <2>1 DEF Chat!Turns
<1>2. Chat!User(t) \in Chat!Messages /\ Chat!Ai(t) \in Chat!Messages
  BY <1>1 DEF Chat!User, Chat!Ai, Chat!Messages
<1>3. filing \in [DOMAIN filing -> {"user", "ai", "refetch", "wait"}]
  BY Zenon DEF Chat!TypeOK
<1>4. /\ DOMAIN Chat!Start(t) = DOMAIN filing \cup {t} /\ Chat!Start(t)[t] = "user"
      /\ Chat!Start(t) \in [DOMAIN Chat!Start(t) -> {"user", "ai", "refetch", "wait"}]
      /\ \A u \in DOMAIN filing \ {t} : Chat!Start(t)[u] = filing[u]
  BY <1>3 DEF Chat!Start
<1> QED
  BY <1>1, <1>2, <1>4

\* The books when the filing of some turns has ended.
LEMMA ChatDropped ==
    ASSUME Chat!TypeOK, NEW D
    PROVE  /\ DOMAIN Chat!Drop(D) = DOMAIN s12 \ D /\ DOMAIN Chat!Drop(D) \subseteq DOMAIN s9
           /\ Chat!Drop(D) \in [DOMAIN Chat!Drop(D) -> {"user", "ai", "refetch", "wait"}]
           /\ \A u \in DOMAIN s12 \ D : Chat!Drop(D)[u] = s12[u]
<1>1. s12 \in [DOMAIN s12 -> {"user", "ai", "refetch", "wait"}] /\ DOMAIN s12 \subseteq DOMAIN s9
  BY Zenon DEF Chat!TypeOK
<1> QED
  BY <1>1 DEF Chat!Drop

\* Asking for a history lets what was read of any other, and of it, stand.
LEMMA ChatObserved ==
    ASSUME Chat!TypeOK, NEW s \in Systems, Chat!Observe(s) \/ UNCHANGED s3
    PROVE  /\ s3' \in [Systems -> {"idle", "sent", "read"}]
           /\ \A u \in Systems : s3'[u] = "read" <=> s3[u] = "read"
<1>1. s3 \in [Systems -> {"idle", "sent", "read"}]
  BY Zenon DEF Chat!TypeOK
<1> QED
  BY <1>1 DEF Chat!Observe

\* The end of a request.
LEMMA ChatFetchEnds ==
    ASSUME Chat!TypeOK, NEW s \in Systems, Chat!FetchEnds(s)
    PROVE  /\ s3' \in [Systems -> {"idle", "sent", "read"}] /\ s3'[s] = "idle"
           /\ s19' \in [Systems -> Seq(Chat!Messages)] /\ s19'[s] = <<>>
           /\ \A u \in Systems \ {s} : s3'[u] = s3[u] /\ s19'[u] = s19[u]
           /\ DOMAIN s12' = DOMAIN s12 \ Chat!Waiting(s) /\ DOMAIN s12' \subseteq DOMAIN s9
           /\ s12' \in [DOMAIN s12' -> {"user", "ai", "refetch", "wait"}]
           /\ \A u \in DOMAIN s12' : s12'[u] = s12[u]
           /\ s7' \in Seq(Chat!Messages)
<1> DEFINE Conversations == Seq(Chat!Messages)
<1>1. s3 \in [Systems -> {"idle", "sent", "read"}]
  BY Zenon DEF Chat!TypeOK
<1>2. s3' = [s3 EXCEPT ![s] = "idle"] /\ s19' = [s19 EXCEPT ![s] = <<>>]
      /\ s12' = Chat!Drop(Chat!Waiting(s)) /\ s7' \in {<<>>, s7}
  BY DEF Chat!FetchEnds
<1>3. s19 \in [Systems -> Conversations] /\ <<>> \in Conversations /\ s7 \in Conversations
  BY DEF Chat!TypeOK
<1>4. s3' \in [Systems -> {"idle", "sent", "read"}] /\ s3'[s] = "idle"
      /\ \A u \in Systems \ {s} : s3'[u] = s3[u]
  BY <1>1, <1>2
<1> HIDE DEF Conversations
<1>5. s19' \in [Systems -> Conversations] /\ s19'[s] = <<>> /\ s7' \in Conversations
      /\ \A u \in Systems \ {s} : s19'[u] = s19[u]
  BY <1>2, <1>3
<1>6. /\ DOMAIN s12' = DOMAIN s12 \ Chat!Waiting(s) /\ DOMAIN s12' \subseteq DOMAIN s9
      /\ s12' \in [DOMAIN s12' -> {"user", "ai", "refetch", "wait"}]
      /\ \A u \in DOMAIN s12 \ Chat!Waiting(s) : s12'[u] = s12[u]
  BY <1>2, ChatDropped
<1> QED
  BY <1>4, <1>5, <1>6 DEF Conversations

\* Invalidating a history that is on show: what has been read is dropped or goes on.
LEMMA ChatInvalidates ==
    ASSUME Chat!TypeOK, NEW s \in Systems, Chat!Invalidate(s)
    PROVE  /\ s3' \in [Systems -> {"idle", "sent", "read"}]
           /\ s19' \in [Systems -> Seq(Chat!Messages)]
           /\ \A u \in Systems : s19'[u] \in {<<>>, s19[u]}
           /\ \A u \in Systems : s3'[u] = "read" => s3[u] = "read" /\ s19'[u] = s19[u]
           /\ s3'[s] = "read" => s \notin s17
<1> DEFINE Conversations == Seq(Chat!Messages)
<1>1. s3 \in [Systems -> {"idle", "sent", "read"}]
  BY Zenon DEF Chat!TypeOK
<1>2. s19 \in [Systems -> Conversations] /\ <<>> \in Conversations
  BY DEF Chat!TypeOK
<1> HIDE DEF Conversations
<1>3. CASE s \in s17
  <2>1. s3' = [s3 EXCEPT ![s] = "sent"] /\ s19' = [s19 EXCEPT ![s] = <<>>]
    BY <1>3 DEF Chat!Invalidate
  <2>2. /\ s3' \in [Systems -> {"idle", "sent", "read"}] /\ s3'[s] = "sent"
        /\ \A u \in Systems \ {s} : s3'[u] = s3[u]
    BY <1>1, <2>1
  <2>3. /\ s19' \in [Systems -> Conversations] /\ s19'[s] = <<>>
        /\ \A u \in Systems \ {s} : s19'[u] = s19[u]
    BY <1>2, <2>1
  <2> QED
    BY <2>2, <2>3 DEF Conversations
<1>4. CASE s \notin s17
  <2>1. Chat!Observe(s) /\ s19' = s19
    BY <1>4 DEF Chat!Invalidate
  <2> QED
    BY <1>2, <1>4, <2>1, ChatObserved DEF Conversations
<1> QED
  BY <1>3, <1>4

\* What filing the next message of a turn makes of the histories.
LEMMA ChatGrown ==
    ASSUME Chat!ChatAssumption, Chat!TypeOK, NEW t \in DOMAIN s12, s12[t] \in {"user", "ai"},
           NEW f,
           f = [s1 EXCEPT ![s9[t]] = Append(@, [turn |-> t, role |-> s12[t]])]
    PROVE  /\ [turn |-> t, role |-> s12[t]] \in Chat!Messages
           /\ f \in [Systems -> Seq(Chat!Messages)]
           /\ f[s9[t]] = Append(s1[s9[t]], [turn |-> t, role |-> s12[t]])
           /\ \A s \in Systems \ {s9[t]} : f[s] = s1[s]
           /\ \A s \in Systems : Chat!Range(s1[s]) \subseteq Chat!Range(f[s])
           /\ [turn |-> t, role |-> s12[t]] \in Chat!Range(f[s9[t]])
<1> DEFINE filed == s1  of == s9  filing == s12
<1> DEFINE m == [turn |-> t, role |-> filing[t]]
<1>1. t \in DOMAIN of /\ of[t] \in Systems
  BY DEF Chat!TypeOK
<1>2. m \in Chat!Messages
  BY <1>1, ChatBooks DEF Chat!Messages
<1>3. filed[of[t]] \in Seq(Chat!Messages)
  BY <1>1 DEF Chat!TypeOK
<1> HIDE DEF m
<1>4. f[of[t]] = Append(filed[of[t]], m) /\ \A s \in Systems \ {of[t]} : f[s] = filed[s]
  BY <1>1 DEF Chat!TypeOK, m
<1>5. Append(filed[of[t]], m) \in Seq(Chat!Messages)
      /\ Chat!Range(Append(filed[of[t]], m)) = Chat!Range(filed[of[t]]) \cup {m}
  BY <1>2, <1>3, ChatAppended
<1>6. f \in [Systems -> Seq(Chat!Messages)]
  BY <1>4, <1>5 DEF Chat!TypeOK, m
<1>7. \A s \in Systems : Chat!Range(filed[s]) \subseteq Chat!Range(f[s])
  BY <1>4, <1>5
<1> QED
  BY <1>1, <1>2, <1>4, <1>5, <1>6, <1>7 DEF m

-----------------------------------------------------------------------------

\* The invariant holds initially.
LEMMA ChatInitIInv == ASSUME Chat!ChatAssumption, Chat!Init PROVE Chat!IInv
<1> DEFINE filed == s1  cached == s2  fetch == s3  open == s4  pending == s7  typing == s8
           of == s9  mine == s10  filing == s12  saving == s13  moves == s14  disturbed == s16
           answer == s19
<1>1. Chat!TypeOK
  <2>1. /\ open \in BOOLEAN /\ typing \in BOOLEAN /\ saving \in BOOLEAN /\ disturbed \in BOOLEAN
    BY DEF Chat!Init
  <2>2. DOMAIN filing = {}
    BY DEF Chat!Init
  <2>3. filing \in [DOMAIN filing -> {"user", "ai", "refetch", "wait"}]
    BY <2>2 DEF Chat!Init
  <2>4. /\ filed \in [Systems -> Seq(Chat!Messages)] /\ cached \in [Systems -> Seq(Chat!Messages)]
        /\ answer \in [Systems -> Seq(Chat!Messages)]
        /\ fetch \in [Systems -> {"idle", "sent", "read"}]
        /\ pending \in Seq(Chat!Messages) /\ of \in Seq(Systems) /\ Len(of) <= MaxTurns
        /\ moves \in 0..MaxMoves
    BY DEF Chat!Init, Chat!ChatAssumption
  <2> QED
    BY <2>1, <2>2, <2>3, <2>4 DEF Chat!Init, Chat!TypeOK
<1>2. Chat!FiledInv /\ Chat!FilingInv /\ Chat!AskingInv /\ Chat!ShownInv
  <2>1. DOMAIN filing = {} /\ mine = {}
        /\ \A s \in Systems : cached[s] = <<>> /\ filed[s] = <<>> /\ answer[s] = <<>>
    BY DEF Chat!Init
  <2>2. \A s \in Systems : /\ DOMAIN filed[s] = {}
                           /\ Chat!Range(cached[s]) = {} /\ Chat!Range(answer[s]) = {}
    BY <2>1 DEF Chat!Range
  <2> QED
    BY <2>1, <2>2 DEF Chat!FiledInv, Chat!FilingInv, Chat!AskingInv, Chat!ShownInv
<1> QED
  BY <1>1, <1>2 DEF Chat!IInv

\* Every step keeps the types.
LEMMA ChatNextTypeOK ==
    ASSUME Chat!ChatAssumption, Chat!TypeOK, [Chat!Next]_(Chat!vars)
    PROVE  Chat!TypeOK'
<1> DEFINE filed == s1  cached == s2  fetch == s3  open == s4  chosen == s6  pending == s7
           typing == s8  of == s9  mine == s10  answering == s11  filing == s12  saving == s13
           moves == s14  mixed == s15  disturbed == s16  loaded == s17  invalid == s18
           answer == s19
<1> USE DEF Chat!conversation, Chat!queries
<1>1. ASSUME NEW s \in Systems, Chat!SystemsLoaded(s) PROVE Chat!TypeOK'
  <2>1. fetch' \in [Systems -> {"idle", "sent", "read"}]
    BY <1>1, ChatObserved DEF Chat!SystemsLoaded, Chat!Come
  <2>2. moves' \in 0..MaxMoves
    BY <1>1 DEF Chat!SystemsLoaded, Chat!TypeOK, Chat!ChatAssumption
  <2> QED
    BY <1>1, <2>1, <2>2 DEF Chat!SystemsLoaded, Chat!TypeOK
<1>2. ASSUME NEW s \in Systems, Chat!Serve(s) PROVE Chat!TypeOK'
  <2> DEFINE Conversations == Seq(Chat!Messages)
  <2>1. /\ filed \in [Systems -> Conversations] /\ answer \in [Systems -> Conversations]
        /\ fetch \in [Systems -> {"idle", "sent", "read"}]
    BY Zenon DEF Chat!TypeOK
  <2> HIDE DEF Conversations
  <2>2. /\ fetch' \in [Systems -> {"idle", "sent", "read"}]
        /\ answer' \in [Systems -> Conversations]
    BY <1>2, <2>1 DEF Chat!Serve
  <2> QED
    BY <1>2, <2>2 DEF Chat!Serve, Chat!TypeOK, Conversations
<1>14. ASSUME NEW s \in Systems, Chat!Delivered(s) PROVE Chat!TypeOK'
  <2> DEFINE Conversations == Seq(Chat!Messages)
  <2>1. cached \in [Systems -> Conversations] /\ answer \in [Systems -> Conversations]
    BY Zenon DEF Chat!TypeOK
  <2> HIDE DEF Conversations
  <2>2. cached' \in [Systems -> Conversations]
    BY <1>14, <2>1 DEF Chat!Delivered
  <2>3. loaded' \subseteq Systems /\ invalid' \subseteq Systems
    BY <1>14 DEF Chat!Delivered, Chat!TypeOK
  <2> QED
    BY <1>14, <2>2, <2>3, ChatFetchEnds DEF Chat!Delivered, Chat!TypeOK, Conversations
<1>15. ASSUME NEW s \in Systems, Chat!HistoryFails(s) PROVE Chat!TypeOK'
  <2>1. invalid' \subseteq Systems
    BY <1>15 DEF Chat!HistoryFails, Chat!TypeOK
  <2>2. /\ fetch' \in [Systems -> {"idle", "sent", "read"}]
        /\ answer' \in [Systems -> Seq(Chat!Messages)] /\ pending' \in Seq(Chat!Messages)
        /\ filing' \in [DOMAIN filing' -> {"user", "ai", "refetch", "wait"}]
        /\ DOMAIN filing' \subseteq DOMAIN of
    BY <1>15, ChatFetchEnds DEF Chat!HistoryFails
  <2>3. UNCHANGED <<filed, cached, loaded, open, s5, chosen, typing, of, mine, answering, saving,
                    moves, mixed, disturbed>>
    BY <1>15 DEF Chat!HistoryFails
  <2> QED
    BY <2>1, <2>2, <2>3, Zenon DEF Chat!TypeOK
<1>3. ASSUME NEW s \in Systems, Chat!Choose(s) PROVE Chat!TypeOK'
  <2>1. disturbed' \in BOOLEAN
    BY <1>3 DEF Chat!Choose
  <2>2. pending' \in Seq(Chat!Messages)
    BY <1>3 DEF Chat!Choose
  <2>4. moves' \in 0..MaxMoves
    <3>1. moves \in 0..MaxMoves /\ MaxMoves \in Nat /\ moves < MaxMoves /\ moves' = moves + 1
      BY <1>3 DEF Chat!Choose, Chat!TypeOK, Chat!ChatAssumption
    <3> QED
      BY <3>1
  <2>3. fetch' \in [Systems -> {"idle", "sent", "read"}]
    BY <1>3, ChatObserved DEF Chat!Choose, Chat!Come
  <2> QED
    BY <1>3, <2>1, <2>2, <2>3, <2>4 DEF Chat!Choose, Chat!TypeOK
<1>4. CASE Chat!Leave
  <2>1. open' \in BOOLEAN /\ typing' \in BOOLEAN
    BY <1>4 DEF Chat!Leave, Chat!Unmounted
  <2>2. pending' \in Seq(Chat!Messages) /\ moves' \in 0..MaxMoves
    BY <1>4 DEF Chat!Leave, Chat!Unmounted, Chat!TypeOK, Chat!ChatAssumption
  <2> QED
    BY <1>4, <2>1, <2>2 DEF Chat!Leave, Chat!Unmounted, Chat!TypeOK
<1>5. CASE Chat!Mount
  <2>1. fetch' \in [Systems -> {"idle", "sent", "read"}]
    <3>1. CASE s5 = none
      BY <1>5, <3>1 DEF Chat!Mount, Chat!TypeOK
    <3>2. CASE s5 # none
      <4>1. s5 \in Systems /\ Chat!Observe(s5)
        BY <1>5, <3>2 DEF Chat!Mount, Chat!TypeOK
      <4> QED
        BY <4>1, ChatObserved
    <3> QED
      BY <3>1, <3>2
  <2> QED
    BY <1>5, <2>1 DEF Chat!Mount, Chat!TypeOK
<1>6. ASSUME NEW local \in BOOLEAN, Chat!Send(local) PROVE Chat!TypeOK'
  <2> DEFINE t == Len(of) + 1
  <2>1. Chat!Resolved \in Systems
    BY <1>6 DEF Chat!Send, Chat!Resolved, Chat!TypeOK
  <2>2. /\ of' = Append(of, Chat!Resolved) /\ of' \in Seq(Systems)
             /\ DOMAIN of' = DOMAIN of \cup {t}
        /\ Len(of') <= MaxTurns /\ t \in Chat!Turns
    <3>1. of' = Append(of, Chat!Resolved) /\ of \in Seq(Systems) /\ Len(of) < MaxTurns
      BY <1>6 DEF Chat!Send, Chat!TypeOK
    <3>2. MaxTurns \in Nat
      BY DEF Chat!ChatAssumption
    <3> QED
      BY <2>1, <3>1, <3>2, ChatAppended DEF Chat!Turns
  <2>3. Chat!User(t) \in Chat!Messages /\ Chat!Ai(t) \in Chat!Messages
    BY <2>2 DEF Chat!User, Chat!Ai, Chat!Messages
  <2>4. pending' \in Seq(Chat!Messages)
    BY <1>6, <2>3, ChatAppended, ChatAppendedTwice DEF Chat!Send, Chat!TypeOK
  <2>5. typing' \in BOOLEAN /\ disturbed' \in BOOLEAN
    BY <1>6 DEF Chat!Send
  <2>6. filing' \in [DOMAIN filing' -> {"user", "ai", "refetch", "wait"}]
        /\ DOMAIN filing' \subseteq DOMAIN filing \cup {t}
    BY <1>6 DEF Chat!Send, Chat!Start, Chat!TypeOK
  <2>7. mixed' \subseteq Systems /\ mine' \subseteq DOMAIN of \cup {t}
        /\ answering' \subseteq DOMAIN of \cup {t}
    BY <1>6, <2>1 DEF Chat!Send, Chat!TypeOK
  <2> QED
    BY <1>6, <2>2, <2>4, <2>5, <2>6, <2>7 DEF Chat!Send, Chat!TypeOK
<1>7. ASSUME NEW t \in Chat!Turns, Chat!Answered(t) PROVE Chat!TypeOK'
  <2>1. t \in DOMAIN of
    BY <1>7 DEF Chat!Answered, Chat!TypeOK
  <2>2. typing' \in BOOLEAN
    BY <1>7 DEF Chat!Answered
  <2>3. pending' \in Seq(Chat!Messages)
    BY <1>7, <2>1, ChatBooks, ChatAppended DEF Chat!Answered, Chat!TypeOK
  <2>4. filing' \in [DOMAIN filing' -> {"user", "ai", "refetch", "wait"}]
        /\ DOMAIN filing' \subseteq DOMAIN of
    <3>1. filing' = Chat!Start(t)
      BY <1>7 DEF Chat!Answered
    <3>2. DOMAIN Chat!Start(t) = DOMAIN filing \cup {t} /\ DOMAIN filing \subseteq DOMAIN of
      BY <2>1, ChatBooks
    <3> QED
      <4>1. DOMAIN filing' \subseteq DOMAIN of
        BY <2>1, <3>1, <3>2
      <4> QED
        BY <2>1, <3>1, <4>1, ChatBooks
  <2>5. mixed' \subseteq Systems
    BY <1>7, <2>1, ChatBooks DEF Chat!Answered, Chat!TypeOK
  <2> QED
    BY <1>7, <2>2, <2>3, <2>4, <2>5 DEF Chat!Answered, Chat!TypeOK
<1>8. ASSUME NEW t \in Chat!Turns, Chat!FileMessage(t) PROVE Chat!TypeOK'
  <2>1. filed' \in [Systems -> Seq(Chat!Messages)]
    BY <1>8, ChatGrown DEF Chat!FileMessage
  <2>2. filing' \in [DOMAIN filing' -> {"user", "ai", "refetch", "wait"}]
        /\ DOMAIN filing' = DOMAIN filing
    BY <1>8 DEF Chat!FileMessage, Chat!TypeOK
  <2> QED
    BY <1>8, <2>1, <2>2 DEF Chat!FileMessage, Chat!TypeOK
<1>9. ASSUME NEW t \in Chat!Turns, Chat!FilingFails(t) PROVE Chat!TypeOK'
  <2>2. filed' \in [Systems -> Seq(Chat!Messages)]
    BY <1>9, ChatGrown DEF Chat!FilingFails, Chat!TypeOK
  <2>3. filing' \in [DOMAIN filing' -> {"user", "ai", "refetch", "wait"}]
        /\ DOMAIN filing' \subseteq DOMAIN of
    BY <1>9, ChatDropped DEF Chat!FilingFails
  <2>4. disturbed' \in BOOLEAN
    BY <1>9 DEF Chat!FilingFails
  <2> QED
    BY <1>9, <2>2, <2>3, <2>4 DEF Chat!FilingFails, Chat!TypeOK
<1>10. ASSUME NEW t \in Chat!Turns, Chat!Invalidated(t) PROVE Chat!TypeOK'
  <2>1. t \in DOMAIN of /\ Chat!Invalidate(of[t])
    BY <1>10 DEF Chat!Invalidated, Chat!TypeOK
  <2>2. of[t] \in Systems
    BY <2>1, ChatBooks
  <2>3. filing' \in [DOMAIN filing' -> {"user", "ai", "refetch", "wait"}]
        /\ DOMAIN filing' = DOMAIN filing
    BY <1>10 DEF Chat!Invalidated, Chat!TypeOK
  <2>4. invalid' \subseteq Systems
    BY <2>1, <2>2 DEF Chat!Invalidate, Chat!TypeOK
  <2>5. disturbed' \in BOOLEAN
    BY <1>10 DEF Chat!Invalidated
  <2>6. /\ fetch' \in [Systems -> {"idle", "sent", "read"}]
        /\ answer' \in [Systems -> Seq(Chat!Messages)]
    BY <2>1, <2>2, ChatInvalidates
  <2> QED
    BY <1>10, <2>3, <2>4, <2>5, <2>6 DEF Chat!Invalidated, Chat!TypeOK
<1>16. ASSUME NEW t \in Chat!Turns, Chat!InvalidatedAway(t) PROVE Chat!TypeOK'
  <2>1. t \in DOMAIN of
    BY <1>16 DEF Chat!InvalidatedAway, Chat!TypeOK
  <2>2. of[t] \in Systems
    BY <2>1, ChatBooks
  <2>3. filing' \in [DOMAIN filing' -> {"user", "ai", "refetch", "wait"}]
        /\ DOMAIN filing' \subseteq DOMAIN of
    BY <1>16, ChatDropped DEF Chat!InvalidatedAway
  <2>4. invalid' \subseteq Systems
    BY <1>16, <2>2 DEF Chat!InvalidatedAway, Chat!TypeOK
  <2>5. disturbed' \in BOOLEAN
    BY <1>16 DEF Chat!InvalidatedAway
  <2>6. pending' \in Seq(Chat!Messages)
    BY <1>16 DEF Chat!InvalidatedAway, Chat!TypeOK
  <2> QED
    BY <1>16, <2>3, <2>4, <2>5, <2>6 DEF Chat!InvalidatedAway, Chat!TypeOK
<1>11. CASE Chat!Save
  BY <1>11 DEF Chat!Save, Chat!TypeOK
<1>12. CASE Chat!Saved
  <2>1. CASE UNCHANGED <<open, chosen, pending, typing, mine>>
    BY <1>12, <2>1 DEF Chat!Saved, Chat!TypeOK
  <2>2. CASE Chat!Unmounted
    <3>1. open' \in BOOLEAN /\ typing' \in BOOLEAN /\ saving' \in BOOLEAN
      BY <1>12, <2>2 DEF Chat!Saved, Chat!Unmounted
    <3>2. pending' \in Seq(Chat!Messages)
      BY <2>2 DEF Chat!Unmounted
    <3> QED
      BY <1>12, <2>2, <3>1, <3>2 DEF Chat!Saved, Chat!Unmounted, Chat!TypeOK
  <2> QED
    BY <1>12, <2>1, <2>2 DEF Chat!Saved
<1>13. CASE UNCHANGED Chat!vars
  BY <1>13 DEF Chat!vars, Chat!TypeOK
<1> QED
  BY <1>1, <1>2, <1>3, <1>4, <1>5, <1>6, <1>7, <1>8, <1>9, <1>10, <1>11, <1>12, <1>13, <1>14, <1>15,
     <1>16 DEF Chat!Next

\* Every step keeps the histories in order.
LEMMA ChatNextFiled ==
    ASSUME Chat!ChatAssumption, Chat!TypeOK, Chat!FiledInv, Chat!FilingInv,
           [Chat!Next]_(Chat!vars)
    PROVE  Chat!FiledInv' /\ Chat!FilingInv'
<1> DEFINE filed == s1  cached == s2  of == s9  filing == s12  mixed == s15  answer == s19
<1> USE DEF Chat!conversation, Chat!queries
<1>0. ASSUME UNCHANGED <<filed, cached, answer, of, filing, mixed>>
      PROVE  Chat!FiledInv' /\ Chat!FilingInv'
  BY <1>0 DEF Chat!FiledInv, Chat!FilingInv
<1>1. ASSUME NEW s \in Systems, Chat!SystemsLoaded(s) \/ Chat!Choose(s)
      PROVE  Chat!FiledInv' /\ Chat!FilingInv'
  BY <1>0, <1>1 DEF Chat!SystemsLoaded, Chat!Choose
\* A request or an invalidation only moves a history on, and a turn only out of its filing.
<1>2. ASSUME UNCHANGED <<filed, of, mixed>>,
             \A s \in Systems : /\ cached'[s] \in {cached[s], answer[s]}
                                /\ answer'[s] \in {<<>>, answer[s], filed[s]},
             DOMAIN filing' \subseteq DOMAIN filing,
             \A u \in DOMAIN filing' :
                filing'[u] = filing[u] \/ (filing[u] = "refetch" /\ filing'[u] = "wait")
      PROVE  Chat!FiledInv' /\ Chat!FilingInv'
  <2>1. Chat!Range(<<>>) = {}
    BY DEF Chat!Range
  <2>2. ASSUME NEW s \in Systems
        PROVE  Chat!Range(cached'[s]) \cup Chat!Range(answer'[s]) \subseteq Chat!Range(filed[s])
    <3>1. Chat!Range(cached[s]) \cup Chat!Range(answer[s]) \subseteq Chat!Range(filed[s])
      BY DEF Chat!FiledInv
    <3>2. /\ cached'[s] = cached[s] \/ cached'[s] = answer[s]
          /\ answer'[s] = <<>> \/ answer'[s] = answer[s] \/ answer'[s] = filed[s]
      BY <1>2
    <3> QED
      BY <2>1, <3>1, <3>2
  <2>3. Chat!FiledInv'
    BY <1>2, <2>2 DEF Chat!FiledInv
  <2>4. Chat!FilingInv'
    BY <1>2 DEF Chat!FilingInv
  <2> QED
    BY <2>3, <2>4
<1>10. ASSUME NEW s \in Systems, Chat!Serve(s) PROVE Chat!FiledInv' /\ Chat!FilingInv'
  <2>1. UNCHANGED <<filed, cached, of, filing, mixed>>
    BY <1>10 DEF Chat!Serve
  <2>2. \A u \in Systems : answer'[u] \in {answer[u], filed[u]}
    BY <1>10 DEF Chat!Serve, Chat!TypeOK
  <2> QED
    BY <1>2, <2>1, <2>2
<1>11. ASSUME NEW s \in Systems, Chat!Delivered(s) \/ Chat!HistoryFails(s)
       PROVE  Chat!FiledInv' /\ Chat!FilingInv'
  <2>1. UNCHANGED <<filed, of, mixed>> /\ Chat!FetchEnds(s)
    BY <1>11 DEF Chat!Delivered, Chat!HistoryFails
  <2>2. \A u \in Systems : cached'[u] \in {cached[u], answer[u]}
    BY <1>11 DEF Chat!Delivered, Chat!HistoryFails, Chat!TypeOK
  <2>3. /\ \A u \in Systems : answer'[u] \in {<<>>, answer[u]}
        /\ DOMAIN filing' \subseteq DOMAIN filing /\ \A u \in DOMAIN filing' : filing'[u] = filing[u]
    BY <2>1, ChatFetchEnds
  <2> QED
    BY <1>2, <2>1, <2>2, <2>3
<1>3. CASE Chat!Leave \/ Chat!Mount \/ Chat!Save \/ Chat!Saved \/ UNCHANGED Chat!vars
  BY <1>0, <1>3 DEF Chat!Leave, Chat!Mount, Chat!Save, Chat!Saved, Chat!vars
<1>4. ASSUME NEW local \in BOOLEAN, Chat!Send(local) PROVE Chat!FiledInv' /\ Chat!FilingInv'
  <2> DEFINE t == Len(of) + 1
  <2>1. Chat!Resolved \in Systems
    BY <1>4 DEF Chat!Send, Chat!Resolved, Chat!TypeOK
  <2>2. /\ of' = Append(of, Chat!Resolved) /\ DOMAIN of' = DOMAIN of \cup {t}
             /\ of'[t] = Chat!Resolved
        /\ \A u \in DOMAIN of : of'[u] = of[u]
        /\ t \notin DOMAIN of
    <3>1. of \in Seq(Systems) /\ of' = Append(of, Chat!Resolved)
      BY <1>4 DEF Chat!Send, Chat!TypeOK
    <3>2. /\ DOMAIN of = 1..Len(of) /\ DOMAIN of' = 1..(Len(of) + 1) /\ Len(of) \in Nat
          /\ of'[Len(of) + 1] = Chat!Resolved /\ \A u \in DOMAIN of : of'[u] = of[u]
      BY <2>1, <3>1, ChatAppended
    <3> QED
      BY <3>1, <3>2
  <2>3. mixed \subseteq mixed' /\ UNCHANGED <<filed, cached, answer>>
    BY <1>4 DEF Chat!Send
  <2>4. Chat!FiledInv'
    BY <2>2, <2>3 DEF Chat!FiledInv
  <2>5. DOMAIN filing \subseteq DOMAIN of
    BY DEF Chat!TypeOK
  <2>6. CASE ~local
    <3>1. filing' = filing
      BY <1>4, <2>6 DEF Chat!Send
    <3> QED
      BY <2>2, <2>3, <2>4, <2>5, <3>1 DEF Chat!FilingInv
  <2>7. CASE local
    <3>1. filing' = Chat!Start(t)
      BY <1>4, <2>7 DEF Chat!Send
    <3>2. /\ DOMAIN filing' = DOMAIN filing \cup {t} /\ filing'[t] = "user"
          /\ \A u \in DOMAIN filing : filing'[u] = filing[u] /\ of'[u] = of[u]
      BY <2>2, <2>5, <3>1 DEF Chat!Start
    <3>3. \A u \in DOMAIN filing : of[u] = Chat!Resolved => Chat!Resolved \in mixed'
      BY <1>4, <2>7 DEF Chat!Send
    <3> HIDE DEF t
    <3>4. Chat!FilingInv'
      <4>1. \A u, w \in DOMAIN filing' : of'[w] = of'[u] /\ w # u => of'[u] \in mixed'
        BY <2>2, <2>3, <2>5, <3>2, <3>3 DEF Chat!FilingInv
      <4> QED
        BY <2>2, <2>3, <2>5, <3>2, <4>1 DEF Chat!FilingInv
    <3> QED
      BY <2>4, <3>4
  <2> QED
    BY <2>6, <2>7
<1>5. ASSUME NEW t \in Chat!Turns, Chat!Answered(t) PROVE Chat!FiledInv' /\ Chat!FilingInv'
  <2>1. t \in DOMAIN of
    BY <1>5 DEF Chat!Answered, Chat!TypeOK
  <2>2. mixed \subseteq mixed' /\ UNCHANGED <<filed, cached, answer, of>>
    BY <1>5 DEF Chat!Answered
  <2>3. /\ DOMAIN filing' = DOMAIN filing \cup {t} /\ filing'[t] = "user"
        /\ \A u \in DOMAIN filing \ {t} : filing'[u] = filing[u]
    BY <1>5, <2>1, ChatBooks DEF Chat!Answered
  <2>4. \A u \in DOMAIN filing : of[u] = of[t] => of[t] \in mixed'
    BY <1>5 DEF Chat!Answered, Chat!Beside
  <2>5. Chat!FiledInv'
    BY <2>2 DEF Chat!FiledInv
  <2>6. Chat!FilingInv'
    BY <2>2, <2>3, <2>4 DEF Chat!FilingInv
  <2> QED
    BY <2>5, <2>6
<1>6. ASSUME NEW t \in DOMAIN filing, filing[t] \in {"user", "ai"},
             UNCHANGED <<cached, answer, of, mixed>>,
             filed' = [filed EXCEPT ![of[t]] = Append(@, [turn |-> t, role |-> filing[t]])]
      PROVE  Chat!FiledInv'
  <2> DEFINE m == [turn |-> t, role |-> filing[t]]
             h == filed[of[t]]
  <2>1. t \in DOMAIN of /\ of[t] \in Systems /\ h \in Seq(Chat!Messages)
    BY DEF Chat!TypeOK
  <2>2. /\ filed' \in [Systems -> Seq(Chat!Messages)] /\ m \in Chat!Messages
             /\ filed'[of[t]] = Append(h, m)
        /\ \A s \in Systems \ {of[t]} : filed'[s] = filed[s]
        /\ \A s \in Systems : Chat!Range(filed[s]) \subseteq Chat!Range(filed'[s])
    BY <1>6, ChatGrown
  <2>3. m.turn = t /\ m.role = filing[t]
    OBVIOUS
  <2>4. filing[t] = "ai" /\ of[t] \notin mixed => Len(h) > 0 /\ h[Len(h)] = Chat!User(t)
    BY DEF Chat!FilingInv
  <2> HIDE DEF m, h
  <2>5. /\ Len(h) \in Nat /\ DOMAIN h = 1..Len(h) /\ DOMAIN Append(h, m) = 1..(Len(h) + 1)
        /\ \A i \in DOMAIN h : Append(h, m)[i] = h[i]
        /\ Append(h, m)[Len(h) + 1] = m
    BY <2>1, <2>2, ChatAppended
  <2>6. ASSUME NEW i \in DOMAIN filed'[of[t]] PROVE
           /\ filed'[of[t]][i].turn \in DOMAIN of /\ of[filed'[of[t]][i].turn] = of[t]
           /\ filed'[of[t]][i].role = "ai" /\ of[t] \notin mixed =>
                 i > 1 /\ filed'[of[t]][i - 1] = Chat!User(filed'[of[t]][i].turn)
    <3>1. CASE i \in DOMAIN h
      <4>1. /\ h[i].turn \in DOMAIN of /\ of[h[i].turn] = of[t]
            /\ h[i].role = "ai" /\ of[t] \notin mixed => i > 1 /\ h[i - 1] = Chat!User(h[i].turn)
        BY <2>1, <3>1 DEF Chat!FiledInv, h
      <4>2. i > 1 => i - 1 \in DOMAIN h
        BY <2>5, <3>1
      <4> QED
        BY <2>2, <2>5, <3>1, <4>1, <4>2
    <3>2. CASE i = Len(h) + 1
      <4>1. filed'[of[t]][i] = m
        BY <2>2, <2>5, <3>2
      <4>2. i - 1 = Len(h) /\ (Len(h) > 0 => i > 1 /\ filed'[of[t]][i - 1] = h[Len(h)])
        <5>1. i - 1 = Len(h) /\ (Len(h) > 0 => i > 1 /\ Len(h) \in DOMAIN h)
          BY <2>5, <3>2
        <5> QED
          BY <2>2, <2>5, <5>1
      <4> QED
        BY <2>1, <2>3, <2>4, <4>1, <4>2
    <3> QED
      BY <2>2, <2>5, <3>1, <3>2
  <2>7. ASSUME NEW s \in Systems PROVE
           /\ Chat!Range(cached'[s]) \cup Chat!Range(answer'[s]) \subseteq Chat!Range(filed'[s])
           /\ \A i \in DOMAIN filed'[s] :
                 /\ filed'[s][i].turn \in DOMAIN of' /\ of'[filed'[s][i].turn] = s
                 /\ filed'[s][i].role = "ai" /\ s \notin mixed' =>
                       i > 1 /\ filed'[s][i - 1] = Chat!User(filed'[s][i].turn)
    <3>1. Chat!Range(cached'[s]) \cup Chat!Range(answer'[s]) \subseteq Chat!Range(filed'[s])
      BY <1>6, <2>2 DEF Chat!FiledInv
    <3>2. CASE s = of[t]
      BY <1>6, <2>6, <3>1, <3>2
    <3>3. CASE s # of[t]
      BY <1>6, <2>2, <3>1, <3>3 DEF Chat!FiledInv
    <3> QED
      BY <3>2, <3>3
  <2> QED
    BY <2>7 DEF Chat!FiledInv
<1>7. ASSUME NEW t \in Chat!Turns, Chat!FileMessage(t) PROVE Chat!FiledInv' /\ Chat!FilingInv'
  <2>1. t \in DOMAIN filing /\ filing[t] \in {"user", "ai"} /\ UNCHANGED <<cached, answer, of, mixed>>
    BY <1>7 DEF Chat!FileMessage
  <2>2. filed' = [filed EXCEPT ![of[t]] = Append(@, [turn |-> t, role |-> filing[t]])]
    BY <1>7 DEF Chat!FileMessage
  <2>3. Chat!FiledInv'
    BY <1>6, <2>1, <2>2
  <2>4. /\ DOMAIN filing' = DOMAIN filing
        /\ filing'[t] = IF filing[t] = "user" THEN "ai" ELSE "refetch"
        /\ \A u \in DOMAIN filing \ {t} : filing'[u] = filing[u]
    BY <1>7 DEF Chat!FileMessage, Chat!TypeOK
  <2> DEFINE m == [turn |-> t, role |-> filing[t]]
             h == filed[of[t]]
  <2>5. /\ m \in Chat!Messages /\ filed'[of[t]] = Append(h, m)
        /\ \A s \in Systems \ {of[t]} : filed'[s] = filed[s]
        /\ \A s \in Systems : Chat!Range(filed[s]) \subseteq Chat!Range(filed'[s])
        /\ m \in Chat!Range(filed'[of[t]])
    BY <2>1, <2>2, ChatGrown
  <2>6. h \in Seq(Chat!Messages) /\ \A u \in DOMAIN filing : of[u] \in Systems
    BY <2>1 DEF Chat!TypeOK
  <2>7. (filing[t] = "user" => m = Chat!User(t)) /\ (filing[t] = "ai" => m = Chat!Ai(t))
    BY DEF Chat!User, Chat!Ai
  <2> HIDE DEF m, h
  <2>8. Len(Append(h, m)) > 0 /\ Append(h, m)[Len(Append(h, m))] = m
    BY <2>5, <2>6, ChatAppended
  <2>9. ASSUME NEW u \in DOMAIN filing' PROVE
           /\ \A v \in DOMAIN filing' : of'[v] = of'[u] /\ v # u => of'[u] \in mixed'
           /\ filing'[u] = "ai" /\ of'[u] \notin mixed' =>
                 Len(filed'[of'[u]]) > 0 /\ filed'[of'[u]][Len(filed'[of'[u]])] = Chat!User(u)
           /\ filing'[u] # "user" => Chat!User(u) \in Chat!Range(filed'[of'[u]])
           /\ filing'[u] \in {"refetch", "wait"} => Chat!Ai(u) \in Chat!Range(filed'[of'[u]])
    <3>1. \A v \in DOMAIN filing' : of'[v] = of'[u] /\ v # u => of'[u] \in mixed'
      BY <2>1, <2>4 DEF Chat!FilingInv
    <3>2. CASE u = t
      <4>1. filing[t] = "ai" => Chat!User(t) \in Chat!Range(filed[of[t]])
        BY <2>1 DEF Chat!FilingInv
      <4> QED
        BY <2>1, <2>4, <2>5, <2>6, <2>7, <2>8, <3>1, <3>2, <4>1
    <3>3. CASE u # t
      <4>1. /\ filing[u] = "ai" /\ of[u] \notin mixed =>
                  Len(filed[of[u]]) > 0 /\ filed[of[u]][Len(filed[of[u]])] = Chat!User(u)
            /\ filing[u] # "user" => Chat!User(u) \in Chat!Range(filed[of[u]])
            /\ filing[u] \in {"refetch", "wait"} => Chat!Ai(u) \in Chat!Range(filed[of[u]])
        BY <2>4 DEF Chat!FilingInv
      <4>2. of[u] = of[t] => of[u] \in mixed
        BY <2>1, <2>4, <3>3 DEF Chat!FilingInv
      <4>3. of[u] # of[t] => filed'[of[u]] = filed[of[u]]
        BY <2>4, <2>5, <2>6
      <4> QED
        BY <2>1, <2>4, <2>5, <2>6, <3>1, <3>3, <4>1, <4>2, <4>3
    <3> QED
      BY <3>2, <3>3
  <2>10. Chat!FilingInv'
    BY <2>9 DEF Chat!FilingInv
  <2> QED
    BY <2>3, <2>10
<1>8. ASSUME NEW t \in Chat!Turns, Chat!FilingFails(t) PROVE Chat!FiledInv' /\ Chat!FilingInv'
  <2>1. t \in DOMAIN filing /\ filing[t] \in {"user", "ai"} /\ UNCHANGED <<cached, answer, of, mixed>>
    BY <1>8 DEF Chat!FilingFails
  <2>2. t \in DOMAIN of /\ \A u \in DOMAIN filing : of[u] \in Systems
    BY <2>1 DEF Chat!TypeOK
  <2>3. DOMAIN filing' = DOMAIN filing \ {t} /\ \A u \in DOMAIN filing' : filing'[u] = filing[u]
    BY <1>8, ChatDropped DEF Chat!FilingFails
  <2>4. CASE filed' = filed
    BY <2>1, <2>3, <2>4 DEF Chat!FiledInv, Chat!FilingInv
  <2>5. CASE filed' = [filed EXCEPT ![of[t]] = Append(@, [turn |-> t, role |-> filing[t]])]
    <3>1. Chat!FiledInv'
      BY <1>6, <2>1, <2>5
    <3>2. /\ \A s \in Systems \ {of[t]} : filed'[s] = filed[s]
          /\ \A s \in Systems : Chat!Range(filed[s]) \subseteq Chat!Range(filed'[s])
      BY <2>1, <2>5, ChatGrown
    <3>3. \A u \in DOMAIN filing' : of[u] = of[t] => of[u] \in mixed
      BY <2>1, <2>3 DEF Chat!FilingInv
    <3>4. Chat!FilingInv'
      BY <2>1, <2>2, <2>3, <3>2, <3>3 DEF Chat!FilingInv
    <3> QED
      BY <3>1, <3>4
  <2> QED
    BY <1>8, <2>4, <2>5 DEF Chat!FilingFails
<1>9. ASSUME NEW t \in Chat!Turns, Chat!Invalidated(t) PROVE Chat!FiledInv' /\ Chat!FilingInv'
  <2>1. t \in DOMAIN filing /\ filing[t] = "refetch" /\ UNCHANGED <<filed, cached, of, mixed>>
        /\ filing' = [filing EXCEPT ![t] = "wait"] /\ Chat!Invalidate(of[t])
    BY <1>9 DEF Chat!Invalidated
  <2>2. of[t] \in Systems
    BY <2>1 DEF Chat!TypeOK
  <2>3. \A s \in Systems : /\ cached'[s] \in {cached[s], answer[s]}
                            /\ answer'[s] \in {<<>>, answer[s], filed[s]}
    BY <2>1, <2>2, ChatInvalidates
  <2>4. DOMAIN filing' \subseteq DOMAIN filing
    BY <2>1 DEF Chat!TypeOK
  <2>5. \A u \in DOMAIN filing' :
           filing'[u] = filing[u] \/ (filing[u] = "refetch" /\ filing'[u] = "wait")
    BY <2>1 DEF Chat!TypeOK
  <2>6. UNCHANGED <<filed, of, mixed>>
    BY <2>1
  <2> QED
    BY <1>2, <2>3, <2>4, <2>5, <2>6, Zenon
<1>12. ASSUME NEW t \in Chat!Turns, Chat!InvalidatedAway(t) PROVE Chat!FiledInv' /\ Chat!FilingInv'
  <2>1. UNCHANGED <<filed, cached, answer, of, mixed>> /\ filing' = Chat!Drop({t})
    BY <1>12 DEF Chat!InvalidatedAway
  <2>2. DOMAIN filing' = DOMAIN filing \ {t} /\ \A u \in DOMAIN filing \ {t} : filing'[u] = filing[u]
    BY <2>1, ChatDropped
  <2> QED
    BY <1>2, <2>1, <2>2
<1> QED
  BY <1>1, <1>3, <1>4, <1>5, <1>7, <1>8, <1>9, <1>10, <1>11, <1>12 DEF Chat!Next

\* Every step keeps the tab to one question at a time.
LEMMA ChatNextAsking ==
    ASSUME Chat!TypeOK, Chat!AskingInv, [Chat!Next]_(Chat!vars)
    PROVE  Chat!AskingInv'
<1> DEFINE open == s4  typing == s8  of == s9  mine == s10  answering == s11
<1> USE DEF Chat!AskingInv, Chat!conversation, Chat!queries
<1>1. ASSUME NEW s \in Systems, \/ Chat!SystemsLoaded(s) \/ Chat!Choose(s)
                                \/ Chat!Serve(s) \/ Chat!Delivered(s) \/ Chat!HistoryFails(s)
      PROVE  Chat!AskingInv'
  BY <1>1 DEF Chat!SystemsLoaded, Chat!Choose, Chat!Serve, Chat!Delivered, Chat!HistoryFails
<1>2. CASE Chat!Leave
  BY <1>2 DEF Chat!Leave, Chat!Unmounted
<1>3. CASE Chat!Mount \/ Chat!Save \/ UNCHANGED Chat!vars
  BY <1>3 DEF Chat!Mount, Chat!Save, Chat!vars
<1>4. ASSUME NEW local \in BOOLEAN, Chat!Send(local) PROVE Chat!AskingInv'
  <2> DEFINE t == Len(of) + 1
  <2>1. open /\ ~typing /\ open' = open /\ mine' = mine \cup {t} /\ (typing' <=> ~local)
    BY <1>4 DEF Chat!Send
  <2>2. mine \cap answering = {} /\ t \notin answering
    BY <2>1 DEF Chat!TypeOK
  <2>3. answering' = IF local THEN answering ELSE answering \cup {t}
    BY <1>4 DEF Chat!Send
  <2> HIDE DEF t
  <2>4. CASE local
    BY <2>1, <2>2, <2>3, <2>4
  <2>5. CASE ~local
    BY <2>1, <2>2, <2>3, <2>5
  <2> QED
    BY <2>4, <2>5
<1>5. ASSUME NEW t \in Chat!Turns, Chat!Answered(t) PROVE Chat!AskingInv'
  <2>1. /\ t \in answering /\ answering' = answering \ {t} /\ open' = open /\ mine' = mine
        /\ t \notin mine /\ typing => typing'
    BY <1>5 DEF Chat!Answered
  <2>2. CASE t \in mine
    BY <2>1, <2>2
  <2>3. CASE t \notin mine
    BY <2>1, <2>3
  <2> QED
    BY <2>2, <2>3
<1>6. ASSUME NEW t \in Chat!Turns, \/ Chat!FileMessage(t) \/ Chat!FilingFails(t)
                                   \/ Chat!Invalidated(t) \/ Chat!InvalidatedAway(t)
      PROVE  Chat!AskingInv'
  BY <1>6 DEF Chat!FileMessage, Chat!FilingFails, Chat!Invalidated, Chat!InvalidatedAway
<1>7. CASE Chat!Saved
  BY <1>7 DEF Chat!Saved, Chat!Unmounted
<1> QED
  BY <1>1, <1>2, <1>3, <1>4, <1>5, <1>6, <1>7 DEF Chat!Next

\* Every step keeps what was said in view.
LEMMA ChatNextShown ==
    ASSUME Chat!ChatAssumption, Chat!TypeOK, Chat!FiledInv, Chat!FilingInv, Chat!AskingInv,
           Chat!ShownInv, [Chat!Next]_(Chat!vars)
    PROVE  Chat!ShownInv'
<1> DEFINE filed == s1  cached == s2  fetch == s3  open == s4  chosen == s6  pending == s7
           typing == s8  of == s9  mine == s10  answering == s11  filing == s12
           disturbed == s16  loaded == s17  invalid == s18  answer == s19
<1> USE DEF Chat!conversation, Chat!queries
<1>0. SUFFICES ASSUME open', ~disturbed' PROVE Chat!ShownInv'
  BY DEF Chat!ShownInv
<1>a. /\ mine \subseteq DOMAIN of /\ DOMAIN filing \subseteq DOMAIN of
           /\ answering \subseteq DOMAIN of
      /\ \A t \in DOMAIN of : of[t] \in Systems
  BY DEF Chat!TypeOK
<1>b. ASSUME open, ~disturbed PROVE
         /\ \A t \in mine \cap answering : Chat!User(t) \in Chat!Range(pending)
              /\ mine \cap DOMAIN filing = {}
         /\ \A t \in mine \cap DOMAIN filing :
               /\ Chat!Turn(t) \subseteq Chat!Range(pending) /\ mine \cap DOMAIN filing = {t}
               /\ filing[t] = "wait" /\ fetch[of[t]] = "read" =>
                     Chat!Turn(t) \subseteq Chat!Range(answer[of[t]])
         /\ \A t \in mine \ (answering \cup DOMAIN filing) :
               /\ Chat!Turn(t) \subseteq Chat!Range(filed[of[t]])
               /\ fetch[of[t]] = "read" => Chat!Turn(t) \subseteq Chat!Range(answer[of[t]])
               /\ of[t] \notin invalid => Chat!Turn(t) \subseteq Chat!Range(cached[of[t]])
  BY <1>b DEF Chat!ShownInv
<1>c. \A t \in DOMAIN filing : filing[t] \in {"refetch", "wait"} =>
         Chat!Turn(t) \subseteq Chat!Range(filed[of[t]])
  BY DEF Chat!FilingInv, Chat!Turn
\* Nothing but what has been asked for, or where a filing has come to, has changed.
<1>d. ASSUME open, ~disturbed, UNCHANGED <<mine, answering, pending, of>>,
             DOMAIN filing' = DOMAIN filing,
             \A t \in mine \cap DOMAIN filing : filing'[t] = filing[t] \/ filing'[t] # "wait",
             \A s \in Systems : /\ Chat!Range(filed[s]) \subseteq Chat!Range(filed'[s])
                                /\ cached'[s] = cached[s]
                                /\ fetch'[s] = "read" => fetch[s] = "read" /\ answer'[s] = answer[s],
             invalid \subseteq invalid'
      PROVE  Chat!ShownInv'
  <2>1. ASSUME NEW t \in mine \cap DOMAIN filing, filing'[t] = "wait", fetch'[of[t]] = "read"
        PROVE  Chat!Turn(t) \subseteq Chat!Range(answer'[of[t]])
    <3>1. of[t] \in Systems
      BY <1>a
    <3> QED
      BY <1>b, <1>d, <2>1, <3>1
  <2>2. ASSUME NEW t \in mine \ (answering \cup DOMAIN filing) PROVE
           /\ Chat!Turn(t) \subseteq Chat!Range(filed'[of[t]])
           /\ fetch'[of[t]] = "read" => Chat!Turn(t) \subseteq Chat!Range(answer'[of[t]])
           /\ of[t] \notin invalid' => Chat!Turn(t) \subseteq Chat!Range(cached'[of[t]])
    <3>1. of[t] \in Systems
      BY <1>a
    <3> QED
      BY <1>b, <1>d, <3>1
  <2> QED
    BY <1>b, <1>d, <2>1, <2>2 DEF Chat!ShownInv
<1>1. ASSUME NEW s \in Systems, Chat!SystemsLoaded(s) PROVE Chat!ShownInv'
  <2>1. open /\ ~disturbed
        /\ UNCHANGED <<mine, answering, filing, pending, filed, cached, answer, invalid, of>>
    BY <1>0, <1>1 DEF Chat!SystemsLoaded
  <2>2. \A u \in Systems : fetch'[u] = "read" => fetch[u] = "read"
    BY <1>1, ChatObserved DEF Chat!SystemsLoaded, Chat!Come
  <2> QED
    BY <1>d, <2>1, <2>2
<1>2. ASSUME NEW s \in Systems, Chat!Serve(s) PROVE Chat!ShownInv'
  <2>1. open /\ ~disturbed
        /\ UNCHANGED <<mine, answering, filing, pending, filed, cached, invalid, of>>
    BY <1>0, <1>2 DEF Chat!Serve
  <2>2. answer'[s] = filed[s]
        /\ \A u \in Systems \ {s} : fetch'[u] = fetch[u] /\ answer'[u] = answer[u]
    BY <1>2 DEF Chat!Serve, Chat!TypeOK
  <2>3. ASSUME NEW t \in mine \cap DOMAIN filing, filing[t] = "wait", fetch'[of[t]] = "read"
        PROVE  Chat!Turn(t) \subseteq Chat!Range(answer'[of[t]])
    <3>1. of[t] \in Systems
      BY <1>a
    <3> QED
      BY <1>b, <1>c, <2>1, <2>2, <2>3, <3>1
  <2>4. ASSUME NEW t \in mine \ (answering \cup DOMAIN filing), fetch'[of[t]] = "read"
        PROVE  Chat!Turn(t) \subseteq Chat!Range(answer'[of[t]])
    <3>1. of[t] \in Systems
      BY <1>a
    <3> QED
      BY <1>b, <2>1, <2>2, <2>4, <3>1
  <2> QED
    BY <1>b, <2>1, <2>3, <2>4 DEF Chat!ShownInv
\* A request ends: what it has read is the cached history, or that is invalid.
<1>14. ASSUME NEW s \in Systems, open, ~disturbed, Chat!FetchEnds(s),
              UNCHANGED <<mine, answering, filed, of>>,
              \/ fetch[s] = "read" /\ cached'[s] = answer[s]
              \/ s \in invalid',
              \A u \in Systems \ {s} : cached'[u] = cached[u] /\ (u \in invalid <=> u \in invalid')
       PROVE  Chat!ShownInv'
  <2>1. /\ fetch'[s] = "idle"
        /\ \A u \in Systems \ {s} : fetch'[u] = fetch[u] /\ answer'[u] = answer[u]
        /\ DOMAIN filing' = DOMAIN filing \ Chat!Waiting(s)
        /\ \A u \in DOMAIN filing' : filing'[u] = filing[u]
    BY <1>14, ChatFetchEnds
  <2>2. Chat!Waiting(s) \cap mine = {} => pending' = pending
    BY <1>14 DEF Chat!FetchEnds
  <2>3. \A t \in DOMAIN filing : t \in Chat!Waiting(s) <=> filing[t] = "wait" /\ of[t] = s
    BY DEF Chat!Waiting
  <2>4. Chat!Waiting(s) \subseteq DOMAIN filing
    BY DEF Chat!Waiting
  <2>5. ASSUME NEW t \in mine \cap answering
        PROVE  Chat!User(t) \in Chat!Range(pending') /\ mine \cap DOMAIN filing' = {}
    <3>1. mine \cap DOMAIN filing = {} /\ Chat!User(t) \in Chat!Range(pending)
      BY <1>b, <1>14
    <3>2. Chat!Waiting(s) \cap mine = {}
      BY <2>4, <3>1
    <3> QED
      BY <2>1, <2>2, <3>1, <3>2
  <2>6. ASSUME NEW t \in mine \cap DOMAIN filing' PROVE
           /\ Chat!Turn(t) \subseteq Chat!Range(pending') /\ mine \cap DOMAIN filing' = {t}
           /\ filing'[t] = "wait" /\ fetch'[of[t]] = "read" =>
                 Chat!Turn(t) \subseteq Chat!Range(answer'[of[t]])
    <3>1. /\ t \in mine \cap DOMAIN filing /\ t \notin Chat!Waiting(s) /\ of[t] \in Systems
          /\ filing'[t] = filing[t]
      BY <1>a, <2>1, <2>6
    <3>2. /\ Chat!Turn(t) \subseteq Chat!Range(pending) /\ mine \cap DOMAIN filing = {t}
          /\ filing[t] = "wait" /\ fetch[of[t]] = "read" =>
                Chat!Turn(t) \subseteq Chat!Range(answer[of[t]])
      BY <1>b, <1>14, <3>1
    <3>3. Chat!Waiting(s) \cap mine = {}
      BY <2>4, <3>1, <3>2
    <3>4. filing'[t] = "wait" => of[t] # s
      BY <2>3, <3>1
    <3>5. pending' = pending /\ mine \cap DOMAIN filing' = {t}
      BY <2>1, <2>2, <2>6, <3>2, <3>3
    <3> QED
      BY <2>1, <3>1, <3>2, <3>4, <3>5
  <2>7. ASSUME NEW t \in mine \ (answering \cup DOMAIN filing') PROVE
           /\ Chat!Turn(t) \subseteq Chat!Range(filed[of[t]])
           /\ fetch'[of[t]] = "read" => Chat!Turn(t) \subseteq Chat!Range(answer'[of[t]])
           /\ of[t] \notin invalid' => Chat!Turn(t) \subseteq Chat!Range(cached'[of[t]])
    <3>1. of[t] \in Systems
      BY <1>a
    <3>2. CASE t \in Chat!Waiting(s)
      <4>1. /\ of[t] = s /\ filing[t] = "wait" /\ t \in mine \cap DOMAIN filing
            /\ fetch[of[t]] = "read" => Chat!Turn(t) \subseteq Chat!Range(answer[of[t]])
        BY <1>b, <1>14, <2>3, <2>4, <3>2
      <4> QED
        BY <1>c, <1>14, <2>1, <4>1
    <3>3. CASE t \notin Chat!Waiting(s)
      <4>1. t \in mine \ (answering \cup DOMAIN filing)
        BY <2>1, <3>3
      <4>2. /\ Chat!Turn(t) \subseteq Chat!Range(filed[of[t]])
            /\ fetch[of[t]] = "read" => Chat!Turn(t) \subseteq Chat!Range(answer[of[t]])
            /\ of[t] \notin invalid => Chat!Turn(t) \subseteq Chat!Range(cached[of[t]])
        BY <1>b, <1>14, <4>1
      <4> QED
        BY <1>14, <2>1, <3>1, <4>2
    <3> QED
      BY <3>2, <3>3
  <2> QED
    BY <1>14, <2>5, <2>6, <2>7 DEF Chat!ShownInv
<1>15. ASSUME NEW s \in Systems, Chat!Delivered(s) PROVE Chat!ShownInv'
  <2>1. open /\ ~disturbed /\ Chat!FetchEnds(s) /\ UNCHANGED <<mine, answering, filed, of>>
    BY <1>0, <1>15 DEF Chat!Delivered
  <2>2. fetch[s] = "read" /\ cached'[s] = answer[s] /\ invalid' = invalid \ {s}
        /\ \A u \in Systems \ {s} : cached'[u] = cached[u]
    BY <1>15 DEF Chat!Delivered, Chat!TypeOK
  <2> QED
    BY <1>14, <2>1, <2>2
<1>16. ASSUME NEW s \in Systems, Chat!HistoryFails(s) PROVE Chat!ShownInv'
  <2>1. open /\ ~disturbed /\ Chat!FetchEnds(s) /\ UNCHANGED <<mine, answering, filed, of, cached>>
        /\ invalid' = invalid \cup {s}
    BY <1>0, <1>16 DEF Chat!HistoryFails
  <2> QED
    BY <1>14, <2>1
<1>3. ASSUME NEW s \in Systems, Chat!Choose(s) PROVE Chat!ShownInv'
  <2>1. /\ open /\ ~typing
        /\ UNCHANGED <<mine, answering, filing, filed, cached, answer, invalid, of>>
    BY <1>3 DEF Chat!Choose
  <2>2. ~disturbed /\ DOMAIN filing = {}
    BY <1>0, <1>3 DEF Chat!Choose
  <2>3. \A u \in Systems : fetch'[u] = "read" => fetch[u] = "read"
    BY <1>3, ChatObserved DEF Chat!Choose, Chat!Come
  <2>4. mine \cap answering = {}
    BY <2>1 DEF Chat!AskingInv
  <2>5. ASSUME NEW t \in mine, fetch'[of[t]] = "read" PROVE fetch[of[t]] = "read"
    BY <1>a, <2>3, <2>5
  <2> QED
    BY <1>b, <2>1, <2>2, <2>4, <2>5 DEF Chat!ShownInv
<1>4. CASE Chat!Leave
  BY <1>0, <1>4 DEF Chat!Leave, Chat!Unmounted
<1>5. CASE Chat!Mount
  <2>1. mine' = {}
    BY <1>5 DEF Chat!Mount, Chat!AskingInv
  <2> QED
    BY <2>1 DEF Chat!ShownInv
<1>6. ASSUME NEW local \in BOOLEAN, Chat!Send(local) PROVE Chat!ShownInv'
  <2> DEFINE t == Len(of) + 1
  <2>1. Chat!Resolved \in Systems
    BY <1>6 DEF Chat!Send, Chat!Resolved, Chat!TypeOK
  <2>2. of \in Seq(Systems) /\ of' = Append(of, Chat!Resolved) /\ pending \in Seq(Chat!Messages)
    BY <1>6 DEF Chat!Send, Chat!TypeOK
  <2>3. t \notin DOMAIN of /\ \A u \in DOMAIN of : of'[u] = of[u]
    BY <2>1, <2>2, ChatAppended
  <2>4. t \in Chat!Turns
    BY <1>6, <2>2 DEF Chat!Send, Chat!Turns, Chat!ChatAssumption
  <2>5. Chat!User(t) \in Chat!Messages /\ Chat!Ai(t) \in Chat!Messages
    BY <2>4 DEF Chat!User, Chat!Ai, Chat!Messages
  <2>6. open /\ ~disturbed /\ DOMAIN filing = {} /\ ~typing
    BY <1>0, <1>6 DEF Chat!Send
  <2>7. mine \cap answering = {}
    BY <2>6 DEF Chat!AskingInv
  <2>8. mine' = mine \cup {t} /\ UNCHANGED <<filed, cached, fetch, answer, invalid>>
    BY <1>6 DEF Chat!Send
  <2>9. \A u \in mine :
           /\ of'[u] = of[u] /\ u # t
           /\ Chat!Turn(u) \subseteq Chat!Range(filed[of[u]])
           /\ fetch[of[u]] = "read" => Chat!Turn(u) \subseteq Chat!Range(answer[of[u]])
           /\ of[u] \notin invalid => Chat!Turn(u) \subseteq Chat!Range(cached[of[u]])
    BY <1>a, <1>b, <2>3, <2>6, <2>7
  <2>10. CASE local
    <3>1. pending' = pending \o <<Chat!User(t), Chat!Ai(t)>> /\ answering' = answering
          /\ filing' = Chat!Start(t)
      BY <1>6, <2>10 DEF Chat!Send
    <3>2. DOMAIN filing' = {t} /\ filing'[t] = "user"
      BY <2>6, <3>1 DEF Chat!Start
    <3> HIDE DEF t
    <3>3. Chat!Range(pending') = Chat!Range(pending) \cup {Chat!User(t), Chat!Ai(t)}
      BY <2>2, <2>5, <3>1, ChatAppendedTwice
    <3>4. mine' \cap answering' = {}
      BY <1>a, <2>3, <2>7, <2>8, <3>1
    <3>5. mine' \cap DOMAIN filing' = {t} /\ Chat!Turn(t) \subseteq Chat!Range(pending')
      BY <2>8, <3>2, <3>3 DEF Chat!Turn
    <3>6. mine' \ (answering' \cup DOMAIN filing') \subseteq mine
      BY <2>8, <3>2
    <3> QED
      BY <2>8, <2>9, <3>2, <3>4, <3>5, <3>6 DEF Chat!ShownInv
  <2>11. CASE ~local
    <3>1. pending' = Append(pending, Chat!User(t)) /\ answering' = answering \cup {t}
          /\ filing' = filing
      BY <1>6, <2>11 DEF Chat!Send
    <3> HIDE DEF t
    <3>2. Chat!Range(pending') = Chat!Range(pending) \cup {Chat!User(t)}
      BY <2>2, <2>5, <3>1, ChatAppended
    <3>3. mine' \cap answering' = {t} /\ mine' \cap DOMAIN filing' = {}
      BY <2>6, <2>7, <2>8, <3>1
    <3>4. mine' \ (answering' \cup DOMAIN filing') \subseteq mine
      BY <2>8, <3>1
    <3> QED
      BY <2>8, <2>9, <3>2, <3>3, <3>4 DEF Chat!ShownInv
  <2> QED
    BY <2>10, <2>11
<1>7. ASSUME NEW t \in Chat!Turns, Chat!Answered(t) PROVE Chat!ShownInv'
  <2>1. /\ t \in answering /\ answering' = answering \ {t} /\ open /\ ~disturbed
        /\ UNCHANGED <<mine, filed, cached, fetch, answer, invalid, of>>
    BY <1>0, <1>7 DEF Chat!Answered
  <2>2. /\ DOMAIN filing' = DOMAIN filing \cup {t} /\ filing'[t] = "user"
        /\ \A u \in DOMAIN filing \ {t} : filing'[u] = filing[u]
    BY <1>7, <1>a, <2>1, ChatBooks DEF Chat!Answered
  <2>3. CASE t \in mine
    <3>1. mine \cap DOMAIN filing = {} /\ Chat!User(t) \in Chat!Range(pending)
      BY <1>b, <2>1, <2>3
    <3>2. mine \cap answering = {t}
      BY <2>1, <2>3 DEF Chat!AskingInv
    <3>3. Chat!Range(pending') = Chat!Range(pending) \cup {Chat!Ai(t)}
      <4>1. pending' = Append(pending, Chat!Ai(t)) /\ pending \in Seq(Chat!Messages)
        BY <1>7, <2>3 DEF Chat!Answered, Chat!TypeOK
      <4>2. Chat!Ai(t) \in Chat!Messages
        BY <1>a, <2>1, ChatBooks
      <4> QED
        BY <4>1, <4>2, ChatAppended
    <3>4. mine \cap answering' = {} /\ mine \cap DOMAIN filing' = {t}
      BY <2>1, <2>2, <2>3, <3>1, <3>2
    <3>5. mine \ (answering' \cup DOMAIN filing') \subseteq mine \ (answering \cup DOMAIN filing)
      BY <2>1, <2>2
    <3>6. Chat!Turn(t) \subseteq Chat!Range(pending')
      BY <3>1, <3>3 DEF Chat!Turn
    <3> QED
      BY <1>b, <2>1, <2>2, <3>4, <3>5, <3>6 DEF Chat!ShownInv
  <2>4. CASE t \notin mine
    <3>1. pending' = pending
      BY <1>7, <2>4 DEF Chat!Answered
    <3>2. mine \cap DOMAIN filing' = mine \cap DOMAIN filing
          /\ mine \cap answering' = mine \cap answering
          /\ mine \ (answering' \cup DOMAIN filing') = mine \ (answering \cup DOMAIN filing)
      BY <2>1, <2>2, <2>4
    <3>3. \A u \in mine \cap DOMAIN filing : filing'[u] = filing[u]
      BY <2>2, <2>4
    <3> QED
      BY <1>b, <2>1, <3>1, <3>2, <3>3 DEF Chat!ShownInv
  <2> QED
    BY <2>3, <2>4
<1>8. ASSUME NEW t \in Chat!Turns, Chat!FileMessage(t) PROVE Chat!ShownInv'
  <2>1. /\ open /\ ~disturbed /\ t \in DOMAIN filing
        /\ UNCHANGED <<mine, answering, pending, cached, fetch, answer, invalid, of>>
    BY <1>0, <1>8 DEF Chat!FileMessage
  <2>2. DOMAIN filing' = DOMAIN filing
        /\ \A u \in DOMAIN filing : filing'[u] = filing[u] \/ filing'[u] # "wait"
    BY <1>8 DEF Chat!FileMessage, Chat!TypeOK
  <2>3. \A s \in Systems : Chat!Range(filed[s]) \subseteq Chat!Range(filed'[s])
    BY <1>8, ChatGrown DEF Chat!FileMessage
  <2> QED
    BY <1>d, <2>1, <2>2, <2>3
<1>9. ASSUME NEW t \in Chat!Turns, Chat!FilingFails(t) PROVE Chat!ShownInv'
  <2>1. /\ open /\ ~disturbed /\ t \in DOMAIN filing
        /\ UNCHANGED <<mine, answering, pending, cached, fetch, answer, invalid, of>>
    BY <1>0, <1>9 DEF Chat!FilingFails
  <2>2. t \notin mine /\ DOMAIN filing' = DOMAIN filing \ {t}
        /\ \A u \in DOMAIN filing \ {t} : filing'[u] = filing[u]
    BY <1>0, <1>9, ChatDropped DEF Chat!FilingFails
  <2>3. \A s \in Systems : Chat!Range(filed[s]) \subseteq Chat!Range(filed'[s])
    BY <1>9, ChatGrown DEF Chat!FilingFails
  <2>4. mine \cap DOMAIN filing' = mine \cap DOMAIN filing
        /\ mine \ (answering \cup DOMAIN filing') = mine \ (answering \cup DOMAIN filing)
    BY <2>2
  <2>5. \A u \in mine : Chat!Range(filed[of[u]]) \subseteq Chat!Range(filed'[of[u]])
    BY <1>a, <2>3
  <2>6. \A u \in mine \cap DOMAIN filing : filing'[u] = filing[u]
    BY <2>2
  <2> QED
    BY <1>b, <2>1, <2>4, <2>5, <2>6 DEF Chat!ShownInv
<1>10. ASSUME NEW t \in Chat!Turns, Chat!Invalidated(t) PROVE Chat!ShownInv'
  <2>1. /\ open /\ ~disturbed /\ t \in DOMAIN filing /\ Chat!Invalidate(of[t])
             /\ filing' = [filing EXCEPT ![t] = "wait"]
        /\ ~(t \in mine /\ fetch[of[t]] = "read" /\ of[t] \notin loaded)
        /\ UNCHANGED <<mine, answering, pending, filed, cached, of>>
    BY <1>0, <1>10 DEF Chat!Invalidated
  <2>2. of[t] \in Systems /\ invalid \subseteq invalid'
    BY <1>a, <2>1 DEF Chat!Invalidate
  <2>3. /\ \A s \in Systems : fetch'[s] = "read" => fetch[s] = "read" /\ answer'[s] = answer[s]
        /\ fetch'[of[t]] = "read" => of[t] \notin loaded
    BY <2>1, <2>2, ChatInvalidates
  <2>4. t \in mine => fetch'[of[t]] # "read"
    BY <2>1, <2>2, <2>3
  <2>5. DOMAIN filing' = DOMAIN filing /\ \A u \in DOMAIN filing \ {t} : filing'[u] = filing[u]
    BY <2>1 DEF Chat!TypeOK
  <2>6. ASSUME NEW u \in mine \cap DOMAIN filing, filing'[u] = "wait", fetch'[of[u]] = "read"
        PROVE  Chat!Turn(u) \subseteq Chat!Range(answer'[of[u]])
    <3>1. of[u] \in Systems /\ u # t
      BY <1>a, <2>4, <2>6
    <3> QED
      BY <1>b, <2>1, <2>3, <2>5, <2>6, <3>1
  <2>7. ASSUME NEW u \in mine \ (answering \cup DOMAIN filing), fetch'[of[u]] = "read"
        PROVE  Chat!Turn(u) \subseteq Chat!Range(answer'[of[u]])
    <3>1. of[u] \in Systems
      BY <1>a
    <3> QED
      BY <1>b, <2>1, <2>3, <2>7, <3>1
  <2> QED
    BY <1>b, <2>1, <2>2, <2>5, <2>6, <2>7 DEF Chat!ShownInv
<1>17. ASSUME NEW t \in Chat!Turns, Chat!InvalidatedAway(t) PROVE Chat!ShownInv'
  <2>1. /\ open /\ ~disturbed /\ t \in DOMAIN filing /\ filing[t] = "refetch"
        /\ invalid' = invalid \cup {of[t]} /\ filing' = Chat!Drop({t})
        /\ pending' = IF t \in mine THEN <<>> ELSE pending
        /\ UNCHANGED <<mine, answering, filed, cached, fetch, answer, of>>
    BY <1>0, <1>17 DEF Chat!InvalidatedAway
  <2>2. t \in mine => fetch[of[t]] # "read"
    BY <1>0, <1>17 DEF Chat!InvalidatedAway
  <2>3. DOMAIN filing' = DOMAIN filing \ {t} /\ \A u \in DOMAIN filing \ {t} : filing'[u] = filing[u]
    BY <2>1, ChatDropped
  <2>4. CASE t \in mine
    <3>1. mine \cap DOMAIN filing = {t} /\ mine \cap answering = {}
      BY <1>b, <2>1, <2>4
    <3>2. mine \cap DOMAIN filing' = {}
      BY <2>3, <3>1
    <3>3. ASSUME NEW u \in mine \ (answering \cup DOMAIN filing') PROVE
             /\ Chat!Turn(u) \subseteq Chat!Range(filed[of[u]])
             /\ fetch[of[u]] = "read" => Chat!Turn(u) \subseteq Chat!Range(answer[of[u]])
             /\ of[u] \notin invalid' => Chat!Turn(u) \subseteq Chat!Range(cached[of[u]])
      <4>1. CASE u = t
        BY <1>c, <2>1, <2>2, <2>4, <4>1
      <4>2. CASE u # t
        <5>1. u \in mine \ (answering \cup DOMAIN filing)
          BY <2>3, <4>2
        <5> QED
          BY <1>b, <2>1, <5>1
      <4> QED
        BY <4>1, <4>2
    <3> QED
      BY <2>1, <3>1, <3>2, <3>3 DEF Chat!ShownInv
  <2>5. CASE t \notin mine
    <3>1. /\ mine \cap DOMAIN filing' = mine \cap DOMAIN filing /\ pending' = pending
          /\ mine \ (answering \cup DOMAIN filing') = mine \ (answering \cup DOMAIN filing)
      BY <2>1, <2>3, <2>5
    <3>2. \A u \in mine \cap DOMAIN filing : filing'[u] = filing[u]
      BY <2>3, <2>5
    <3>3. ASSUME NEW u \in mine \ (answering \cup DOMAIN filing') PROVE
             /\ Chat!Turn(u) \subseteq Chat!Range(filed[of[u]])
             /\ fetch[of[u]] = "read" => Chat!Turn(u) \subseteq Chat!Range(answer[of[u]])
             /\ of[u] \notin invalid' => Chat!Turn(u) \subseteq Chat!Range(cached[of[u]])
      BY <1>b, <2>1, <3>1
    <3>4. ASSUME NEW u \in mine \cap DOMAIN filing' PROVE
             /\ Chat!Turn(u) \subseteq Chat!Range(pending) /\ mine \cap DOMAIN filing' = {u}
             /\ filing'[u] = "wait" /\ fetch[of[u]] = "read" =>
                   Chat!Turn(u) \subseteq Chat!Range(answer[of[u]])
      BY <1>b, <2>1, <3>1, <3>2
    <3>5. \A u \in mine \cap answering : Chat!User(u) \in Chat!Range(pending)
                                            /\ mine \cap DOMAIN filing' = {}
      BY <1>b, <2>1, <3>1
    <3> QED
      BY <2>1, <3>1, <3>3, <3>4, <3>5 DEF Chat!ShownInv
  <2> QED
    BY <2>4, <2>5
<1>11. CASE Chat!Save
  BY <1>b, <1>0, <1>11 DEF Chat!Save, Chat!ShownInv
<1>12. CASE Chat!Saved
  BY <1>b, <1>0, <1>12 DEF Chat!Saved, Chat!Unmounted, Chat!ShownInv
<1>13. CASE UNCHANGED Chat!vars
  BY <1>b, <1>0, <1>13 DEF Chat!vars, Chat!ShownInv
<1> QED
  BY <1>1, <1>2, <1>3, <1>4, <1>5, <1>6, <1>7, <1>8, <1>9, <1>10, <1>11, <1>12, <1>13, <1>15, <1>16,
     <1>17 DEF Chat!Next

\* Every step keeps the invariant.
LEMMA ChatNextIInv ==
    ASSUME Chat!ChatAssumption, Chat!IInv, [Chat!Next]_(Chat!vars)
    PROVE  Chat!IInv'
BY ChatNextTypeOK, ChatNextFiled, ChatNextAsking, ChatNextShown DEF Chat!IInv

\* The invariant implies what is promised.
LEMMA ChatKept ==
    ASSUME Chat!ChatAssumption, Chat!IInv
    PROVE  Chat!TurnsFiledWhole /\ Chat!ConversationKept
<1> DEFINE cached == s2  open == s4  pending == s7  of == s9  mine == s10  answering == s11
           filing == s12  disturbed == s16  invalid == s18
<1>1. Chat!TurnsFiledWhole
  BY DEF Chat!IInv, Chat!FiledInv, Chat!TurnsFiledWhole
<1>2. ASSUME open, ~disturbed, NEW t \in mine, of[t] = Chat!Resolved,
             t \in answering \cup DOMAIN filing \/ Chat!Resolved \notin invalid
      PROVE  Chat!User(t) \in Chat!Shown /\ (t \notin answering => Chat!Ai(t) \in Chat!Shown)
  <2>1. Chat!Resolved # none
    BY <1>2, ChatBooks DEF Chat!IInv, Chat!TypeOK
  <2>2. Chat!Shown = Chat!Range(cached[Chat!Resolved]) \cup Chat!Range(pending)
    BY <2>1 DEF Chat!Shown
  <2>3. /\ t \in answering => Chat!User(t) \in Chat!Range(pending) /\ t \notin DOMAIN filing
        /\ t \in DOMAIN filing => Chat!Turn(t) \subseteq Chat!Range(pending)
        /\ t \notin answering \cup DOMAIN filing =>
              Chat!Turn(t) \subseteq Chat!Range(cached[Chat!Resolved])
    BY <1>2 DEF Chat!IInv, Chat!ShownInv
  <2> QED
    BY <2>2, <2>3 DEF Chat!Turn
<1> QED
  BY <1>1, <1>2 DEF Chat!ConversationKept

-----------------------------------------------------------------------------
(* OrgSettings: configurations under the keys of organizations.            *)

\* What a refetch, and a new observer, do to the requests under the keys.
LEMMA OrgRefetchTypes ==
    ASSUME NEW f \in [Orgs -> Org!Homes], NEW k \in Orgs, NEW h \in Orgs
    PROVE  /\ Org!Refetch(f, k, h) \in [Orgs -> Org!Homes]
                /\ Org!Observe(f, k, h) \in [Orgs -> Org!Homes]
           /\ \A o \in Orgs \ {k} : Org!Refetch(f, k, h)[o] = f[o]
                /\ Org!Observe(f, k, h)[o] = f[o]
           /\ Org!Refetch(f, k, h)[k] \in {f[k], h}
                /\ (f[k] = none => Org!Refetch(f, k, h)[k] = h)
           /\ Org!Observe(f, k, h)[k] = IF f[k] # none THEN f[k] ELSE h
BY DEF Org!Refetch, Org!Observe, Org!Homes

\* Filling the form keeps the fields that no query answers.
LEMMA OrgFilledTypes ==
    ASSUME Org!TypeOK, NEW data \in Org!Data, NEW n \in Orgs
    PROVE  /\ Org!Filled(data) \in [idp : Org!Homes, cert : Org!Homes, on : BOOLEAN, name : Orgs]
           /\ [Org!Filled(data) EXCEPT !.name = n]
                \in [idp : Org!Homes, cert : Org!Homes, on : BOOLEAN, name : Orgs]
BY DEF Org!Filled, Org!TypeOK, Org!Data

\* What a saved form stores is a configuration.
LEMMA OrgStoredTypes ==
    ASSUME Org!TypeOK, s8 \in Org!Saves
    PROVE  Org!Stored(s8) \in Org!Configs /\ s8.to \in Orgs
BY DEF Org!Stored, Org!TypeOK, Org!Saves, Org!Configs

-----------------------------------------------------------------------------
(* Types.                                                                  *)

\* The invariant holds initially.
LEMMA OrgInitIInv == ASSUME Org!SettingsAssumption, Org!Init PROVE Org!IInv
<1> DEFINE active == s1  key == s2  config == s3  name == s4  cached == s5  flight == s6
           form == s7  saving == s8  savingOrg == s9  asking == s10  acts == s11  astray == s12
<1>1. Org!TypeOK
  <2> USE DEF Org!Homes
  <2>1. config \in [Orgs -> Org!Configs] /\ name \in [Orgs -> Orgs]
    BY DEF Org!Init, Org!Configs
  <2>2. flight \in [Orgs -> Org!Homes] /\ active \in Orgs /\ key \in Orgs
    BY DEF Org!Init
  <2>3. cached \in [Orgs -> [from : Org!Homes, idp : Org!Homes, on : BOOLEAN]]
    BY DEF Org!Init, Org!NoData
  <2>4. form \in [idp : Org!Homes, cert : Org!Homes, on : BOOLEAN, name : Orgs]
    BY DEF Org!Init
  <2>5. saving = Org!Idle /\ savingOrg = Org!Idle /\ asking \in BOOLEAN /\ astray \in BOOLEAN
    BY DEF Org!Init
  <2>6. acts \in 0..MaxActs
    BY DEF Org!Init, Org!SettingsAssumption
  <2> QED
    BY <2>1, <2>2, <2>3, <2>4, <2>5, <2>6 DEF Org!TypeOK
<1>2. Org!KeyedInv
  BY DEF Org!Init, Org!KeyedInv
<1> QED
  BY <1>1, <1>2 DEF Org!IInv

\* Every step keeps the types.
LEMMA OrgNextTypeOK ==
    ASSUME Org!SettingsAssumption, Org!TypeOK, [Org!Next]_(Org!vars)
    PROVE  Org!TypeOK'
<1> DEFINE active == s1  key == s2  config == s3  name == s4  cached == s5  flight == s6
           form == s7  saving == s8  acts == s11  astray == s12
<1> USE DEF Org!TypeOK, Org!queries
<1>0. ASSUME Org!Act PROVE acts' \in 0..MaxActs
  BY <1>0 DEF Org!Act, Org!SettingsAssumption
<1>1. ASSUME NEW k \in Orgs, Org!Answered(k) PROVE Org!TypeOK'
  <2>1. CASE UNCHANGED <<cached, form>>
    BY <1>0, <1>1, <2>1 DEF Org!Answered, Org!Homes
  <2> DEFINE d == [from |-> flight[k], idp |-> config[flight[k]].idp, on |-> config[flight[k]].on]
  <2>2. ASSUME cached' = [cached EXCEPT ![k] = d],
               form' = IF k = active /\ d # cached[k] THEN Org!Filled(d) ELSE form,
               UNCHANGED <<acts, astray>>
        PROVE  Org!TypeOK'
    <3>1. d \in Org!Data
      BY <1>1 DEF Org!Answered, Org!Data, Org!Configs, Org!Homes
    <3> HIDE DEF d
    <3>2. form' \in [idp : Org!Homes, cert : Org!Homes, on : BOOLEAN, name : Orgs]
      BY <2>2, <3>1, OrgFilledTypes
    <3>3. cached' \in [Orgs -> Org!Data]
      BY <2>2, <3>1 DEF Org!Data
    <3>4. flight' \in [Orgs -> Org!Homes]
      BY <1>1 DEF Org!Answered, Org!Homes
    <3> QED
      BY <1>1, <2>2, <3>2, <3>3, <3>4 DEF Org!Answered, Org!Data
  <2> QED
    BY <1>1, <2>1, <2>2 DEF Org!Answered
<1>2. ASSUME NEW o \in Orgs, Org!Switch(o) PROVE Org!TypeOK'
  <2>1. flight' \in [Orgs -> Org!Homes]
    BY <1>2, OrgRefetchTypes DEF Org!Switch
  <2>2. cached[o] \in Org!Data
    BY DEF Org!Data
  <2>3. form' \in [idp : Org!Homes, cert : Org!Homes, on : BOOLEAN, name : Orgs]
    BY <1>2, <2>2, OrgFilledTypes DEF Org!Switch
  <2> QED
    BY <1>0, <1>2, <2>1, <2>3 DEF Org!Switch
<1>3. ASSUME NEW o \in Orgs, Org!OtherTabSwitches(o) PROVE Org!TypeOK'
  BY <1>0, <1>3 DEF Org!OtherTabSwitches
<1>4. CASE Org!Refreshed
  <2>1. CASE UNCHANGED <<active, form, flight>> /\ Org!Act
    BY <1>0, <1>4, <2>1 DEF Org!Refreshed
  <2>2. CASE /\ active' = key
             /\ form' = [(IF key = active THEN form ELSE Org!Filled(cached[key])) EXCEPT !.name = name[key]]
             /\ flight' \in {flight, Org!Observe(flight, key, key)} /\ acts' = acts
    <3>1. cached[key] \in Org!Data
      BY DEF Org!Data
    <3>2. form' \in [idp : Org!Homes, cert : Org!Homes, on : BOOLEAN, name : Orgs]
      BY <2>2, <3>1, OrgFilledTypes
    <3>3. flight' \in [Orgs -> Org!Homes]
      <4>1. key \in Orgs /\ flight \in [Orgs -> Org!Homes]
        OBVIOUS
      <4>2. Org!Observe(flight, key, key) \in [Orgs -> Org!Homes]
        BY <4>1, OrgRefetchTypes
      <4> QED
        BY <2>2, <4>1, <4>2
    <3> QED
      BY <1>4, <2>2, <3>2, <3>3 DEF Org!Refreshed
  <2> QED
    BY <1>4, <2>1, <2>2 DEF Org!Refreshed
<1>5. CASE Org!TypeSso
  BY <1>0, <1>5 DEF Org!TypeSso, Org!Homes
<1>6. CASE Org!SaveSso
  BY <1>0, <1>6 DEF Org!SaveSso, Org!Saves, Org!Configs
<1>7. CASE Org!SsoSaved
  <2>1. saving \in Org!Saves
    BY <1>7 DEF Org!SsoSaved
  <2>2. flight' \in [Orgs -> Org!Homes]
    BY <1>7, OrgRefetchTypes DEF Org!SsoSaved
  <2>3. config' \in [Orgs -> Org!Configs]
    BY <1>7, <2>1, OrgStoredTypes DEF Org!SsoSaved
  <2> QED
    BY <1>7, <2>2, <2>3 DEF Org!SsoSaved
<1>8. CASE Org!SsoNotSaved
  BY <1>0, <1>8 DEF Org!SsoNotSaved
<1>9. CASE Org!SaveOrg
  BY <1>0, <1>9 DEF Org!SaveOrg, Org!OrgSaves
<1>10. CASE Org!OrgSaved
  BY <1>10 DEF Org!OrgSaved, Org!OrgSaves
<1>11. CASE Org!OrgNotSaved
  BY <1>0, <1>11 DEF Org!OrgNotSaved
<1>12. CASE UNCHANGED Org!vars
  BY <1>12 DEF Org!vars
<1> QED
  BY <1>1, <1>2, <1>3, <1>4, <1>5, <1>6, <1>7, <1>8, <1>9, <1>10, <1>11, <1>12 DEF Org!Next

-----------------------------------------------------------------------------
(* What the page shows.                                                    *)

\* Every step keeps the request and the data under the active organization's key its own.
LEMMA OrgNextKeyedInv ==
    ASSUME Org!SettingsAssumption, Org!TypeOK, Org!KeyedInv, [Org!Next]_(Org!vars)
    PROVE  Org!KeyedInv'
<1> DEFINE active == s1  key == s2  config == s3  cached == s5  flight == s6  astray == s12
<1> SUFFICES ASSUME ~astray' PROVE Org!KeyedInv'
  BY DEF Org!KeyedInv
<1> USE DEF Org!TypeOK, Org!queries, Org!KeyedInv, Org!SettingsAssumption
<1>1. ASSUME NEW k \in Orgs, Org!Answered(k) PROVE Org!KeyedInv'
  <2>1. active' = active /\ key' = key /\ ~astray /\ flight' = [flight EXCEPT ![k] = none]
    BY <1>1 DEF Org!Answered
  <2>2. CASE k # active
    <3>1. flight'[active] = flight[active] /\ cached'[active] = cached[active]
      BY <1>1, <2>2 DEF Org!Answered
    <3> QED
      BY <2>1, <3>1
  <2>3. CASE k = active
    <3>1. flight[active] = active /\ flight'[active] = none
      BY <1>1, <2>1, <2>3 DEF Org!Answered
    <3>2. cached'[active].from = active
      <4> DEFINE d == [from |-> flight[k], idp |-> config[flight[k]].idp,
                       on |-> config[flight[k]].on]
      <4>1. cached' = [cached EXCEPT ![k] = d]
        BY <1>1, <2>1, <2>3 DEF Org!Answered
      <4>2. cached'[k] = d
        BY <4>1
      <4>3. d.from = active
        BY <2>3, <3>1
      <4> HIDE DEF d
      <4> QED
        BY <2>3, <4>2, <4>3
    <3> QED
      BY <2>1, <3>1, <3>2
  <2> QED
    BY <2>2, <2>3
<1>2. ASSUME NEW o \in Orgs, Org!Switch(o) PROVE Org!KeyedInv'
  <2>1. /\ active' = o /\ key' = o /\ flight[o] \in {none, o} /\ o # active
        /\ flight' = Org!Observe(Org!Refetch(flight, active, o), o, o)
    BY <1>2 DEF Org!Switch
  <2>2. /\ Org!Refetch(flight, active, o) \in [Orgs -> Org!Homes]
        /\ Org!Refetch(flight, active, o)[o] = flight[o]
    BY <2>1, OrgRefetchTypes
  <2> DEFINE f == Org!Refetch(flight, active, o)
  <2>3. flight'[o] = o
    <3>1. f \in [Orgs -> Org!Homes] /\ f[o] \in {none, o} /\ flight' = Org!Observe(f, o, o)
      BY <2>1, <2>2
    <3> HIDE DEF f
    <3>2. Org!Observe(f, o, o)[o] = IF f[o] # none THEN f[o] ELSE o
      BY <3>1, OrgRefetchTypes
    <3> QED
      BY <3>1, <3>2
  <2> QED
    BY <2>1, <2>3
<1>3. ASSUME NEW o \in Orgs, Org!OtherTabSwitches(o) PROVE Org!KeyedInv'
  BY <1>3 DEF Org!OtherTabSwitches
<1>4. CASE Org!Refreshed
  <2>1. key = active /\ ~astray /\ key' = key /\ cached' = cached
    BY <1>4 DEF Org!Refreshed
  <2>2. active' = active /\ flight' = flight
    BY <1>4, <2>1 DEF Org!Refreshed
  <2> QED
    BY <2>1, <2>2
<1>5. CASE Org!SsoSaved
  <2>1. /\ key = active /\ ~astray /\ key' = key /\ active' = active /\ cached' = cached
        /\ flight' = Org!Refetch(flight, active, active)
    BY <1>5 DEF Org!SsoSaved
  <2>2. flight'[active] = active
    <3>1. active \in Orgs /\ flight \in [Orgs -> Org!Homes]
      OBVIOUS
    <3>2. Org!Refetch(flight, active, active)[active] \in {flight[active], active}
          /\ (flight[active] = none => Org!Refetch(flight, active, active)[active] = active)
      BY <3>1, OrgRefetchTypes
    <3> QED
      BY <2>1, <3>2
  <2> QED
    BY <2>1, <2>2
<1>6. CASE Org!TypeSso \/ Org!SaveSso \/ Org!SsoNotSaved \/ Org!SaveOrg \/ Org!OrgSaved
           \/ Org!OrgNotSaved
  BY <1>6 DEF Org!TypeSso, Org!SaveSso, Org!SsoNotSaved, Org!SaveOrg, Org!OrgSaved, Org!OrgNotSaved
<1>7. CASE UNCHANGED Org!vars
  BY <1>7 DEF Org!vars
<1> QED
  BY <1>1, <1>2, <1>3, <1>4, <1>5, <1>6, <1>7 DEF Org!Next

-----------------------------------------------------------------------------
(* Compliance: evaluations, attestations and their caches.                 *)

\* Results, stored or served.
LEMMA CompPartial ==
    /\ Comp!Nothing \in Comp!Results /\ Comp!NoData \in Comp!Evaluations
    /\ \A F \in SUBSET Comp!Frameworks : [F -> BOOLEAN] \subseteq Comp!Results
    /\ \A x \in Comp!Results : DOMAIN x \subseteq Comp!Frameworks /\ x \in [DOMAIN x -> BOOLEAN]
BY DEF Comp!Results, Comp!Nothing, Comp!NoData, Comp!Evaluations

\* What is evaluated, and what is stored of it.
LEMMA CompEvaluates ==
    ASSUME Comp!ComplianceAssumption, Comp!TypeOK, NEW s \in ScansDone, NEW done \in 0..Last
    PROVE  /\ Comp!Evaluated(done) \in Comp!Results /\ Comp!Evaluated(Last) = s1
           /\ Comp!Saved(s, done) \in [ScansDone -> Comp!Results]
<1> DEFINE attested == s1  stored == s2
<1>1. 1..done \subseteq Comp!Frameworks
  BY DEF Comp!Frameworks, Comp!ComplianceAssumption
<1>2. Comp!Evaluated(done) \in [1..done -> BOOLEAN]
  BY <1>1 DEF Comp!Evaluated, Comp!TypeOK
<1>3. Comp!Evaluated(Last) = attested
  BY DEF Comp!Evaluated, Comp!TypeOK, Comp!Frameworks
<1>4. Comp!Saved(s, done) \in [ScansDone -> Comp!Results]
  <2> DEFINE old == stored[s]
             new == [f \in DOMAIN old \cup 1..done |-> IF f <= done THEN attested[f] ELSE old[f]]
  <2>1. old \in Comp!Results /\ DOMAIN old \subseteq Comp!Frameworks
        /\ old \in [DOMAIN old -> BOOLEAN]
    BY CompPartial DEF Comp!TypeOK
  <2> HIDE DEF old
  <2>2. new \in [DOMAIN old \cup 1..done -> BOOLEAN]
    <3> SUFFICES ASSUME NEW f \in DOMAIN old \cup 1..done
                 PROVE  (IF f <= done THEN attested[f] ELSE old[f]) \in BOOLEAN
      OBVIOUS
    <3>1. attested[f] \in BOOLEAN
      BY <1>1, <2>1 DEF Comp!TypeOK
    <3>2. f \notin 1..done => old[f] \in BOOLEAN
      BY <2>1
    <3>3. f \in Nat /\ f >= 1
      BY <1>1, <2>1 DEF Comp!Frameworks
    <3>4. f \in 1..done <=> f <= done
      BY <3>3
    <3> QED
      BY <3>1, <3>2, <3>4
  <2>3. DOMAIN old \cup 1..done \in SUBSET Comp!Frameworks
    BY <1>1, <2>1
  <2>4. new \in Comp!Results
    BY <2>2, <2>3, CompPartial
  <2>5. Comp!Saved(s, done) = [stored EXCEPT ![s] = new]
    BY DEF Comp!Saved, old
  <2> HIDE DEF new
  <2> QED
    BY <2>4, <2>5 DEF Comp!TypeOK
<1> QED
  BY <1>1, <1>2, <1>3, <1>4, CompPartial

\* The invariant holds initially.
LEMMA CompInitIInv == ASSUME Comp!ComplianceAssumption, Comp!Init PROVE Comp!IInv
<1> DEFINE attested == s1  stored == s2  cached == s5  loading == s6  acts == s9  raced == s11
<1>1. Comp!TypeOK
  <2>1. attested \in [Comp!Frameworks -> BOOLEAN] /\ raced \in BOOLEAN
    BY DEF Comp!Init
  <2>2. stored \in [ScansDone -> Comp!Results] /\ cached \in [ScansDone -> Comp!Evaluations]
    BY CompPartial DEF Comp!Init
  <2>3. loading \in [ScansDone -> [phase : {"idle", "sent", "served"}, res : Comp!Results]]
    BY CompPartial DEF Comp!Init, Comp!Sent, Comp!Idle
  <2>4. acts \in 0..ComplianceActs
    BY DEF Comp!Init, Comp!ComplianceAssumption
  <2> QED
    BY <2>1, <2>2, <2>3, <2>4 DEF Comp!Init, Comp!TypeOK
<1>2. Comp!CrossedInv /\ Comp!CountedInv
  BY DEF Comp!Init, Comp!CrossedInv, Comp!CountedInv, Comp!NoData
<1> QED
  BY <1>1, <1>2 DEF Comp!IInv

\* Every step keeps the types.
LEMMA CompNextTypeOK ==
    ASSUME Comp!ComplianceAssumption, Comp!TypeOK, [Comp!Next]_(Comp!vars)
    PROVE  Comp!TypeOK'
<1> DEFINE attested == s1  stored == s2  cached == s5  loading == s6  refreshes == s7
           attests == s8  acts == s9  at == s10  raced == s11  crossed == s12
<1> DEFINE Refreshes == [id : 1..ComplianceActs, of : ScansDone, key : ScansDone, watched : BOOLEAN,
                         served : BOOLEAN, res : Comp!Results]
           Loads == [phase : {"idle", "sent", "served"}, res : Comp!Results]
<1> USE DEF Comp!server, Comp!page, Comp!requests, Comp!history
<1>a. ASSUME Comp!Act PROVE acts' \in 1..ComplianceActs /\ acts' \in 0..ComplianceActs
  BY <1>a DEF Comp!Act, Comp!TypeOK, Comp!ComplianceAssumption
<1>b. Comp!Active \in ScansDone /\ refreshes \subseteq Refreshes /\ Comp!Sent \in Loads
      /\ Comp!Idle \in Loads
  BY CompPartial DEF Comp!Active, Comp!TypeOK, Comp!Sent, Comp!Idle
<1>c. ASSUME NEW id \in 1..ComplianceActs, Comp!StartRefresh(id)
      PROVE  refreshes' \subseteq Refreshes /\ raced' \in BOOLEAN
  <2>1. \A r \in refreshes : [r EXCEPT !.watched = FALSE] \in Refreshes
    BY <1>b
  <2>2. [id |-> id, of |-> Comp!Active, key |-> Comp!Active, watched |-> TRUE, served |-> FALSE,
         res |-> Comp!Nothing] \in Refreshes
    BY <1>b, CompPartial
  <2>3. raced' \in BOOLEAN
    BY <1>c DEF Comp!StartRefresh
  <2> HIDE DEF Refreshes
  <2> QED
    BY <1>c, <2>1, <2>2, <2>3 DEF Comp!StartRefresh
<1>d. ASSUME NEW s \in ScansDone, Comp!Move(s)
      PROVE  /\ loading' \in [ScansDone -> Loads] /\ refreshes' \subseteq Refreshes
             /\ at' \in ScansDone \cup {none} /\ crossed' \subseteq ScansDone
             /\ UNCHANGED <<Comp!server, cached, attests, raced>>
  <2>1. loading' \in [ScansDone -> Loads]
    BY <1>b, <1>d DEF Comp!Move, Comp!Show, Comp!TypeOK
  <2>2. \A r \in refreshes : [r EXCEPT !.key = s] \in Refreshes
    BY <1>b
  <2> HIDE DEF Refreshes
  <2>3. refreshes' \subseteq Refreshes
    BY <1>b, <1>d, <2>2 DEF Comp!Move, Comp!Rebound
  <2> QED
    BY <1>d, <2>1, <2>3 DEF Comp!Move, Comp!TypeOK
<1>1. ASSUME NEW s \in ScansDone, Comp!ServeEvaluation(s) PROVE Comp!TypeOK'
  <2>1. Comp!Evaluated(Last) \in Comp!Results
        /\ Comp!Saved(s, Last) \in [ScansDone -> Comp!Results] /\ stored[s] \in Comp!Results
    BY CompEvaluates DEF Comp!ComplianceAssumption, Comp!TypeOK
  <2>2. stored' \in [ScansDone -> Comp!Results] /\ loading' \in [ScansDone -> Loads]
    BY <1>1, <2>1 DEF Comp!ServeEvaluation, Comp!TypeOK
  <2> QED
    BY <1>1, <2>2 DEF Comp!ServeEvaluation, Comp!TypeOK
<1>2. ASSUME NEW s \in ScansDone, Comp!FailEvaluation(s) PROVE Comp!TypeOK'
  <2>1. stored' \in [ScansDone -> Comp!Results]
    BY <1>2, CompEvaluates DEF Comp!FailEvaluation, Comp!TypeOK
  <2>2. loading' \in [ScansDone -> Loads]
    BY <1>2, <1>b DEF Comp!FailEvaluation, Comp!TypeOK
  <2> QED
    BY <1>2, <1>a, <2>1, <2>2 DEF Comp!FailEvaluation, Comp!TypeOK
<1>3. ASSUME NEW s \in ScansDone, Comp!Loaded(s) PROVE Comp!TypeOK'
  <2>1. loading' \in [ScansDone -> Loads] /\ loading[s].res \in Comp!Results
    BY <1>3, <1>b DEF Comp!Loaded, Comp!TypeOK
  <2>2. [of |-> s, res |-> loading[s].res] \in Comp!Evaluations
    BY <2>1 DEF Comp!Evaluations
  <2>3. cached' \in [ScansDone -> Comp!Evaluations]
    BY <1>3, <2>2 DEF Comp!Loaded, Comp!TypeOK
  <2> QED
    BY <1>3, <2>1, <2>3 DEF Comp!Loaded, Comp!TypeOK
<1>4. ASSUME NEW s \in ScansDone, Comp!Select(s) PROVE Comp!TypeOK'
  BY <1>4, <1>a, <1>d DEF Comp!Select, Comp!TypeOK
<1>5. ASSUME NEW s \in ScansDone, Comp!NewScan(s) PROVE Comp!TypeOK'
  BY <1>5, <1>a, <1>d DEF Comp!NewScan, Comp!TypeOK
<1>6. ASSUME NEW r \in refreshes, Comp!ServeRefresh(r) PROVE Comp!TypeOK'
  <2>1. r \in Refreshes /\ r.of \in ScansDone
    BY <1>b
  <2>2. Comp!Evaluated(Last) \in Comp!Results
        /\ Comp!Saved(r.of, Last) \in [ScansDone -> Comp!Results]
    BY <2>1, CompEvaluates DEF Comp!ComplianceAssumption
  <2>3. [r EXCEPT !.served = TRUE, !.res = Comp!Evaluated(Last)] \in Refreshes
    BY <2>1, <2>2
  <2> QED
    BY <1>6, <1>b, <2>2, <2>3 DEF Comp!ServeRefresh, Comp!TypeOK
<1>7. ASSUME NEW r \in refreshes, Comp!FailRefresh(r) PROVE Comp!TypeOK'
  <2>1. stored' \in [ScansDone -> Comp!Results]
    BY <1>7, <1>b, CompEvaluates DEF Comp!FailRefresh
  <2>2. raced' \in BOOLEAN
    BY <1>7 DEF Comp!FailRefresh
  <2> QED
    BY <1>7, <1>a, <2>1, <2>2 DEF Comp!FailRefresh, Comp!TypeOK
<1>8. ASSUME NEW r \in refreshes, Comp!Refreshed(r) PROVE Comp!TypeOK'
  <2>1. [of |-> r.of, res |-> r.res] \in Comp!Evaluations /\ r.key \in ScansDone
    BY <1>b DEF Comp!Evaluations
  <2> QED
    BY <1>8, <2>1 DEF Comp!Refreshed, Comp!TypeOK
<1>9. ASSUME NEW a \in attests, Comp!SaveAttestation(a) PROVE Comp!TypeOK'
  <2>1. attested' \in [Comp!Frameworks -> BOOLEAN]
    BY <1>9 DEF Comp!SaveAttestation, Comp!TypeOK
  <2>2. [a EXCEPT !.saved = TRUE]
        \in [id : 1..ComplianceActs, framework : Comp!Frameworks, value : BOOLEAN, saved : BOOLEAN]
    BY DEF Comp!TypeOK
  <2> QED
    BY <1>9, <2>1, <2>2 DEF Comp!SaveAttestation, Comp!TypeOK
<1>10. ASSUME NEW a \in attests, Comp!Attested(a) PROVE Comp!TypeOK'
  <2>1. a.id \in 1..ComplianceActs
    BY DEF Comp!TypeOK
  <2> QED
    BY <1>10, <1>c, <2>1 DEF Comp!Attested, Comp!TypeOK
<1>11. ASSUME NEW a \in attests, Comp!NotAttested(a) PROVE Comp!TypeOK'
  <2>1. raced' \in BOOLEAN
    BY <1>11 DEF Comp!NotAttested
  <2> QED
    BY <1>11, <1>a, <2>1 DEF Comp!NotAttested, Comp!TypeOK
<1>12. CASE Comp!Refresh
  BY <1>12, <1>a, <1>c DEF Comp!Refresh, Comp!TypeOK
<1>13. ASSUME NEW f \in Comp!Frameworks, Comp!Attest(f) PROVE Comp!TypeOK'
  <2>1. cached[Comp!Active].res \in Comp!Results
    BY <1>b, CompPartial DEF Comp!TypeOK, Comp!Evaluations, Comp!NoData
  <2>2. (~cached[Comp!Active].res[f]) \in BOOLEAN
    OBVIOUS
  <2>3. [id |-> acts', framework |-> f, value |-> ~cached[Comp!Active].res[f], saved |-> FALSE]
          \in [id : 1..ComplianceActs, framework : Comp!Frameworks, value : BOOLEAN, saved : BOOLEAN]
    BY <1>13, <1>a, <2>2 DEF Comp!Attest
  <2> QED
    BY <1>13, <1>a, <1>b, <2>3 DEF Comp!Attest, Comp!TypeOK
<1>14. CASE UNCHANGED Comp!vars
  BY <1>14 DEF Comp!vars, Comp!TypeOK
<1> QED
  BY <1>1, <1>2, <1>3, <1>4, <1>5, <1>6, <1>7, <1>8, <1>9, <1>10, <1>11, <1>12, <1>13, <1>14
    DEF Comp!Next

\* Every step keeps the evaluations of other scans to where the page crossed.
LEMMA CompNextCrossed ==
    ASSUME Comp!TypeOK, Comp!CrossedInv, [Comp!Next]_(Comp!vars)
    PROVE  Comp!CrossedInv'
<1> DEFINE cached == s5  refreshes == s7  attests == s8  crossed == s12
<1> USE DEF Comp!server, Comp!page, Comp!requests, Comp!history
<1>0. ASSUME UNCHANGED <<refreshes, cached, crossed>> PROVE Comp!CrossedInv'
  BY <1>0 DEF Comp!CrossedInv
<1>a. \A r \in refreshes : r
      \in [id : 1..ComplianceActs, of : ScansDone, key : ScansDone, watched : BOOLEAN,
                                  served : BOOLEAN, res : Comp!Results]
  BY DEF Comp!TypeOK
<1>b. ASSUME NEW s \in ScansDone, Comp!Move(s) PROVE Comp!CrossedInv'
  <2>1. cached' = cached /\ crossed \subseteq crossed' /\ refreshes' = Comp!Rebound(s)
    BY <1>b DEF Comp!Move
  <2>2. ASSUME NEW q \in refreshes' PROVE q.key \in crossed' \cup {q.of}
    <3>1. PICK r \in refreshes : q = IF r.watched THEN [r EXCEPT !.key = s] ELSE r
      BY <2>1 DEF Comp!Rebound
    <3>2. CASE r.watched
      <4>1. q.key = s /\ q.of = r.of
        BY <1>a, <3>1, <3>2
      <4>2. r.of # s => s \in crossed'
        BY <1>b, <3>2 DEF Comp!Move, Comp!Waits
      <4> QED
        BY <4>1, <4>2
    <3>3. CASE ~r.watched
      BY <2>1, <3>1, <3>3 DEF Comp!CrossedInv
    <3> QED
      BY <3>2, <3>3
  <2> QED
    BY <2>1, <2>2 DEF Comp!CrossedInv
<1>c. ASSUME NEW id, Comp!StartRefresh(id), UNCHANGED <<cached, crossed>> PROVE Comp!CrossedInv'
  <2>1. ASSUME NEW q \in refreshes' PROVE q.key \in crossed' \cup {q.of}
    <3>1. CASE \E r \in refreshes : q = [r EXCEPT !.watched = FALSE]
      <4>1. PICK r \in refreshes : q = [r EXCEPT !.watched = FALSE]
        BY <3>1
      <4>2. q.key = r.key /\ q.of = r.of
        BY <1>a, <4>1
      <4> QED
        BY <1>c, <4>2 DEF Comp!CrossedInv
    <3>2. CASE q.key = q.of
      BY <3>2
    <3> QED
      BY <1>c, <3>1, <3>2 DEF Comp!StartRefresh
  <2> QED
    BY <1>c, <2>1 DEF Comp!CrossedInv
<1>1. ASSUME NEW s \in ScansDone, Comp!ServeEvaluation(s) \/ Comp!FailEvaluation(s)
      PROVE  Comp!CrossedInv'
  BY <1>0, <1>1 DEF Comp!ServeEvaluation, Comp!FailEvaluation
<1>2. ASSUME NEW s \in ScansDone, Comp!Loaded(s) PROVE Comp!CrossedInv'
  BY <1>2 DEF Comp!Loaded, Comp!CrossedInv, Comp!TypeOK
<1>3. ASSUME NEW s \in ScansDone, Comp!Select(s) \/ Comp!NewScan(s) PROVE Comp!CrossedInv'
  BY <1>0, <1>3, <1>b DEF Comp!Select, Comp!NewScan
<1>4. ASSUME NEW r \in refreshes, Comp!ServeRefresh(r) PROVE Comp!CrossedInv'
  <2> DEFINE q == [r EXCEPT !.served = TRUE, !.res = Comp!Evaluated(Last)]
  <2>1. q.key = r.key /\ q.of = r.of
    BY <1>a
  <2> HIDE DEF q
  <2>2. refreshes' = (refreshes \ {r}) \cup {q} /\ UNCHANGED <<cached, crossed>>
    BY <1>4 DEF Comp!ServeRefresh, q
  <2> QED
    BY <2>1, <2>2 DEF Comp!CrossedInv
<1>5. ASSUME NEW r \in refreshes, Comp!FailRefresh(r) PROVE Comp!CrossedInv'
  BY <1>5 DEF Comp!FailRefresh, Comp!CrossedInv
<1>6. ASSUME NEW r \in refreshes, Comp!Refreshed(r) PROVE Comp!CrossedInv'
  <2>1. r.key \in crossed \cup {r.of} /\ r.key \in ScansDone
    BY <1>a DEF Comp!CrossedInv
  <2>2. /\ \A s \in ScansDone : cached'[s] = IF s = r.key THEN [of |-> r.of, res |-> r.res] ELSE cached[s]
        /\ crossed' = crossed /\ refreshes' \subseteq refreshes
    BY <1>6 DEF Comp!Refreshed, Comp!TypeOK
  <2> QED
    BY <2>1, <2>2 DEF Comp!CrossedInv
<1>7. ASSUME NEW a \in attests, Comp!SaveAttestation(a) \/ Comp!NotAttested(a)
      PROVE  Comp!CrossedInv'
  BY <1>0, <1>7 DEF Comp!SaveAttestation, Comp!NotAttested
<1>8. ASSUME NEW a \in attests, Comp!Attested(a) PROVE Comp!CrossedInv'
  BY <1>8, <1>c DEF Comp!Attested
<1>9. CASE Comp!Refresh
  BY <1>9, <1>c DEF Comp!Refresh
<1>10. ASSUME NEW f \in Comp!Frameworks, Comp!Attest(f) PROVE Comp!CrossedInv'
  BY <1>0, <1>10 DEF Comp!Attest
<1>11. CASE UNCHANGED Comp!vars
  BY <1>0, <1>11 DEF Comp!vars
<1> QED
  BY <1>1, <1>2, <1>3, <1>4, <1>5, <1>6, <1>7, <1>8, <1>9, <1>10, <1>11 DEF Comp!Next

\* Every step keeps account of the attestations.
LEMMA CompNextCounted ==
    ASSUME Comp!ComplianceAssumption, Comp!TypeOK, Comp!CountedInv, [Comp!Next]_(Comp!vars)
    PROVE  Comp!CountedInv'
<1> DEFINE attested == s1  selected == s4  cached == s5  loading == s6  refreshes == s7
           attests == s8  at == s10  raced == s11
<1> USE DEF Comp!server, Comp!page, Comp!requests, Comp!history
<1>0. ASSUME UNCHANGED <<Comp!server, Comp!page, cached, Comp!requests, at, raced>>
      PROVE  Comp!CountedInv'
  BY <1>0 DEF Comp!CountedInv, Comp!Active
<1>a. Comp!Active \in ScansDone
  BY DEF Comp!Active, Comp!TypeOK
<1>b. ASSUME NEW s \in ScansDone, Comp!Move(s) PROVE Comp!CountedInv'
  BY <1>b DEF Comp!Move, Comp!CountedInv
<1>c. ASSUME NEW id, Comp!StartRefresh(id), UNCHANGED <<Comp!server, Comp!page, at, loading>>
      PROVE  Comp!CountedInv'
  <2>1. Comp!Active' = Comp!Active /\ at' \in {none, Comp!Active'}
    BY <1>c DEF Comp!Active, Comp!CountedInv
  <2>2. ASSUME at # none, ~raced' PROVE
           /\ \A s \in ScansDone : loading'[s] = Comp!Idle
           /\ \E r \in refreshes' : refreshes' = {r} /\ r.of = at' /\ r.key = at' /\ ~r.served
    <3>1. refreshes = {} /\ \A s \in ScansDone : loading[s] = Comp!Idle
      BY <1>c, <2>2 DEF Comp!StartRefresh
    <3>2. at = Comp!Active
      BY <2>2 DEF Comp!CountedInv
    <3>3. refreshes' = {[id |-> id, of |-> Comp!Active, key |-> Comp!Active, watched |-> TRUE, served |-> FALSE,
                         res |-> Comp!Nothing]}
      BY <1>c, <3>1 DEF Comp!StartRefresh
    <3> QED
      BY <1>c, <3>1, <3>2, <3>3
  <2> QED
    BY <1>c, <2>1, <2>2 DEF Comp!CountedInv
<1>1. ASSUME NEW s \in ScansDone, Comp!ServeEvaluation(s) \/ Comp!FailEvaluation(s) \/ Comp!Loaded(s)
      PROVE  Comp!CountedInv'
  <2>1. /\ UNCHANGED <<Comp!page, attests, at, raced>>
        /\ loading[s].phase # "idle"
    BY <1>1 DEF Comp!ServeEvaluation, Comp!FailEvaluation, Comp!Loaded
  <2>2. loading[s] # Comp!Idle
    BY <2>1 DEF Comp!Idle
  <2> QED
    BY <2>1, <2>2 DEF Comp!CountedInv, Comp!Active
<1>2. ASSUME NEW s \in ScansDone, Comp!Select(s) PROVE Comp!CountedInv'
  BY <1>2, <1>b DEF Comp!Select
<1>3. ASSUME NEW s \in ScansDone, Comp!NewScan(s) PROVE Comp!CountedInv'
  <2>1. CASE Comp!Move(s)
    BY <1>b, <2>1
  <2>2. CASE selected # none
             /\ UNCHANGED <<Comp!server, cached, Comp!requests, Comp!history, selected>>
    <3>1. Comp!Active' = Comp!Active
      BY <2>2 DEF Comp!Active
    <3> QED
      BY <2>2, <3>1 DEF Comp!CountedInv
  <2> QED
    BY <1>3, <2>1, <2>2 DEF Comp!NewScan
<1>4. ASSUME NEW r \in refreshes, Comp!ServeRefresh(r) PROVE Comp!CountedInv'
  <2> DEFINE q == [r EXCEPT !.served = TRUE, !.res = Comp!Evaluated(Last)]
  <2>1. r.of \in ScansDone /\ Comp!Evaluated(Last) = attested
    BY CompEvaluates DEF Comp!TypeOK, Comp!ComplianceAssumption
  <2>2. q.key = r.key /\ q.of = r.of /\ q.res = attested
    BY <2>1 DEF Comp!TypeOK
  <2>3. /\ refreshes' = (refreshes \ {r}) \cup {q}
        /\ UNCHANGED <<attested, Comp!page, cached, loading, attests, at, raced>>
    BY <1>4 DEF Comp!ServeRefresh
  <2> HIDE DEF q
  <2>4. refreshes = {r} => refreshes' = {q}
    BY <2>3
  <2>5. CASE at # none /\ ~raced /\ attests = {}
    <3>1. refreshes = {r} /\ r.of = at /\ r.key = at
          /\ \A s \in ScansDone : loading[s] = Comp!Idle
      BY <2>5 DEF Comp!CountedInv
    <3> QED
      BY <2>2, <2>3, <2>4, <2>5, <3>1 DEF Comp!CountedInv, Comp!Active
  <2>6. CASE ~(at # none /\ ~raced /\ attests = {})
    BY <2>3, <2>6 DEF Comp!CountedInv, Comp!Active
  <2> QED
    BY <2>5, <2>6
<1>5. ASSUME NEW r \in refreshes, Comp!FailRefresh(r) PROVE Comp!CountedInv'
  BY <1>5 DEF Comp!FailRefresh, Comp!CountedInv, Comp!Active
<1>6. ASSUME NEW r \in refreshes, Comp!Refreshed(r) PROVE Comp!CountedInv'
  <2>1. /\ r.served /\ refreshes' = refreshes \ {r}
        /\ cached' = [cached EXCEPT ![r.key] = [of |-> r.of, res |-> r.res]]
        /\ UNCHANGED <<Comp!server, Comp!page, loading, attests, at, raced>>
    BY <1>6 DEF Comp!Refreshed
  <2>2. CASE at # none /\ ~raced /\ attests = {}
    <3>1. /\ refreshes = {r} /\ r.of = at /\ r.key = at
               /\ \A s \in ScansDone : loading[s] = Comp!Idle
          /\ r.res = attested
      BY <2>1, <2>2 DEF Comp!CountedInv
    <3>2. r.key \in ScansDone
      BY DEF Comp!TypeOK
    <3>3. cached'[at] = [of |-> at, res |-> attested]
      BY <2>1, <3>1, <3>2 DEF Comp!TypeOK
    <3>4. refreshes' = {}
      BY <2>1, <3>1
    <3> QED
      BY <2>1, <2>2, <3>1, <3>3, <3>4 DEF Comp!CountedInv, Comp!Active
  <2>3. CASE ~(at # none /\ ~raced /\ attests = {})
    BY <2>1, <2>3 DEF Comp!CountedInv, Comp!Active
  <2> QED
    BY <2>2, <2>3
<1>7. ASSUME NEW a \in attests, Comp!SaveAttestation(a) PROVE Comp!CountedInv'
  <2>1. attests' # {} /\ UNCHANGED <<Comp!page, at>>
    BY <1>7 DEF Comp!SaveAttestation
  <2> QED
    BY <2>1 DEF Comp!CountedInv, Comp!Active
<1>8. ASSUME NEW a \in attests, Comp!NotAttested(a) PROVE Comp!CountedInv'
  BY <1>8 DEF Comp!NotAttested, Comp!CountedInv, Comp!Active
<1>9. ASSUME NEW a \in attests, Comp!Attested(a) PROVE Comp!CountedInv'
  BY <1>9, <1>c DEF Comp!Attested
<1>10. CASE Comp!Refresh
  BY <1>10, <1>c DEF Comp!Refresh
<1>11. ASSUME NEW f \in Comp!Frameworks, Comp!Attest(f) PROVE Comp!CountedInv'
  <2>1. attests' # {} /\ at' = Comp!Active' /\ Comp!Active' = Comp!Active
    BY <1>11 DEF Comp!Attest, Comp!Active
  <2> QED
    BY <2>1 DEF Comp!CountedInv
<1>12. CASE UNCHANGED Comp!vars
  BY <1>0, <1>12 DEF Comp!vars
<1> QED
  BY <1>1, <1>2, <1>3, <1>4, <1>5, <1>6, <1>7, <1>8, <1>9, <1>10, <1>11, <1>12 DEF Comp!Next

\* Every step keeps the invariant.
LEMMA CompNextIInv ==
    ASSUME Comp!ComplianceAssumption, Comp!IInv, [Comp!Next]_(Comp!vars)
    PROVE  Comp!IInv'
BY CompNextTypeOK, CompNextCrossed, CompNextCounted DEF Comp!IInv

\* The invariant implies what is promised.
LEMMA CompFits == ASSUME Comp!ComplianceAssumption, Comp!IInv PROVE Comp!EvaluationFits
<1> DEFINE attested == s1  cached == s5  at == s10  raced == s11
<1>1. Comp!Active \in ScansDone /\ Comp!Active # none
  BY DEF Comp!IInv, Comp!TypeOK, Comp!Active, Comp!ComplianceAssumption
<1>2. ASSUME Comp!Quiet, at = Comp!Active, ~raced PROVE cached[at] = [of |-> at, res |-> attested]
  BY <1>1, <1>2 DEF Comp!IInv, Comp!CountedInv, Comp!Quiet
<1> QED
  BY <1>2 DEF Comp!IInv, Comp!CrossedInv, Comp!EvaluationFits

-----------------------------------------------------------------------------
(* EventLog: pages cut out of a log that grows.                            *)

\* Sizes of finite sets of numbers.
LEMMA LogCounts ==
    ASSUME NEW n \in Nat, NEW T \in SUBSET (1..n), NEW S \in SUBSET T
    PROVE  /\ Log!Cardinality(S) \in Nat /\ Log!Cardinality(T) \in Nat
                /\ Log!Cardinality(S) <= Log!Cardinality(T)
           /\ S # {} => 0 < Log!Cardinality(S)
<1>0. \A X : Log!Cardinality(X) = Cardinality(X)
  BY DEF Log!Cardinality, Cardinality
<1>1. IsFiniteSet(1..n)
  BY FS_Interval
<1>2. IsFiniteSet(T) /\ IsFiniteSet(S)
  BY <1>1, FS_Subset
<1>3. Log!Cardinality(S) \in Nat /\ Log!Cardinality(T) \in Nat
      /\ Log!Cardinality(S) <= Log!Cardinality(T)
  BY <1>0, <1>2, FS_Subset, FS_CardinalityType
<1>4. S # {} => Log!Cardinality(S) # 0
  BY <1>0, <1>2, FS_EmptySet
<1> QED
  BY <1>3, <1>4

\* What the types say of single variables.
LEMMA LogBounds ==
    ASSUME Log!LogAssumption, Log!TypeOK
    PROVE  /\ MaxEvents \in Nat /\ PageSize \in Nat /\ LogActs \in Nat /\ s10 \in 0..LogActs
           /\ 0 \in Log!Pages /\ s3 \in Log!Pages /\ s3 \in Nat /\ <<s2, s3>> \in Log!Keys
           /\ \A f \in Filters : <<f, 0>> \in Log!Keys
           /\ Log!Act => s10' \in 0..LogActs
           /\ DOMAIN s4 = Log!Keys /\ DOMAIN s6 = Log!Keys
           /\ \A k \in Log!Keys : k[1] \in Filters /\ k[2] \in Nat /\ k[2] \in Log!Pages
<1> DEFINE filter == s2  page == s3  cached == s4  fetch == s6  acts == s10
<1>1. /\ MaxEvents \in Nat /\ PageSize \in Nat /\ LogActs \in Nat /\ acts \in 0..LogActs
      /\ page \in Log!Pages /\ filter \in Filters
  BY DEF Log!TypeOK, Log!LogAssumption
<1>2. Log!Act => acts' \in 0..LogActs
  BY <1>1 DEF Log!Act
<1>3. \A k \in Log!Keys : k[1] \in Filters /\ k[2] \in Log!Pages
  BY DEF Log!Keys
<1>4. DOMAIN cached = Log!Keys /\ DOMAIN fetch = Log!Keys
  BY DEF Log!TypeOK
<1> QED
  BY <1>1, <1>2, <1>3, <1>4 DEF Log!Pages, Log!Keys

\* The events of the log, and what is counted of them.
LEMMA LogRanks ==
    ASSUME Log!LogAssumption, Log!TypeOK, NEW f, NEW of \in SUBSET Log!ToSet(s1),
           NEW of2 \in SUBSET Log!ToSet(s1), of \subseteq of2, NEW e
    PROVE  /\ Log!Cardinality(Log!Ahead(s1, of, f, e)) \in Nat
           /\ Log!Cardinality(Log!Ahead(s1, of, f, e)) <= Log!Cardinality(Log!Ahead(s1, of2, f, e))
           /\ Log!Cardinality(Log!Ahead(s1, of, f, e)) <= Log!Cardinality(of \cap Matches[f])
           /\ Log!Cardinality(of \cap Matches[f]) \in Nat
                /\ Log!Cardinality(Log!Ahead(s1, of2, f, e)) \in Nat
           /\ e \in of \cap Matches[f] => 0 < Log!Cardinality(Log!Ahead(s1, of, f, e))
<1> DEFINE log == s1
<1> DEFINE n == Len(log)
           A == Log!Ahead(log, of, f, e)
           B == Log!Ahead(log, of2, f, e)
           C == of \cap Matches[f]
<1>1. n \in Nat /\ Log!ToSet(log) \subseteq 1..n
  BY DEF Log!TypeOK
<1>2. A \subseteq B /\ A \subseteq C /\ C \subseteq 1..n /\ B \subseteq 1..n
  BY <1>1 DEF Log!Ahead
<1>3. e \in C => e \in A
  <2> SUFFICES ASSUME e \in C PROVE e \in Log!Upto(log, e)
    BY DEF Log!Ahead
  <2>1. PICK i \in DOMAIN log : log[i] = e
    BY DEF Log!ToSet
  <2>2. i <= i
    BY DEF Log!TypeOK
  <2> QED
    BY <2>1, <2>2 DEF Log!Upto
<1> HIDE DEF n, A, B, C
<1>4. Log!Cardinality(A) \in Nat /\ Log!Cardinality(B) \in Nat
      /\ Log!Cardinality(A) <= Log!Cardinality(B)
  BY <1>1, <1>2, LogCounts
<1>5. Log!Cardinality(C) \in Nat /\ Log!Cardinality(A) <= Log!Cardinality(C)
      /\ (A # {} => 0 < Log!Cardinality(A))
  BY <1>1, <1>2, LogCounts
<1> QED
  BY <1>3, <1>4, <1>5 DEF A, B, C

\* An event is stored: those there were keep their order.
LEMMA LogGrows ==
    ASSUME Log!LogAssumption, Log!TypeOK, NEW q, Log!Stored(q)
    PROVE  /\ s1' \in Seq(Log!Ids) /\ Log!IsInjective(s1') /\ Log!ToSet(s1') \subseteq 1..Len(s1')
           /\ Log!ToSet(s1) \subseteq Log!ToSet(s1')
           /\ \A of \in SUBSET Log!ToSet(s1) : \A f : \A e \in of : Log!Ahead(s1', of, f, e)
                = Log!Ahead(s1, of, f, e)
<1> DEFINE log == s1
<1> DEFINE n == Len(log)
<1>1. /\ log \in Seq(Log!Ids) /\ n \in Nat /\ q \in 1..n+1 /\ n < MaxEvents /\ MaxEvents \in Nat
      /\ log' = SubSeq(log, 1, q - 1) \o <<n + 1>> \o SubSeq(log, q, n)
      /\ \A i \in 1..n : log[i] \in 1..n
      /\ \A i, j \in 1..n : log[i] = log[j] => i = j
      /\ DOMAIN log = 1..n
  BY DEF Log!TypeOK, Log!Stored, Log!InsertAt, Log!ToSet, Log!IsInjective, Log!LogAssumption
<1>2. n + 1 \in Log!Ids
  BY <1>1 DEF Log!Ids
<1>3. /\ log' \in Seq(Log!Ids) /\ Len(log') = n + 1 /\ DOMAIN log' = 1..n+1
      /\ \A i \in 1..n+1 : log'[i] = IF i < q THEN log[i] ELSE IF i = q THEN n + 1 ELSE log[i - 1]
  <2> DEFINE A == SubSeq(log, 1, q - 1)
             B == <<n + 1>>
             C == SubSeq(log, q, n)
  <2>0. q \in Int /\ n \in Int /\ 1 \in Int /\ q - 1 \in Int /\ q \in Nat /\ q <= n + 1 /\ 1 <= q
    BY <1>1
  <2>1. A \in Seq(Log!Ids) /\ Len(A) = q - 1 /\ \A i \in 1..q-1 : A[i] = log[i]
    BY <1>1
  <2>2. C \in Seq(Log!Ids) /\ Len(C) = n + 1 - q /\ \A i \in 1..n+1-q : C[i] = log[i + q - 1]
    BY <1>1
  <2>3. B \in Seq(Log!Ids) /\ Len(B) = 1 /\ B[1] = n + 1
    BY <1>2
  <2>4. log' = (A \o B) \o C
    BY <1>1
  <2> HIDE DEF A, B, C, n
  <2> DEFINE D == A \o B
  <2>5. D \in Seq(Log!Ids) /\ Len(D) = Len(A) + Len(B)
        /\ \A i \in 1..Len(A) + Len(B) : D[i] = IF i <= Len(A) THEN A[i] ELSE B[i - Len(A)]
    BY <2>1, <2>3, ConcatProperties
  <2>6. log' = D \o C
    BY <2>4
  <2> HIDE DEF D
  <2>7. Len(D) = q /\ \A i \in 1..q : D[i] = IF i < q THEN log[i] ELSE n + 1
    <3>1. Len(D) = q
      BY <2>0, <2>1, <2>3, <2>5
    <3>2. ASSUME NEW i \in 1..q PROVE D[i] = IF i < q THEN log[i] ELSE n + 1
      <4>1. CASE i < q
        <5>1. i \in 1..q-1 /\ i <= Len(A) /\ i \in 1..Len(A) + Len(B)
          BY <2>0, <2>1, <2>3, <4>1
        <5> QED
          BY <2>1, <2>5, <4>1, <5>1
      <4>2. CASE i = q
        <5>1. ~(i <= Len(A)) /\ i - Len(A) = 1 /\ i \in 1..Len(A) + Len(B)
          BY <2>0, <2>1, <2>3, <4>2
        <5> QED
          BY <2>0, <2>3, <2>5, <4>2, <5>1
      <4> QED
        BY <2>0, <4>1, <4>2
    <3> QED
      BY <3>1, <3>2
  <2>8. log' \in Seq(Log!Ids) /\ Len(log') = q + Len(C)
        /\ \A i \in 1..q + Len(C) : log'[i] = IF i <= q THEN D[i] ELSE C[i - q]
    <3>1. D \o C \in Seq(Log!Ids) /\ Len(D \o C) = Len(D) + Len(C)
          /\ \A i \in 1..Len(D) + Len(C) : (D \o C)[i] = IF i <= Len(D) THEN D[i] ELSE C[i - Len(D)]
      BY <2>2, <2>5, ConcatProperties
    <3> QED
      BY <2>6, <2>7, <3>1
  <2>9. Len(log') = n + 1
    BY <2>0, <2>2, <2>8
  <2>10. ASSUME NEW i \in 1..n+1
         PROVE  log'[i] = IF i < q THEN log[i] ELSE IF i = q THEN n + 1 ELSE log[i - 1]
    <3>0. i \in 1..q + Len(C)
      BY <2>0, <2>2
    <3>1. CASE i <= q
      <4>1. i \in 1..q /\ log'[i] = D[i]
        BY <2>0, <2>8, <3>0, <3>1
      <4> QED
        BY <2>0, <2>7, <3>1, <4>1
    <3>2. CASE q < i
      <4>1. i - q \in 1..n+1-q /\ log'[i] = C[i - q] /\ (i - q) + q - 1 = i - 1
        BY <2>0, <2>8, <3>0, <3>2
      <4>2. C[i - q] = log[(i - q) + q - 1]
        BY <2>2, <4>1
      <4> QED
        BY <2>0, <3>2, <4>1, <4>2
    <3> QED
      BY <2>0, <3>1, <3>2
  <2>11. DOMAIN log' = 1..n+1
    BY <2>8, <2>9
  <2> QED
    BY <2>8, <2>9, <2>10, <2>11
<1> HIDE DEF n
<1>z. q \in Nat /\ 1 <= q /\ q <= n + 1 /\ n \in Nat
  BY <1>1
<1> DEFINE Sh(k) == IF k < q THEN k ELSE k + 1
<1>4. /\ \A k \in 1..n : Sh(k) \in 1..n+1 /\ log'[Sh(k)] = log[k]
      /\ \A k, l \in 1..n : k <= l <=> Sh(k) <= Sh(l)
      /\ \A i \in 1..n+1 : i # q => \E k \in 1..n : Sh(k) = i
      /\ log'[q] = n + 1
  <2>1. ASSUME NEW k \in 1..n PROVE Sh(k) \in 1..n+1 /\ log'[Sh(k)] = log[k]
    <3>1. k \in 1..n+1 /\ k + 1 \in 1..n+1 /\ (k + 1) - 1 = k
      BY <1>z
    <3>2. CASE k < q
      BY <1>3, <3>1, <3>2
    <3>3. CASE ~(k < q)
      <4>1. ~(k + 1 < q) /\ k + 1 # q
        BY <1>z, <3>3
      <4> QED
        BY <1>3, <3>1, <3>3, <4>1
    <3> QED
      BY <3>2, <3>3
  <2>2. \A k, l \in 1..n : k <= l <=> Sh(k) <= Sh(l)
    BY <1>1
  <2>3. ASSUME NEW i \in 1..n+1, i # q PROVE \E k \in 1..n : Sh(k) = i
    <3>1. CASE i < q
      <4>1. i \in 1..n /\ Sh(i) = i
        BY <1>1, <3>1
      <4> QED
        BY <4>1
    <3>2. CASE q < i
      <4>1. i - 1 \in 1..n /\ Sh(i - 1) = i
        BY <1>1, <3>2
      <4> QED
        BY <4>1
    <3> QED
      BY <1>1, <2>3, <3>1, <3>2
  <2>4. log'[q] = n + 1
    <3>1. q \in 1..n+1 /\ ~(q < q)
      BY <1>z
    <3> QED
      BY <1>3, <3>1
  <2> QED
    BY <2>1, <2>2, <2>3, <2>4
<1> HIDE DEF Sh
<1>5. \A i, j \in 1..n+1 : log'[i] = log'[j] => i = j
  <2> SUFFICES ASSUME NEW i \in 1..n+1, NEW j \in 1..n+1, log'[i] = log'[j] PROVE i = j
    OBVIOUS
  <2>1. n + 1 \notin 1..n
    BY <1>z
  <2>2. ASSUME NEW k \in 1..n+1, k # q PROVE log'[k] # n + 1
    <3>1. PICK l \in 1..n : Sh(l) = k
      BY <1>4, <2>2
    <3>2. log'[k] = log[l] /\ log[l] \in 1..n
      BY <1>1, <1>4, <3>1
    <3> QED
      BY <2>1, <3>2
  <2>3. CASE i = q \/ j = q
    BY <1>4, <2>2, <2>3
  <2>4. CASE i # q /\ j # q
    <3>1. PICK k \in 1..n, l \in 1..n : Sh(k) = i /\ Sh(l) = j
      BY <1>4, <2>4
    <3>2. log[k] = log[l]
      BY <1>4, <3>1
    <3>3. k = l
      BY <1>1, <3>2
    <3> QED
      BY <3>1, <3>3
  <2> QED
    BY <2>3, <2>4
<1>6. ASSUME NEW i \in 1..n+1 PROVE log'[i] \in 1..n+1
  <2>1. n + 1 \in 1..n+1 /\ \A k \in 1..n : k \in 1..n+1
    BY <1>z
  <2>2. CASE i # q
    <3>1. PICK l \in 1..n : Sh(l) = i
      BY <1>4, <2>2
    <3> QED
      BY <1>1, <1>4, <2>1, <3>1
  <2> QED
    BY <1>4, <2>1, <2>2
<1>7. Log!ToSet(log) \subseteq Log!ToSet(log')
  <2> SUFFICES ASSUME NEW k \in 1..n PROVE log[k] \in Log!ToSet(log')
    BY <1>1 DEF Log!ToSet
  <2> QED
    BY <1>3, <1>4 DEF Log!ToSet
<1>8. ASSUME NEW of \in SUBSET Log!ToSet(log), NEW f, NEW e \in of, NEW x \in of
      PROVE  x \in Log!Upto(log', e) <=> x \in Log!Upto(log, e)
  <2>1. x \in 1..n /\ e \in 1..n
    BY <1>1 DEF Log!ToSet
  <2>2. ASSUME x \in Log!Upto(log, e) PROVE x \in Log!Upto(log', e)
    <3>1. PICK i \in 1..n, j \in 1..n : log[i] = x /\ i <= j /\ log[j] = e
      BY <1>1, <2>2 DEF Log!Upto
    <3>2. Sh(i) \in DOMAIN log' /\ Sh(j) \in DOMAIN log' /\ log'[Sh(i)] = x /\ log'[Sh(j)] = e
          /\ Sh(i) <= Sh(j)
      BY <1>3, <1>4, <3>1
    <3> QED
      BY <3>2 DEF Log!Upto
  <2>3. ASSUME x \in Log!Upto(log', e) PROVE x \in Log!Upto(log, e)
    <3>1. PICK i \in 1..n+1, j \in 1..n+1 : log'[i] = x /\ i <= j /\ log'[j] = e
      BY <1>3, <2>3 DEF Log!Upto
    <3>2. i # q /\ j # q
      <4>1. n + 1 \notin 1..n
        BY <1>z
      <4> QED
        BY <1>4, <2>1, <3>1, <4>1
    <3>3. PICK k \in 1..n, l \in 1..n : Sh(k) = i /\ Sh(l) = j
      BY <1>4, <3>2
    <3>4. log[k] = x /\ log[l] = e /\ k <= l
      BY <1>4, <3>1, <3>3
    <3> QED
      BY <1>1, <3>4 DEF Log!Upto
  <2> QED
    BY <2>2, <2>3
<1>9. ASSUME NEW of \in SUBSET Log!ToSet(log), NEW f, NEW e \in of
      PROVE  Log!Ahead(log', of, f, e) = Log!Ahead(log, of, f, e)
  BY <1>8, <1>9 DEF Log!Ahead
<1>10. Log!IsInjective(log') /\ Log!ToSet(log') \subseteq 1..Len(log')
  BY <1>3, <1>5, <1>6 DEF Log!IsInjective, Log!ToSet
<1> QED
  BY <1>3, <1>7, <1>9, <1>10

-----------------------------------------------------------------------------
\* The invariant holds initially.
LEMMA LogInitIInv ==
    ASSUME Log!LogAssumption, Log!Init
    PROVE  Log!IInv
<1> DEFINE log == s1  filter == s2  page == s3  cached == s4  fetch == s6  generator == s8
           acts == s10  straight == s14
<1>1. Initial \in Nat /\ Initial <= MaxEvents /\ MaxEvents \in Nat /\ LogActs \in Nat
      /\ All \in Filters
  BY DEF Log!LogAssumption, Log!Pages
<1>2. log \in Seq(Log!Ids) /\ Log!IsInjective(log) /\ Log!ToSet(log) \subseteq 1..Len(log)
  <2>1. Len(log) = Initial /\ DOMAIN log = 1..Initial
        /\ \A i \in 1..Initial : log[i] = Initial + 1 - i
    BY <1>1 DEF Log!Init
  <2>2. \A i \in 1..Initial : Initial + 1 - i \in 1..Initial /\ Initial + 1 - i \in Log!Ids
    BY <1>1 DEF Log!Ids
  <2>3. log \in Seq(Log!Ids)
    <3>1. log \in [1..Initial -> Log!Ids]
      BY <2>2 DEF Log!Init
    <3> QED
      BY <1>1, <3>1
  <2>4. \A i, j \in 1..Initial : log[i] = log[j] => i = j
    BY <1>1, <2>1
  <2> QED
    BY <2>1, <2>2, <2>3, <2>4 DEF Log!IsInjective, Log!ToSet
<1>3. Log!NoData \in Log!Data
      /\ Log!Idle \in [phase : {"idle", "sent", "served"}, data : Log!Data]
      /\ Log!Sent \in [phase : {"idle", "sent", "served"}, data : Log!Data]
  <2>1. Log!NoData \in Log!Data
    BY DEF Log!NoData, Log!Data
  <2> QED
    BY <2>1 DEF Log!Idle, Log!Sent
<1>4. Log!TypeOK
  <2>1. cached \in [Log!Keys -> Log!Data]
        /\ fetch \in [Log!Keys -> [phase : {"idle", "sent", "served"}, data : Log!Data]]
    BY <1>3 DEF Log!Init
  <2>2. 0 \in Log!Pages /\ acts \in 0..LogActs /\ page \in Log!Pages /\ filter \in Filters
    BY <1>1 DEF Log!Init, Log!Pages
  <2>3. straight \in BOOLEAN /\ generator \in BOOLEAN
    BY DEF Log!Init
  <2> QED
    BY <1>2, <2>1, <2>2, <2>3 DEF Log!Init, Log!TypeOK
<1>5. Log!PagesInv
  <2>1. \A k \in Log!Keys : Log!DataInv(log, k, cached[k])
    BY DEF Log!Init, Log!DataInv, Log!NoData
  <2>2. \A k \in Log!Keys : fetch[k].phase # "served"
    BY DEF Log!Init, Log!Sent, Log!Idle
  <2> QED
    BY <2>1, <2>2 DEF Log!PagesInv
<1>6. Log!ReadInv
  BY DEF Log!Init, Log!ReadInv
<1> QED
  BY <1>4, <1>5, <1>6 DEF Log!IInv

-----------------------------------------------------------------------------
\* Answers and requests, and the marks of none, have their types.
LEMMA LogRecords ==
    /\ Log!NoData \in Log!Data
    /\ Log!Idle \in [phase : {"idle", "sent", "served"}, data : Log!Data]
         /\ Log!Idle.phase # "served"
    /\ Log!Sent \in [phase : {"idle", "sent", "served"}, data : Log!Data]
         /\ Log!Sent.phase # "served"
<1>1. Log!NoData \in Log!Data
  BY DEF Log!NoData, Log!Data
<1> QED
  BY <1>1 DEF Log!Idle, Log!Sent

\* A page of the log is one, and has what it should have.
LEMMA LogServed ==
    ASSUME Log!LogAssumption, Log!TypeOK, NEW k \in Log!Keys
    PROVE  Log!Page(k[1], k[2]) \in Log!Data /\ Log!Page(k[1], k[2]).known
           /\ Log!DataInv(s1, k, Log!Page(k[1], k[2]))
<1> DEFINE log == s1
<1> DEFINE f == k[1]
           p == k[2]
           hits == Log!ToSet(log) \cap Matches[f]
           d == Log!Page(f, p)
<1>1. /\ d.known = TRUE /\ d.of = Log!ToSet(log)
      /\ d.items = {e \in hits : p * PageSize < Log!Cardinality(Log!Upto(log, e) \cap hits)
                                 /\ Log!Cardinality(Log!Upto(log, e) \cap hits) <= (p + 1) * PageSize}
      /\ d.more = (Log!Cardinality(hits) > (p + 1) * PageSize)
  BY DEF Log!Page
<1>2. d \in Log!Data
  <2>1. Log!ToSet(log) \subseteq Log!Ids /\ hits \subseteq Log!Ids
    BY DEF Log!TypeOK, Log!ToSet
  <2>2. {e \in hits : p * PageSize < Log!Cardinality(Log!Upto(log, e) \cap hits)
                      /\ Log!Cardinality(Log!Upto(log, e) \cap hits) <= (p + 1) * PageSize} \subseteq Log!Ids
    BY <2>1
  <2>3. (Log!Cardinality(hits) > (p + 1) * PageSize) \in BOOLEAN
    OBVIOUS
  <2> QED
    BY <2>1, <2>2, <2>3 DEF Log!Page, Log!Data
<1>3. p * PageSize \in Nat /\ (p + 1) * PageSize \in Nat
  BY LogBounds
<1>4. ASSUME NEW e \in d.of \cap Matches[f],
             p * PageSize < Log!Cardinality(Log!Ahead(log, d.of, f, e))
      PROVE  e \in d.items
             \/ (d.more /\ (p + 1) * PageSize < Log!Cardinality(Log!Ahead(log, d.of, f, e)))
  <2> DEFINE n == Log!Cardinality(Log!Ahead(log, d.of, f, e))
             m == Log!Cardinality(hits)
             lo == p * PageSize
             hi == (p + 1) * PageSize
  <2>1. Log!Ahead(log, d.of, f, e) = Log!Upto(log, e) \cap hits /\ e \in hits
    BY <1>1 DEF Log!Ahead
  <2>2. n \in Nat /\ m \in Nat /\ n <= m
    <3>1. Log!ToSet(log) \in SUBSET Log!ToSet(log) /\ Log!ToSet(log) \subseteq Log!ToSet(log)
      OBVIOUS
    <3> QED
      BY <1>1, <3>1, LogRanks
  <2>3. e \in d.items <=> lo < n /\ n <= hi
    BY <1>1, <2>1
  <2>4. d.more = (m > hi)
    BY <1>1
  <2>5. lo \in Nat /\ hi \in Nat /\ lo < n
    BY <1>3, <1>4
  <2> HIDE DEF n, m, lo, hi, d
  <2>6. CASE n <= hi
    BY <2>3, <2>5, <2>6
  <2>7. CASE hi < n
    <3>1. m > hi
      BY <2>2, <2>5, <2>7
    <3> QED
      BY <2>4, <2>7, <3>1 DEF n, hi
  <2> QED
    BY <2>2, <2>5, <2>6, <2>7
<1>5. d.of \subseteq Log!ToSet(log)
  BY <1>1
<1> QED
  BY <1>1, <1>2, <1>4, <1>5 DEF Log!DataInv

-----------------------------------------------------------------------------
\* Every step keeps the types.
LEMMA LogNextTypeOK ==
    ASSUME Log!LogAssumption, Log!TypeOK, [Log!Next]_(Log!vars)
    PROVE  Log!TypeOK'
<1> DEFINE log == s1  filter == s2  page == s3  cached == s4  old == s5  fetch == s6
           selected == s7  generator == s8  making == s9  acts == s10  aim == s11  seen == s12
           last == s13  straight == s14
<1> DEFINE Fetches == [phase : {"idle", "sent", "served"}, data : Log!Data]
<1>0. /\ cached \in [Log!Keys -> Log!Data] /\ fetch \in [Log!Keys -> Fetches]
           /\ old \subseteq Log!Keys
      /\ Log!Idle \in Fetches /\ Log!Sent \in Fetches
  BY LogRecords DEF Log!TypeOK
<1>a. ASSUME NEW k \in Log!Keys, Log!Come(k) \/ Log!Refetch(k)
      PROVE  fetch' \in [Log!Keys -> Fetches]
  BY <1>0, <1>a DEF Log!Come, Log!Refetch
<1>h. Log!Here \in Log!Keys /\ cached[Log!Here] \in Log!Data
      /\ cached[Log!Here].of \subseteq Log!Ids /\ cached[Log!Here].items \subseteq Log!Ids
  <2>1. Log!Here \in Log!Keys
    BY LogBounds DEF Log!Here
  <2> QED
    BY <1>0, <2>1 DEF Log!Data
<1>1. CASE UNCHANGED Log!vars
  BY <1>1 DEF Log!TypeOK, Log!vars, Log!place, Log!query, Log!form, Log!history
<1>2. ASSUME NEW i, Log!Stored(i),
             UNCHANGED <<filter, page, cached, old, fetch, selected, generator, acts, aim, seen, last, straight>>,
             making' \in {"no", "sent", "stored", "waits"}
      PROVE  Log!TypeOK'
  <2>1. log' \in Seq(Log!Ids) /\ Log!IsInjective(log') /\ Log!ToSet(log') \subseteq 1..Len(log')
    BY <1>2, LogGrows
  <2> QED
    BY <1>2, <2>1 DEF Log!TypeOK
<1>3. ASSUME NEW i, Log!Others(i) PROVE Log!TypeOK'
  <2>1. making' \in {"no", "sent", "stored", "waits"}
    BY <1>3 DEF Log!Others, Log!form, Log!TypeOK
  <2> QED
    BY <1>2, <1>3, <2>1 DEF Log!Others, Log!place, Log!query, Log!form, Log!history
<1>4. ASSUME NEW i, Log!StoreMade(i) PROVE Log!TypeOK'
  BY <1>2, <1>4 DEF Log!StoreMade, Log!place, Log!query, Log!history
<1>5. ASSUME NEW k \in Log!Keys, Log!Serve(k) PROVE Log!TypeOK'
  <2>1. Log!Page(k[1], k[2]) \in Log!Data
    BY LogServed
  <2>2. fetch' \in [Log!Keys -> Fetches]
    BY <1>0, <1>5, <2>1 DEF Log!Serve
  <2> QED
    BY <1>5, <2>2 DEF Log!Serve, Log!TypeOK, Log!place, Log!form, Log!history
<1>6. ASSUME NEW k \in Log!Keys, Log!Fetched(k) PROVE Log!TypeOK'
  <2>1. fetch[k].data \in Log!Data
    BY <1>0
  <2>2. fetch' \in [Log!Keys -> Fetches] /\ cached' \in [Log!Keys -> Log!Data]
        /\ old' \subseteq Log!Keys
    BY <1>0, <1>6, <2>1 DEF Log!Fetched
  <2> QED
    BY <1>6, <2>2 DEF Log!Fetched, Log!TypeOK, Log!place, Log!form, Log!history
<1>7. ASSUME NEW k \in Log!Keys, Log!FetchFails(k) PROVE Log!TypeOK'
  <2>1. fetch' \in [Log!Keys -> Fetches] /\ acts' \in 0..LogActs
    BY <1>0, <1>7, LogBounds DEF Log!FetchFails
  <2> QED
    BY <1>7, <2>1 DEF Log!FetchFails, Log!TypeOK, Log!place, Log!form, Log!history
<1>8. ASSUME NEW k \in Log!Keys, Log!Stale(k) PROVE Log!TypeOK'
  <2>1. old' \subseteq Log!Keys /\ acts' \in 0..LogActs
    BY <1>0, <1>8, LogBounds DEF Log!Stale
  <2> QED
    BY <1>8, <2>1 DEF Log!Stale, Log!TypeOK, Log!place, Log!form, Log!history
<1>9. ASSUME Log!NextPage PROVE Log!TypeOK'
  <2>1. page + 1 \in Log!Pages /\ page' = page + 1 /\ <<filter, page + 1>> \in Log!Keys
    BY <1>9 DEF Log!NextPage, Log!Keys, Log!TypeOK
  <2>2. fetch' \in [Log!Keys -> Fetches]
    BY <1>9, <1>a, <2>1 DEF Log!NextPage
  <2>3. last' \subseteq Log!Ids /\ aim' \subseteq Log!Ids /\ seen' \subseteq Log!Ids
    <3>1. aim \subseteq Log!Ids /\ seen \subseteq Log!Ids /\ last' = cached[Log!Here].of
      BY <1>9 DEF Log!NextPage, Log!TypeOK
    <3>2. CASE page = 0
      BY <1>9, <1>h, <3>1, <3>2 DEF Log!NextPage
    <3>3. CASE page # 0
      BY <1>9, <1>h, <3>1, <3>3 DEF Log!NextPage
    <3> QED
      BY <3>2, <3>3
  <2>4. straight' \in BOOLEAN
    BY <1>9 DEF Log!NextPage
  <2>5. UNCHANGED <<log, filter, cached, old, selected, generator, making, acts>>
    BY <1>9 DEF Log!NextPage, Log!form
  <2> QED
    BY <2>1, <2>2, <2>3, <2>4, <2>5 DEF Log!TypeOK
<1>10. ASSUME Log!Previous PROVE Log!TypeOK'
  <2>1. page - 1 \in Log!Pages /\ page' = page - 1 /\ <<filter, page - 1>> \in Log!Keys
    <3>1. page > 0 /\ page \in 0..MaxEvents /\ MaxEvents \in Nat
      BY <1>10, LogBounds DEF Log!Previous, Log!CanPrevious, Log!Pages
    <3>2. page - 1 \in Log!Pages
      BY <3>1 DEF Log!Pages
    <3> QED
      BY <1>10, <3>2 DEF Log!Previous, Log!Keys, Log!TypeOK
  <2>2. fetch' \in [Log!Keys -> Fetches]
    BY <1>10, <1>a, <2>1 DEF Log!Previous
  <2>3. straight' \in BOOLEAN
    BY <1>10 DEF Log!Previous
  <2> QED
    BY <1>10, <2>1, <2>2, <2>3 DEF Log!Previous, Log!TypeOK, Log!form
<1>11. ASSUME NEW f \in Filters, Log!Filter(f) PROVE Log!TypeOK'
  <2>1. filter' \in Filters /\ page' \in Log!Pages /\ <<f, 0>> \in Log!Keys
        /\ acts' \in 0..LogActs
    BY <1>11, LogBounds DEF Log!Filter
  <2>2. fetch' \in [Log!Keys -> Fetches]
    BY <1>11, <1>a, <2>1 DEF Log!Filter
  <2>3. straight' \in BOOLEAN
    BY <1>11 DEF Log!Filter
  <2> QED
    BY <1>11, <2>1, <2>2, <2>3 DEF Log!Filter, Log!TypeOK, Log!form
<1>12. ASSUME Log!Refresh PROVE Log!TypeOK'
  <2>1. fetch' \in [Log!Keys -> Fetches] /\ acts' \in 0..LogActs
    BY <1>12, <1>a, <1>h, LogBounds DEF Log!Refresh
  <2> QED
    BY <1>12, <2>1 DEF Log!Refresh, Log!TypeOK, Log!place, Log!form, Log!history
<1>13. ASSUME NEW e \in Log!Ids, Log!ViewDetails(e) PROVE Log!TypeOK'
  <2>1. acts' \in 0..LogActs
    BY <1>13, LogBounds DEF Log!ViewDetails
  <2> QED
    BY <1>13, <2>1 DEF Log!ViewDetails, Log!TypeOK, Log!place, Log!query, Log!form, Log!history
<1>14. ASSUME Log!Back \/ Log!Cancel \/ Log!Create \/ Log!NotMade \/ Log!MadeEnds
       PROVE  Log!TypeOK'
  <2>1. UNCHANGED <<log, filter, page, cached, old, fetch, acts, aim, seen, last, straight>>
    BY <1>14 DEF Log!Back, Log!Cancel, Log!Create, Log!NotMade, Log!MadeEnds, Log!place,
      Log!query, Log!form, Log!history
  <2>2. selected' \in Log!Ids \cup {0}
    BY <1>14 DEF Log!Back, Log!Cancel, Log!Create, Log!NotMade, Log!MadeEnds, Log!TypeOK
  <2>3. making' \in {"no", "sent", "stored", "waits"}
    BY <1>14 DEF Log!Back, Log!Cancel, Log!Create, Log!NotMade, Log!MadeEnds, Log!TypeOK, Log!form
  <2>4. generator' \in BOOLEAN
    <3>1. generator' = generator \/ generator' = FALSE
      BY <1>14 DEF Log!Back, Log!Cancel, Log!Create, Log!NotMade, Log!MadeEnds, Log!form
    <3>2. generator \in BOOLEAN
      BY DEF Log!TypeOK
    <3> QED
      BY <3>1, <3>2
  <2> QED
    BY <2>1, <2>2, <2>3, <2>4 DEF Log!TypeOK
<1>15. ASSUME Log!OpenGenerator PROVE Log!TypeOK'
  <2>1. acts' \in 0..LogActs
    BY <1>15, LogBounds DEF Log!OpenGenerator
  <2>2. generator' \in BOOLEAN
    BY <1>15 DEF Log!OpenGenerator
  <2> QED
    BY <1>15, <2>1, <2>2 DEF Log!OpenGenerator, Log!TypeOK, Log!place, Log!query, Log!history
<1>16. ASSUME Log!Made PROVE Log!TypeOK'
  <2>1. fetch' \in [Log!Keys -> Fetches] /\ old' \subseteq Log!Keys
    BY <1>16, <1>a, <1>h DEF Log!Made
  <2> QED
    BY <1>16, <2>1 DEF Log!Made, Log!TypeOK, Log!place, Log!history
<1> QED
  BY <1>1, <1>3, <1>4, <1>5, <1>6, <1>7, <1>8, <1>9, <1>10, <1>11, <1>12, <1>13, <1>14, <1>15,
    <1>16 DEF Log!Next

-----------------------------------------------------------------------------
\* Data stay what they should be while the log grows.
LEMMA LogDataKept ==
    ASSUME Log!LogAssumption, Log!TypeOK, NEW q, Log!Stored(q), NEW k \in Log!Keys, NEW d,
           Log!DataInv(s1, k, d)
    PROVE  Log!DataInv(s1', k, d)
<1> DEFINE log == s1
<1>1. ASSUME d.known
      PROVE  /\ d.of \subseteq Log!ToSet(log')
             /\ \A e \in d.of : Log!Ahead(log', d.of, k[1], e) = Log!Ahead(log, d.of, k[1], e)
  <2>1. d.of \in SUBSET Log!ToSet(log)
    BY <1>1 DEF Log!DataInv
  <2> QED
    BY <2>1, LogGrows
<1> QED
  BY <1>1 DEF Log!DataInv

\* Every step keeps PagesInv.
LEMMA LogNextPagesInv ==
    ASSUME Log!LogAssumption, Log!TypeOK, Log!PagesInv, [Log!Next]_(Log!vars)
    PROVE  Log!PagesInv'
<1> DEFINE log == s1  filter == s2  page == s3  cached == s4  fetch == s6
<1>0. DOMAIN cached = Log!Keys /\ DOMAIN fetch = Log!Keys
  BY LogBounds
<1>1. ASSUME log' = log, cached' = cached,
             \A k \in Log!Keys : fetch'[k] = fetch[k] \/ fetch'[k].phase # "served"
      PROVE  Log!PagesInv'
  BY <1>1 DEF Log!PagesInv
<1>2. ASSUME NEW k \in Log!Keys, Log!Come(k) \/ Log!Refetch(k)
      PROVE  \A m \in Log!Keys : fetch'[m] = fetch[m] \/ fetch'[m].phase # "served"
  <2>1. \A m \in Log!Keys : fetch'[m] = fetch[m] \/ fetch'[m] = Log!Sent
    BY <1>0, <1>2 DEF Log!Come, Log!Refetch
  <2> QED
    BY <2>1, LogRecords
<1>3. CASE UNCHANGED Log!vars
  BY <1>1, <1>3 DEF Log!vars, Log!query
<1>4. ASSUME NEW q, Log!Stored(q), UNCHANGED <<cached, fetch>> PROVE Log!PagesInv'
  BY <1>4, LogDataKept DEF Log!PagesInv
<1>5. ASSUME NEW q, Log!Others(q) \/ Log!StoreMade(q) PROVE Log!PagesInv'
  BY <1>4, <1>5 DEF Log!Others, Log!StoreMade, Log!query
<1>6. ASSUME NEW k \in Log!Keys, Log!Serve(k) PROVE Log!PagesInv'
  <2> DEFINE d == Log!Page(k[1], k[2])
  <2>1. d.known /\ Log!DataInv(log, k, d)
    BY LogServed
  <2>2. log' = log /\ cached' = cached
        /\ fetch' = [fetch EXCEPT ![k] = [phase |-> "served", data |-> d]]
    BY <1>6 DEF Log!Serve
  <2> HIDE DEF d
  <2>3. fetch'[k].data = d /\ \A m \in Log!Keys : m # k => fetch'[m] = fetch[m]
    BY <1>0, <2>2
  <2> QED
    BY <2>1, <2>2, <2>3 DEF Log!PagesInv
<1>7. ASSUME NEW k \in Log!Keys, Log!Fetched(k) PROVE Log!PagesInv'
  <2>1. /\ log' = log /\ cached'[k] = fetch[k].data /\ fetch[k].phase = "served"
        /\ \A m \in Log!Keys : m # k => cached'[m] = cached[m] /\ fetch'[m] = fetch[m]
        /\ fetch'[k] = Log!Idle
    BY <1>0, <1>7 DEF Log!Fetched
  <2>2. fetch'[k].phase # "served"
    BY <2>1, LogRecords
  <2> QED
    BY <2>1, <2>2 DEF Log!PagesInv
<1>8. ASSUME NEW k \in Log!Keys, Log!FetchFails(k) PROVE Log!PagesInv'
  <2>1. \A m \in Log!Keys : fetch'[m] = fetch[m] \/ fetch'[m] = Log!Idle
    BY <1>0, <1>8 DEF Log!FetchFails
  <2> QED
    BY <1>1, <1>8, <2>1, LogRecords DEF Log!FetchFails
<1>9. ASSUME NEW k \in Log!Keys, Log!Stale(k) PROVE Log!PagesInv'
  BY <1>1, <1>9 DEF Log!Stale
<1>10. ASSUME Log!NextPage \/ Log!Previous PROVE Log!PagesInv'
  <2>1. log' = log /\ cached' = cached
    BY <1>10 DEF Log!NextPage, Log!Previous
  <2>2. PICK p : Log!Come(<<filter, p>>) /\ page' = p
    BY <1>10 DEF Log!NextPage, Log!Previous
  <2>3. p \in Log!Pages
    <3>1. CASE Log!NextPage
      BY <2>2, <3>1 DEF Log!NextPage
    <3>2. CASE Log!Previous
      <4>1. page > 0 /\ page \in 0..MaxEvents /\ MaxEvents \in Nat /\ p = page - 1
        BY <2>2, <3>2, LogBounds DEF Log!Previous, Log!CanPrevious, Log!Pages
      <4> QED
        BY <4>1 DEF Log!Pages
    <3> QED
      BY <1>10, <3>1, <3>2
  <2>4. <<filter, p>> \in Log!Keys
    BY <2>3 DEF Log!Keys, Log!TypeOK
  <2> QED
    BY <1>1, <1>2, <2>1, <2>2, <2>4
<1>11. ASSUME NEW f \in Filters, Log!Filter(f) PROVE Log!PagesInv'
  <2>1. log' = log /\ cached' = cached /\ Log!Come(<<f, 0>>) /\ <<f, 0>> \in Log!Keys
    BY <1>11, LogBounds DEF Log!Filter
  <2> QED
    BY <1>1, <1>2, <2>1
<1>12. ASSUME Log!Refresh \/ Log!Made PROVE Log!PagesInv'
  <2>1. log' = log /\ cached' = cached /\ Log!Refetch(Log!Here) /\ Log!Here \in Log!Keys
    BY <1>12, LogBounds DEF Log!Refresh, Log!Made, Log!Here
  <2> QED
    BY <1>1, <1>2, <2>1
<1>13. ASSUME UNCHANGED <<log, Log!query>> PROVE Log!PagesInv'
  BY <1>1, <1>13 DEF Log!query
<1>14. ASSUME NEW e, Log!ViewDetails(e) PROVE Log!PagesInv'
  BY <1>13, <1>14 DEF Log!ViewDetails
<1>15. ASSUME Log!Back \/ Log!OpenGenerator \/ Log!Cancel \/ Log!Create \/ Log!NotMade \/ Log!MadeEnds
       PROVE  Log!PagesInv'
  BY <1>13, <1>15 DEF Log!Back, Log!OpenGenerator, Log!Cancel, Log!Create, Log!NotMade, Log!MadeEnds
<1> QED
  BY <1>3, <1>5, <1>6, <1>7, <1>8, <1>9, <1>10, <1>11, <1>12, <1>14, <1>15 DEF Log!Next

-----------------------------------------------------------------------------
\* Every step keeps ReadInv.
LEMMA LogNextReadInv ==
    ASSUME Log!LogAssumption, Log!TypeOK, Log!PagesInv, Log!ReadInv, [Log!Next]_(Log!vars)
    PROVE  Log!ReadInv'
<1> DEFINE log == s1  filter == s2  page == s3  cached == s4  aim == s11  seen == s12
           last == s13  straight == s14
<1>1. ASSUME UNCHANGED <<log, page, straight, last, aim, seen, filter>> PROVE Log!ReadInv'
  BY <1>1 DEF Log!ReadInv
<1>2. CASE UNCHANGED Log!vars
  BY <1>1, <1>2 DEF Log!vars, Log!place, Log!history
<1>3. ASSUME NEW q, Log!Stored(q), UNCHANGED <<page, straight, last, aim, seen, filter>>
      PROVE  Log!ReadInv'
  <2> SUFFICES ASSUME page > 0, straight
               PROVE  /\ last \subseteq Log!ToSet(log') /\ aim \subseteq last \cap Matches[filter]
                      /\ \A e \in aim \ seen : page * PageSize < Log!Cardinality(Log!Ahead(log', last, filter, e))
    BY <1>3 DEF Log!ReadInv
  <2>1. /\ last \in SUBSET Log!ToSet(log) /\ aim \subseteq last \cap Matches[filter]
        /\ \A e \in aim \ seen : page * PageSize < Log!Cardinality(Log!Ahead(log, last, filter, e))
    BY DEF Log!ReadInv
  <2>2. Log!ToSet(log) \subseteq Log!ToSet(log')
        /\ \A e \in last : Log!Ahead(log', last, filter, e) = Log!Ahead(log, last, filter, e)
    BY <1>3, <2>1, LogGrows
  <2> QED
    BY <2>1, <2>2
<1>4. ASSUME NEW q, Log!Others(q) \/ Log!StoreMade(q) PROVE Log!ReadInv'
  BY <1>3, <1>4 DEF Log!Others, Log!StoreMade, Log!place, Log!history
<1>5. ASSUME Log!NextPage PROVE Log!ReadInv'
  <2> DEFINE d == cached[Log!Here]
             lo == page * PageSize
             hi == (page + 1) * PageSize
  <2>1. /\ page' = page + 1 /\ filter' = filter /\ log' = log /\ last' = d.of /\ d.more
        /\ page = 0 => aim' = d.of \cap Matches[filter] /\ seen' = d.items
        /\ page # 0 => /\ aim' = aim /\ seen' = seen \cup d.items
                       /\ straight' => straight /\ last \subseteq d.of
    BY <1>5 DEF Log!NextPage, Log!CanNext
  <2>2. Log!Here \in Log!Keys /\ Log!Here[1] = filter /\ Log!Here[2] = page /\ page \in Nat
        /\ PageSize \in Nat
    BY LogBounds DEF Log!Here
  <2>3. /\ d.known /\ d.of \subseteq Log!ToSet(log)
        /\ \A e \in d.of \cap Matches[filter] :
             lo < Log!Cardinality(Log!Ahead(log, d.of, filter, e))
             => e \in d.items \/ (d.more /\ hi < Log!Cardinality(Log!Ahead(log, d.of, filter, e)))
    <3>1. Log!DataInv(log, Log!Here, d)
      BY <2>2 DEF Log!PagesInv
    <3> QED
      BY <2>1, <2>2, <3>1 DEF Log!DataInv
  <2>4. lo \in Nat /\ hi \in Nat /\ (page = 0 => lo = 0)
    BY <2>2
  <2> HIDE DEF d, lo, hi
  <2>5. SUFFICES ASSUME straight'
                 PROVE  /\ last' \subseteq Log!ToSet(log)
                             /\ aim' \subseteq last' \cap Matches[filter]
                        /\ \A e \in aim' \ seen' : hi < Log!Cardinality(Log!Ahead(log, last', filter, e))
    BY <2>1 DEF Log!ReadInv, hi
  <2>6. CASE page = 0
    <3>1. ASSUME NEW e \in aim' \ seen'
          PROVE  hi < Log!Cardinality(Log!Ahead(log, d.of, filter, e))
      <4>1. e \in d.of \cap Matches[filter] /\ e \notin d.items
        BY <2>1, <2>6, <3>1
      <4>2. 0 < Log!Cardinality(Log!Ahead(log, d.of, filter, e))
        BY <2>3, <4>1, LogRanks
      <4> QED
        BY <2>3, <2>4, <2>6, <4>1, <4>2
    <3> QED
      BY <2>1, <2>3, <2>6, <3>1
  <2>7. CASE page # 0
    <3>1. /\ page > 0 /\ straight /\ last \subseteq d.of /\ aim' = aim
               /\ seen' = seen \cup d.items
      BY <2>1, <2>2, <2>5, <2>7
    <3>2. /\ last \subseteq Log!ToSet(log) /\ aim \subseteq last \cap Matches[filter]
          /\ \A e \in aim \ seen : lo < Log!Cardinality(Log!Ahead(log, last, filter, e))
      BY <3>1 DEF Log!ReadInv, lo
    <3>3. ASSUME NEW e \in aim' \ seen'
          PROVE  hi < Log!Cardinality(Log!Ahead(log, d.of, filter, e))
      <4>1. e \in aim \ seen /\ e \notin d.items /\ e \in d.of \cap Matches[filter]
        BY <3>1, <3>2, <3>3
      <4>2. /\ Log!Cardinality(Log!Ahead(log, last, filter, e)) \in Nat
                 /\ Log!Cardinality(Log!Ahead(log, d.of, filter, e)) \in Nat
            /\ Log!Cardinality(Log!Ahead(log, last, filter, e)) <= Log!Cardinality(Log!Ahead(log, d.of, filter, e))
        BY <2>3, <3>1, <3>2, LogRanks
      <4>3. lo < Log!Cardinality(Log!Ahead(log, d.of, filter, e))
        BY <2>4, <3>2, <4>1, <4>2
      <4> QED
        BY <2>3, <4>1, <4>3
    <3> QED
      BY <2>1, <2>3, <3>1, <3>2, <3>3
  <2> QED
    BY <2>6, <2>7
<1>6. ASSUME straight' = FALSE PROVE Log!ReadInv'
  BY <1>6 DEF Log!ReadInv
<1>7. ASSUME Log!Previous \/ \E f \in Filters : Log!Filter(f) PROVE Log!ReadInv'
  BY <1>6, <1>7 DEF Log!Previous, Log!Filter
<1>8. ASSUME NEW k, Log!Serve(k) \/ Log!Fetched(k) \/ Log!FetchFails(k) \/ Log!Stale(k)
      PROVE  Log!ReadInv'
  BY <1>1, <1>8 DEF Log!Serve, Log!Fetched, Log!FetchFails, Log!Stale, Log!place, Log!history
<1>9. ASSUME Log!Refresh \/ Log!Made \/ Log!Back \/ \E e \in Log!Ids : Log!ViewDetails(e)
      PROVE  Log!ReadInv'
  BY <1>1, <1>9 DEF Log!Refresh, Log!Made, Log!Back, Log!ViewDetails, Log!place, Log!history
<1>10. ASSUME Log!OpenGenerator \/ Log!Cancel \/ Log!Create \/ Log!NotMade \/ Log!MadeEnds
       PROVE  Log!ReadInv'
  BY <1>1, <1>10 DEF Log!OpenGenerator, Log!Cancel, Log!Create, Log!NotMade, Log!MadeEnds,
    Log!place, Log!history
<1> QED
  BY <1>2, <1>4, <1>5, <1>7, <1>8, <1>9, <1>10 DEF Log!Next

\* Every step keeps the invariant.
LEMMA LogNextIInv ==
    ASSUME Log!LogAssumption, Log!IInv, [Log!Next]_(Log!vars)
    PROVE  Log!IInv'
  BY LogNextTypeOK, LogNextPagesInv, LogNextReadInv DEF Log!IInv

\* What has not been read stands on the page that is shown, if it is the last.
LEMMA LogMissesNothing ==
    ASSUME Log!LogAssumption, Log!IInv
    PROVE  Log!ReadingMissesNothing
<1> DEFINE log == s1  filter == s2  page == s3  cached == s4  aim == s11  seen == s12
           last == s13  straight == s14
<1> DEFINE d == cached[Log!Here]
           lo == page * PageSize
<1> SUFFICES ASSUME page > 0, straight, d.known, ~d.more, last \subseteq d.of,
                    NEW e \in aim \ seen
             PROVE  e \in d.items
  BY DEF Log!ReadingMissesNothing
<1>0. Log!TypeOK /\ Log!PagesInv /\ Log!ReadInv
  BY DEF Log!IInv
<1>1. Log!Here \in Log!Keys /\ Log!Here[1] = filter /\ Log!Here[2] = page /\ lo \in Nat
  BY <1>0, LogBounds DEF Log!Here
<1>2. /\ d.of \subseteq Log!ToSet(log)
      /\ e \in d.of \cap Matches[filter]
           /\ lo < Log!Cardinality(Log!Ahead(log, d.of, filter, e)) => e \in d.items
  <2>1. Log!DataInv(log, Log!Here, d)
    BY <1>0, <1>1 DEF Log!PagesInv
  <2> QED
    BY <1>1, <2>1 DEF Log!DataInv
<1>3. last \subseteq Log!ToSet(log) /\ e \in last \cap Matches[filter]
      /\ lo < Log!Cardinality(Log!Ahead(log, last, filter, e))
  BY <1>0 DEF Log!ReadInv
<1> HIDE DEF d, lo
<1>4. /\ Log!Cardinality(Log!Ahead(log, last, filter, e)) \in Nat
           /\ Log!Cardinality(Log!Ahead(log, d.of, filter, e)) \in Nat
      /\ Log!Cardinality(Log!Ahead(log, last, filter, e)) <= Log!Cardinality(Log!Ahead(log, d.of, filter, e))
  BY <1>0, <1>2, <1>3, LogRanks
<1>5. lo < Log!Cardinality(Log!Ahead(log, d.of, filter, e))
  BY <1>1, <1>3, <1>4
<1> QED
  BY <1>2, <1>3, <1>5

-----------------------------------------------------------------------------
(* The parts together.                                                     *)

\* The invariant of the part that a behaviour is about.
FrontendInv ==
    /\ part = "session" => Auth!IInv
    /\ part = "signIn" => Login!IInv
    /\ part = "scans" => Scan!IInv
    /\ part = "appScans" => Apps!IInv
    /\ part = "systems" => Sys!IInv
    /\ part = "policyChat" => Chat!IInv
    /\ part = "policies" => Pol!IInv
    /\ part = "orgSettings" => Org!IInv
    /\ part = "compliance" => Comp!IInv
    /\ part = "mcpServers" => Mcp!IInv
    /\ part = "integrations" => Card!IInv
    /\ part = "webhooks" => Hook!IInv
    /\ part = "eventLog" => Log!IInv

\* Who leaves every slot alone leaves every part alone.
LEMMA SlotsKept ==
    ASSUME UNCHANGED <<part, Slots>>
    PROVE  /\ part' = part
           /\ UNCHANGED Auth!vars /\ UNCHANGED Login!vars /\ UNCHANGED Scan!vars
           /\ UNCHANGED Apps!vars /\ UNCHANGED Sys!vars /\ UNCHANGED Chat!vars
           /\ UNCHANGED Pol!vars /\ UNCHANGED Org!vars /\ UNCHANGED Comp!vars
           /\ UNCHANGED Mcp!vars /\ UNCHANGED Card!vars /\ UNCHANGED Hook!vars
           /\ UNCHANGED Log!vars
<1>1. /\ part' = part
      /\ UNCHANGED <<s1, s2, s3, s4, s5, s6, s7, s8, s9, s10, s11, s12, s13, s14, s15, s16, s17, s18, s19>>
  BY DEF Slots, Rest9, Rest13, Rest15, Rest16, Rest17, Rest18, Rest19
<1>2. UNCHANGED Auth!vars /\ UNCHANGED Apps!vars /\ UNCHANGED Org!vars
  BY <1>1 DEF Auth!vars, Apps!vars, Apps!awsVars, Apps!figmaVars, Org!vars, Org!queries
<1>3. UNCHANGED Login!vars /\ UNCHANGED Hook!vars
  BY <1>1 DEF Login!vars, Hook!vars, Hook!query, Hook!card, Hook!history
<1>4. UNCHANGED Scan!vars
  BY <1>1 DEF Scan!vars, Scan!linkVars, Scan!cacheVars, Scan!viewVars, Scan!requestVars, Scan!marks
<1>5. UNCHANGED Sys!vars /\ UNCHANGED Chat!vars
  BY <1>1 DEF Sys!vars, Sys!server, Sys!advice, Chat!vars, Chat!conversation, Chat!queries
<1>6. UNCHANGED Pol!vars /\ UNCHANGED Comp!vars
  BY <1>1 DEF Pol!vars, Pol!library, Pol!checks, Comp!vars, Comp!server, Comp!page, Comp!requests,
     Comp!history
<1>7. UNCHANGED Mcp!vars
  BY <1>1 DEF Mcp!vars, Mcp!backend, Mcp!card, Mcp!browser, Mcp!history
<1>8. UNCHANGED Card!vars
  BY <1>1 DEF Card!vars, Card!backend, Card!view, Card!test, Card!browser, Card!history
<1>9. UNCHANGED Log!vars
  BY <1>1 DEF Log!vars, Log!place, Log!query, Log!form, Log!history
<1> QED
  BY <1>1, <1>2, <1>3, <1>4, <1>5, <1>6, <1>7, <1>8, <1>9

\* A step moves the part that the behaviour is about.
LEMMA PartMoves ==
    ASSUME [FrontendNext]_<<part, Slots>>
    PROVE  /\ part' = part
           /\ part = "session" => [Auth!Next]_(Auth!vars)
           /\ part = "signIn" => [Login!Next]_(Login!vars)
           /\ part = "scans" => [Scan!Next]_(Scan!vars)
           /\ part = "appScans" => [Apps!Next]_(Apps!vars)
           /\ part = "systems" => [Sys!Next]_(Sys!vars)
           /\ part = "policyChat" => [Chat!Next]_(Chat!vars)
           /\ part = "policies" => [Pol!Next]_(Pol!vars)
           /\ part = "orgSettings" => [Org!Next]_(Org!vars)
           /\ part = "compliance" => [Comp!Next]_(Comp!vars)
           /\ part = "mcpServers" => [Mcp!Next]_(Mcp!vars)
           /\ part = "integrations" => [Card!Next]_(Card!vars)
           /\ part = "webhooks" => [Hook!Next]_(Hook!vars)
           /\ part = "eventLog" => [Log!Next]_(Log!vars)
<1>1. CASE UNCHANGED <<part, Slots>>
  BY <1>1, SlotsKept
<1>2. CASE FrontendNext
  BY <1>2 DEF FrontendNext
<1> QED
  BY <1>1, <1>2

\* What is assumed of the constants of the parts.
LEMMA PartAssumptions ==
    /\ Auth!SessionAssumption /\ Login!AddressesAssumption /\ Scan!ScanIdsAssumption
    /\ Apps!FramesAssumption /\ Sys!SystemsAssumption /\ Chat!ChatAssumption
    /\ Pol!LibraryAssumption /\ Org!SettingsAssumption /\ Comp!ComplianceAssumption
    /\ Mcp!McpAssumption /\ Card!IntegrationsAssumption /\ Hook!WebhooksAssumption
    /\ Log!LogAssumption
BY FrontendAssumption DEF FrontendAssumption

\* It holds initially.
LEMMA FrontendInitInv == FrontendInit => FrontendInv
<1> SUFFICES ASSUME FrontendInit PROVE FrontendInv
  OBVIOUS
<1>1. part = "session" => Auth!IInv
  <2>1. part = "session" => Auth!Init
    BY DEF FrontendInit
  <2> QED
    BY <2>1, PartAssumptions, AuthInitIInv
<1>2. part = "signIn" => Login!IInv
  <2>1. part = "signIn" => Login!Init
    BY DEF FrontendInit
  <2> QED
    BY <2>1, PartAssumptions, LoginInitIInv
<1>3. part = "scans" => Scan!IInv
  <2>1. part = "scans" => Scan!Init
    BY DEF FrontendInit
  <2> QED
    BY <2>1, PartAssumptions, ScanInitIInv
<1>4. part = "appScans" => Apps!IInv
  <2>1. part = "appScans" => Apps!Init
    BY DEF FrontendInit
  <2> QED
    BY <2>1, PartAssumptions, AppsInitIInv
<1>5. part = "systems" => Sys!IInv
  <2>1. part = "systems" => Sys!Init
    BY DEF FrontendInit
  <2> QED
    BY <2>1, PartAssumptions, SysInitIInv
<1>6. part = "policyChat" => Chat!IInv
  <2>1. part = "policyChat" => Chat!Init
    BY DEF FrontendInit
  <2> QED
    BY <2>1, PartAssumptions, ChatInitIInv
<1>7. part = "policies" => Pol!IInv
  <2>1. part = "policies" => Pol!Init
    BY DEF FrontendInit
  <2> QED
    BY <2>1, PartAssumptions, PolInitIInv
<1>8. part = "orgSettings" => Org!IInv
  <2>1. part = "orgSettings" => Org!Init
    BY DEF FrontendInit
  <2> QED
    BY <2>1, PartAssumptions, OrgInitIInv
<1>9. part = "compliance" => Comp!IInv
  <2>1. part = "compliance" => Comp!Init
    BY DEF FrontendInit
  <2> QED
    BY <2>1, PartAssumptions, CompInitIInv
<1>10. part = "mcpServers" => Mcp!IInv
  <2>1. part = "mcpServers" => Mcp!Init
    BY DEF FrontendInit
  <2> QED
    BY <2>1, PartAssumptions, McpInitIInv
<1>11. part = "integrations" => Card!IInv
  <2>1. part = "integrations" => Card!Init
    BY DEF FrontendInit
  <2> QED
    BY <2>1, PartAssumptions, CardInitIInv
<1>12. part = "webhooks" => Hook!IInv
  <2>1. part = "webhooks" => Hook!Init
    BY DEF FrontendInit
  <2> QED
    BY <2>1, PartAssumptions, HookInitIInv
<1>13. part = "eventLog" => Log!IInv
  <2>1. part = "eventLog" => Log!Init
    BY DEF FrontendInit
  <2> QED
    BY <2>1, PartAssumptions, LogInitIInv
<1> QED
  BY <1>1, <1>2, <1>3, <1>4, <1>5, <1>6, <1>7, <1>8, <1>9, <1>10, <1>11, <1>12, <1>13
    DEF FrontendInv

\* Every step keeps it.
LEMMA FrontendNextInv == FrontendInv /\ [FrontendNext]_<<part, Slots>> => FrontendInv'
<1> SUFFICES ASSUME FrontendInv, [FrontendNext]_<<part, Slots>> PROVE FrontendInv'
  OBVIOUS
<1>0. part' = part
  BY PartMoves
<1>1. part' = "session" => Auth!IInv'
  <2>1. part' = "session" => Auth!IInv /\ [Auth!Next]_(Auth!vars)
    BY <1>0, PartMoves DEF FrontendInv
  <2> QED
    BY <2>1, PartAssumptions, AuthNextTypeOK, AuthNextKnownInv, AuthNextCallsInv DEF Auth!IInv
<1>2. part' = "signIn" => Login!IInv'
  <2>1. part' = "signIn" => Login!IInv /\ [Login!Next]_(Login!vars)
    BY <1>0, PartMoves DEF FrontendInv
  <2> QED
    BY <2>1, PartAssumptions, LoginNextIInv
<1>3. part' = "scans" => Scan!IInv'
  <2>1. part' = "scans" => Scan!IInv /\ [Scan!Next]_(Scan!vars)
    BY <1>0, PartMoves DEF FrontendInv
  <2> QED
    BY <2>1, PartAssumptions, ScanNextIInv
<1>4. part' = "appScans" => Apps!IInv'
  <2>1. part' = "appScans" => Apps!IInv /\ [Apps!Next]_(Apps!vars)
    BY <1>0, PartMoves DEF FrontendInv
  <2> QED
    BY <2>1, PartAssumptions, AppsNextIInv
<1>5. part' = "systems" => Sys!IInv'
  <2>1. part' = "systems" => Sys!IInv /\ [Sys!Next]_(Sys!vars)
    BY <1>0, PartMoves DEF FrontendInv
  <2> QED
    BY <2>1, PartAssumptions, SysNextIInv
<1>6. part' = "policyChat" => Chat!IInv'
  <2>1. part' = "policyChat" => Chat!IInv /\ [Chat!Next]_(Chat!vars)
    BY <1>0, PartMoves DEF FrontendInv
  <2> QED
    BY <2>1, PartAssumptions, ChatNextIInv
<1>7. part' = "policies" => Pol!IInv'
  <2>1. part' = "policies" => Pol!IInv /\ [Pol!Next]_(Pol!vars)
    BY <1>0, PartMoves DEF FrontendInv
  <2> QED
    BY <2>1, PartAssumptions, PolNextIInv
<1>8. part' = "orgSettings" => Org!IInv'
  <2>1. part' = "orgSettings" => Org!IInv /\ [Org!Next]_(Org!vars)
    BY <1>0, PartMoves DEF FrontendInv
  <2> QED
    BY <2>1, PartAssumptions, OrgNextTypeOK, OrgNextKeyedInv DEF Org!IInv
<1>9. part' = "compliance" => Comp!IInv'
  <2>1. part' = "compliance" => Comp!IInv /\ [Comp!Next]_(Comp!vars)
    BY <1>0, PartMoves DEF FrontendInv
  <2> QED
    BY <2>1, PartAssumptions, CompNextIInv
<1>10. part' = "mcpServers" => Mcp!IInv'
  <2>1. part' = "mcpServers" => Mcp!IInv /\ [Mcp!Next]_(Mcp!vars)
    BY <1>0, PartMoves DEF FrontendInv
  <2> QED
    BY <2>1, PartAssumptions, McpNextIInv
<1>11. part' = "integrations" => Card!IInv'
  <2>1. part' = "integrations" => Card!IInv /\ [Card!Next]_(Card!vars)
    BY <1>0, PartMoves DEF FrontendInv
  <2> QED
    BY <2>1, PartAssumptions, CardNextIInv
<1>12. part' = "webhooks" => Hook!IInv'
  <2>1. part' = "webhooks" => Hook!IInv /\ [Hook!Next]_(Hook!vars)
    BY <1>0, PartMoves DEF FrontendInv
  <2> QED
    BY <2>1, PartAssumptions, HookNextIInv
<1>13. part' = "eventLog" => Log!IInv'
  <2>1. part' = "eventLog" => Log!IInv /\ [Log!Next]_(Log!vars)
    BY <1>0, PartMoves DEF FrontendInv
  <2> QED
    BY <2>1, PartAssumptions, LogNextIInv
<1> QED
  BY <1>1, <1>2, <1>3, <1>4, <1>5, <1>6, <1>7, <1>8, <1>9, <1>10, <1>11, <1>12, <1>13
    DEF FrontendInv

-----------------------------------------------------------------------------
(* The theorems.                                                           *)

\* Whatever part a behaviour is about, its inductive invariant holds.
THEOREM FrontendInvariance == FrontendSpec => []FrontendInv
BY FrontendInitInv, FrontendNextInv, PTL DEF FrontendSpec

\* The session, the pages and the endpoints behind them keep their types.
THEOREM FrontendTypes == FrontendSpec => []FrontendTypeOK
<1>1. FrontendInv => FrontendTypeOK
  BY DEF FrontendInv, FrontendTypeOK, Auth!IInv, Login!IInv, Scan!IInv, Apps!IInv, Sys!IInv,
     Chat!IInv, Pol!IInv, Org!IInv, Comp!IInv, Mcp!IInv, Card!IInv, Hook!IInv, Log!IInv
<1> QED
  BY <1>1, FrontendInvariance, PTL

\* The cookie that the middleware admits pages by ends up that of the account they act for, for
\* any number of tabs and accounts, unless calls for two users crossed.
THEOREM CookiesFollowAccounts == FrontendSpec => []CookieFollowsAccount
<1>1. FrontendInv => CookieFollowsAccount
  BY DEF FrontendInv, CookieFollowsAccount, Auth!IInv, Auth!CallsInv, Auth!Behind,
     Auth!CookieFollowsAccount, Auth!Quiet
<1> QED
  BY <1>1, FrontendInvariance, PTL

\* The login form goes by a lookup of the address it shows, a one-time code is not used up in
\* vain unless something failed or the tab moved on, and what the page says of a sign-in is how
\* it ended, however lookups, effects, replies and failures fall.
THEOREM SignInsKeepAnswers == FrontendSpec => []SignInKeepsAnswers
<1>1. FrontendInv => SignInKeepsAnswers
  BY LoginFitsAndKeeps DEF FrontendInv, SignInKeepsAnswers
<1> QED
  BY <1>1, FrontendInvariance, PTL

\* Progress on show is that of a scan that is being made, and a link starts one scan.
THEOREM ScansFollowTheirRequests == FrontendSpec => []ScansFollowRequests
<1>1. FrontendInv => ScansFollowRequests
  BY ScanFollows DEF FrontendInv, ScansFollowRequests
<1> QED
  BY <1>1, FrontendInvariance, PTL

\* Scores stand at the designs they are of, for any projects and frames.
THEOREM ScoresStandAtFrames == FrontendSpec => []ScoresFitFrames
<1>1. FrontendInv => ScoresFitFrames
  BY PartAssumptions, AppsFits DEF FrontendInv, ScoresFitFrames
<1> QED
  BY <1>1, FrontendInvariance, PTL

\* The pages of systems, policies, organization and compliance show what is stored for what
\* they name, when nothing is in flight, for any number of each.
THEOREM PagesShowWhatIsStored == FrontendSpec => []PagesFollowServer
<1>1. FrontendInv /\ part = "orgSettings" => Org!SettledShowsActive
  BY PartAssumptions DEF FrontendInv, Org!IInv, Org!KeyedInv, Org!SettledShowsActive,
     Org!SettingsAssumption, Org!TypeOK
<1>2. FrontendInv => PagesFollowServer
  BY <1>1, PartAssumptions, SysFollows, PolFollows, CompFits DEF FrontendInv, PagesFollowServer
<1> QED
  BY <1>2, FrontendInvariance, PTL

\* Conversations are filed whole, and nothing said is lost to view, however many turns are
\* under way.
THEOREM ConversationsAreKept == FrontendSpec => []ConversationsKept
<1>1. FrontendInv => ConversationsKept
  BY PartAssumptions, ChatKept DEF FrontendInv, ConversationsKept
<1> QED
  BY <1>1, FrontendInvariance, PTL

\* The cards of the settings page show what is stored, and what is stored keeps what was done,
\* for any number of servers, services, webhooks and requests.
THEOREM CardsShowWhatIsStored == FrontendSpec => []CardsFollowServer
<1>1. FrontendInv => CardsFollowServer
  BY McpIInvKeepsWork, CardIInvFollows, HookIInvFollows DEF FrontendInv, CardsFollowServer
<1> QED
  BY <1>1, FrontendInvariance, PTL

\* Who reads the log from the first page to the last misses nothing, for any page size, log
\* and filter.
THEOREM ReadersMissNothing == FrontendSpec => []ReadingMissesNothing
<1>1. FrontendInv => ReadingMissesNothing
  BY PartAssumptions, LogMissesNothing DEF FrontendInv, ReadingMissesNothing
<1> QED
  BY <1>1, FrontendInvariance, PTL
=============================================================================
