----------------------- MODULE FrontendSettingsProofs -----------------------
(***************************************************************************)
(* What the proofs about Frontend need of three of its parts, the cards of *)
(* the settings page that list MCP servers, connections and webhooks: that *)
(* the inductive invariant of each, IInv of its module, holds initially, is*)
(* kept by every step, and implies what the card promises. In the proofs   *)
(* the slots of Frontend have the names that the part gives them.          *)
(***************************************************************************)
EXTENDS Frontend, TLAPS

-----------------------------------------------------------------------------
(* McpServers: registrations, and the card that lists them.                *)

\* What a document is made of.
LEMMA McpDocFields ==
    ASSUME Mcp!McpAssumption
    PROVE  /\ \A d \in Mcp!Docs, v \in 0..McpActs, st \in Mcp!Statuses :
                /\ [d EXCEPT !.client = TRUE, !.verifier = v, !.status = st] \in Mcp!Docs
                /\ [d EXCEPT !.status = st] \in Mcp!Docs
           /\ Mcp!Blank \in Mcp!Docs
           /\ \A u \in Urls, tk \in {"", "bearer"} : [Mcp!Blank EXCEPT !.url = u, !.token = tk]
                \in Mcp!Docs
<1>1. 0 \in 0..McpActs
  BY DEF Mcp!McpAssumption
<1>2. Mcp!Blank \in Mcp!Docs
  BY <1>1 DEF Mcp!Blank, Mcp!Docs, Mcp!Statuses, Mcp!McpAssumption
<1>3. \A u \in Urls, tk \in {"", "bearer"} : [Mcp!Blank EXCEPT !.url = u, !.token = tk]
      \in Mcp!Docs
  BY <1>2 DEF Mcp!Docs
<1> QED
  BY <1>2, <1>3 DEF Mcp!Docs

\* What a request is made of.
LEMMA McpRequestFields ==
    ASSUME NEW j \in Mcp!Requests
    PROVE  /\ \A p \in Mcp!Phases : [j EXCEPT !.phase = p] \in Mcp!Requests
           /\ \A p \in Mcp!Phases, d \in Mcp!Docs : [j EXCEPT !.phase = p, !.doc = d]
                \in Mcp!Requests
           /\ [j EXCEPT !.own = FALSE] \in Mcp!Requests
<1>1. \A p \in Mcp!Phases : [j EXCEPT !.phase = p] \in Mcp!Requests
  BY DEF Mcp!Requests
<1>2. \A p \in Mcp!Phases, d \in Mcp!Docs : [j EXCEPT !.phase = p, !.doc = d] \in Mcp!Requests
  BY DEF Mcp!Requests
<1>3. [j EXCEPT !.own = FALSE] \in Mcp!Requests
  BY DEF Mcp!Requests
<1> QED
  BY <1>1, <1>2, <1>3

\* What the types say of single variables.
LEMMA McpBounds ==
    ASSUME Mcp!McpAssumption, Mcp!TypeOK
    PROVE  /\ McpActs \in Nat /\ s12 \in 0..McpActs /\ 0 \in 0..McpActs
           /\ Mcp!Act => s12' \in 1..McpActs /\ s12' \in 0..McpActs /\ s12' = s12 + 1
           /\ Mcp!Ids \subseteq 0..McpActs /\ 0 \notin Mcp!Ids
           /\ \A j \in s3 :
                /\ j \in Mcp!Requests /\ j.doc \in Mcp!Docs /\ j.id \in Mcp!Ids
                     /\ j.n \in Mcp!Ids /\ j.n \in 0..McpActs
                /\ j.code \in 0..McpActs
<1> DEFINE jobs == s3  acts == s12
<1>1. McpActs \in Nat /\ acts \in 0..McpActs /\ jobs \subseteq Mcp!Requests
  BY Zenon DEF Mcp!TypeOK, Mcp!McpAssumption
<1>2. Mcp!Ids \subseteq 0..McpActs /\ 0 \notin Mcp!Ids /\ 0 \in 0..McpActs
  BY <1>1 DEF Mcp!Ids
<1>3. Mcp!Act => acts' \in 1..McpActs /\ acts' \in 0..McpActs /\ acts' = acts + 1
  BY <1>1 DEF Mcp!Act
<1>4. \A j \in Mcp!Requests : j.doc \in Mcp!Docs /\ j.id \in Mcp!Ids /\ j.n \in Mcp!Ids
      /\ j.code \in 0..McpActs
  BY DEF Mcp!Requests, Mcp!Ids
<1> QED
  BY <1>1, <1>2, <1>3, <1>4

\* A request that the page makes.
LEMMA McpAsked ==
    ASSUME Mcp!McpAssumption, Mcp!TypeOK, Mcp!Act, NEW kind \in Mcp!Kinds, NEW id \in Mcp!Ids,
           NEW doc \in Mcp!Docs
    PROVE  /\ s12' \in Mcp!Ids /\ s12' \in 0..McpActs
           /\ Mcp!Request(kind, id, doc) \in Mcp!Requests
           /\ \A co \in 0..McpActs : [Mcp!Request(kind, id, doc) EXCEPT !.code = co]
                \in Mcp!Requests
<1> DEFINE acts == s12
<1>1. acts' \in 1..McpActs /\ acts' \in 0..McpActs /\ 0 \in 0..McpActs
  BY McpBounds
<1>2. Mcp!Request(kind, id, doc) \in Mcp!Requests
  BY <1>1 DEF Mcp!Request, Mcp!Requests, Mcp!Phases
<1>3. \A co \in 0..McpActs : [Mcp!Request(kind, id, doc) EXCEPT !.code = co] \in Mcp!Requests
  BY <1>2 DEF Mcp!Requests
<1> QED
  BY <1>1, <1>2, <1>3 DEF Mcp!Ids

\* What becomes of the requests when the page is left.
LEMMA McpOrphansTyped ==
    ASSUME Mcp!TypeOK
    PROVE  Mcp!Orphans \subseteq Mcp!Requests
<1> DEFINE jobs == s3
<1>1. \A k \in jobs : [k EXCEPT !.own = FALSE] \in Mcp!Requests
  BY McpRequestFields DEF Mcp!TypeOK
<1> QED
  BY <1>1 DEF Mcp!Orphans

-----------------------------------------------------------------------------
\* The invariant holds initially.
LEMMA McpInitIInv ==
    ASSUME Mcp!McpAssumption, Mcp!Init
    PROVE  Mcp!IInv
<1> DEFINE servers == s2  jobs == s3  asked == s6  connecting == s10  acts == s12
           doubled == s16  raced == s17
<1>1. Mcp!TypeOK
  <2>1. acts \in 0..McpActs /\ asked \in [code : 0..McpActs, id : 0..McpActs]
    <3>1. acts = 0 /\ asked = [code |-> 0, id |-> 0]
      BY DEF Mcp!Init, Mcp!NoId
    <3>2. 0 \in 0..McpActs
      BY DEF Mcp!McpAssumption
    <3> QED
      BY <3>1, <3>2
  <2>2. {doubled, raced} \subseteq BOOLEAN /\ connecting \in BOOLEAN
    BY DEF Mcp!Init
  <2>3. DOMAIN servers \subseteq Mcp!Ids /\ servers \in [DOMAIN servers -> Mcp!Docs]
    BY DEF Mcp!Init
  <2> QED
    BY <2>1, <2>2, <2>3 DEF Mcp!Init, Mcp!TypeOK
<1>2. Mcp!Known = {0} /\ acts = 0 /\ jobs = {} /\ DOMAIN servers = {}
  BY DEF Mcp!Init, Mcp!Known, Mcp!NoList, Mcp!Sent, Mcp!NoId
<1>3. Mcp!FreshInv
  BY <1>2 DEF Mcp!FreshInv
<1>4. Mcp!WorkInv /\ Mcp!UrlInv
  BY <1>2 DEF Mcp!WorkInv, Mcp!UrlInv
<1>5. Mcp!CardInv
  BY DEF Mcp!CardInv, Mcp!Init, Mcp!Sent, Mcp!Idle
<1> QED
  BY <1>1, <1>3, <1>4, <1>5 DEF Mcp!IInv

\* What a step of the backend does to the rest of the state.
LEMMA McpNextTypeOK ==
    ASSUME Mcp!McpAssumption, Mcp!TypeOK, Mcp!WorkInv, [Mcp!Next]_(Mcp!vars)
    PROVE  Mcp!TypeOK'
<1> DEFINE needs == s1  servers == s2  jobs == s3  spent == s4  place == s5  asked == s6
           list == s7  fetch == s8  busy == s9  connecting == s10  modal == s11  acts == s12
           removed == s13  granted == s14  crossed == s15  doubled == s16  raced == s17
<1> USE DEF Mcp!Kinds, Mcp!Phases
<1>1. CASE UNCHANGED Mcp!vars
  BY <1>1 DEF Mcp!TypeOK, Mcp!vars, Mcp!backend, Mcp!card, Mcp!browser, Mcp!history
<1>2. ASSUME NEW j \in jobs, Mcp!ReadRegister(j) PROVE Mcp!TypeOK'
  <2>1. jobs' \subseteq Mcp!Requests
    <3>1. [j EXCEPT !.phase = "failed"] \in Mcp!Requests
          /\ [j EXCEPT !.phase = "read"] \in Mcp!Requests
      BY McpRequestFields DEF Mcp!TypeOK
    <3> QED
      BY <1>2, <3>1 DEF Mcp!ReadRegister, Mcp!Moves, Mcp!Becomes, Mcp!TypeOK
  <2>2. doubled' \in BOOLEAN
    BY <1>2 DEF Mcp!ReadRegister
  <2> QED
    BY <1>2, <2>1, <2>2 DEF Mcp!ReadRegister, Mcp!TypeOK, Mcp!backend, Mcp!card, Mcp!browser
<1>3. ASSUME NEW j \in jobs, Mcp!ReadDocument(j) PROVE Mcp!TypeOK'
  <2>1. jobs' \subseteq Mcp!Requests
    <3>1. [j EXCEPT !.phase = "failed"] \in Mcp!Requests
      BY McpRequestFields DEF Mcp!TypeOK
    <3>2. ASSUME j.id \in DOMAIN servers
          PROVE  [j EXCEPT !.phase = "read", !.doc = servers[j.id]] \in Mcp!Requests
      BY <3>2, McpRequestFields DEF Mcp!TypeOK
    <3> QED
      BY <1>3, <3>1, <3>2 DEF Mcp!ReadDocument, Mcp!Moves, Mcp!Becomes, Mcp!TypeOK
  <2>2. crossed' \subseteq Mcp!Ids
    BY <1>3 DEF Mcp!ReadDocument, Mcp!Crossing, Mcp!TypeOK, Mcp!Requests
  <2> QED
    BY <1>3, <2>1, <2>2 DEF Mcp!ReadDocument, Mcp!TypeOK, Mcp!backend, Mcp!card, Mcp!browser
<1>4. ASSUME NEW j \in jobs, Mcp!Delete(j) PROVE Mcp!TypeOK'
  <2>1. jobs' \subseteq Mcp!Requests
    <3>1. [j EXCEPT !.phase = "failed"] \in Mcp!Requests
          /\ [j EXCEPT !.phase = "done"] \in Mcp!Requests
      BY McpRequestFields DEF Mcp!TypeOK
    <3> QED
      BY <1>4, <3>1 DEF Mcp!Delete, Mcp!Moves, Mcp!Becomes, Mcp!TypeOK
  <2>2. crossed' \subseteq Mcp!Ids /\ removed' \subseteq Mcp!Ids
    BY <1>4 DEF Mcp!Delete, Mcp!Crossing, Mcp!TypeOK, Mcp!Requests
  <2>3. DOMAIN servers' \subseteq Mcp!Ids /\ servers' \in [DOMAIN servers' -> Mcp!Docs]
    <3>1. DOMAIN servers \subseteq Mcp!Ids /\ servers \in [DOMAIN servers -> Mcp!Docs]
      BY Zenon DEF Mcp!TypeOK
    <3>2. servers' = servers \/ servers' = [id \in DOMAIN servers \ {j.id} |-> servers[id]]
      BY <1>4 DEF Mcp!Delete
    <3> QED
      BY <3>1, <3>2
  <2>4. raced' \in BOOLEAN
    BY <1>4 DEF Mcp!Delete
  <2>5. UNCHANGED <<needs, spent, list, fetch, busy, connecting, modal, place, asked, acts, granted, doubled>>
    BY <1>4 DEF Mcp!Delete, Mcp!card, Mcp!browser
  <2> QED
    BY <2>1, <2>2, <2>3, <2>4, <2>5 DEF Mcp!TypeOK
<1>5. ASSUME NEW j \in jobs, Mcp!Exchange(j) PROVE Mcp!TypeOK'
  <2>0. j \in Mcp!Requests /\ j.doc \in Mcp!Docs /\ 0 \in 0..McpActs
    BY McpBounds
  <2>1. jobs' \subseteq Mcp!Requests
    <3>1. [j EXCEPT !.phase = "failed"] \in Mcp!Requests
      BY <2>0, McpRequestFields
    <3>2. [j.doc EXCEPT !.token = "oauth", !.verifier = 0] \in Mcp!Docs
      BY <2>0 DEF Mcp!Docs
    <3> DEFINE e == [j EXCEPT !.phase = "exchanged", !.doc = [j.doc EXCEPT !.token = "oauth", !.verifier = 0]]
    <3>3. e \in Mcp!Requests
      BY <2>0, <3>2, McpRequestFields
    <3>4. [j EXCEPT !.phase = "exchanged", !.doc.token = "oauth", !.doc.verifier = 0] = e
      BY <2>0 DEF Mcp!Requests, Mcp!Docs
    <3> QED
      BY <1>5, <3>1, <3>3, <3>4 DEF Mcp!Exchange, Mcp!Moves, Mcp!Becomes, Mcp!TypeOK
  <2>2. spent' \subseteq Mcp!Ids
    <3>1. CASE spent' = spent
      BY <3>1 DEF Mcp!TypeOK
    <3>2. CASE spent' = spent \cup {j.code} /\ j.doc.verifier = j.code
      <4>1. j.code \in 0..McpActs /\ j.code # 0
        BY <1>5, <2>0, <3>2 DEF Mcp!Exchange, Mcp!WorkInv, Mcp!Requests
      <4>2. j.code \in Mcp!Ids
        BY <4>1 DEF Mcp!Ids, Mcp!McpAssumption
      <4> QED
        BY <3>2, <4>2 DEF Mcp!TypeOK
    <3> QED
      BY <1>5, <3>1, <3>2 DEF Mcp!Exchange
  <2> QED
    BY <1>5, <2>1, <2>2 DEF Mcp!Exchange, Mcp!TypeOK, Mcp!card, Mcp!browser, Mcp!history
<1>6. ASSUME NEW j \in jobs, Mcp!Save(j) PROVE Mcp!TypeOK'
  <2>0. j \in Mcp!Requests /\ j.doc \in Mcp!Docs /\ j.id \in Mcp!Ids /\ j.n \in 0..McpActs
    BY McpBounds
  <2>1. PICK st \in Mcp!Statuses :
          LET doc == IF j.kind = "authorize"
                     THEN [j.doc EXCEPT !.client = TRUE, !.verifier = j.n, !.status = "oauth_required"]
                     ELSE [j.doc EXCEPT !.status = st]
          IN  /\ servers' = [id \in DOMAIN servers \cup {j.id} |-> IF id = j.id THEN doc ELSE servers[id]]
              /\ Mcp!Becomes(j, [j EXCEPT !.phase = "done", !.doc = doc])
              /\ acts' = acts \/ Mcp!Act
    BY <1>6 DEF Mcp!Save
  <2> DEFINE doc == IF j.kind = "authorize"
                    THEN [j.doc EXCEPT !.client = TRUE, !.verifier = j.n, !.status = "oauth_required"]
                    ELSE [j.doc EXCEPT !.status = st]
  <2>2. doc \in Mcp!Docs
    BY <2>0, McpDocFields DEF Mcp!Statuses
  <2>3. /\ servers' = [id \in DOMAIN servers \cup {j.id} |-> IF id = j.id THEN doc ELSE servers[id]]
        /\ Mcp!Becomes(j, [j EXCEPT !.phase = "done", !.doc = doc])
    BY <2>1
  <2> HIDE DEF doc
  <2>4. jobs' \subseteq Mcp!Requests
    BY <2>0, <2>2, <2>3, McpRequestFields DEF Mcp!Becomes, Mcp!TypeOK
  <2>5. DOMAIN servers' \subseteq Mcp!Ids /\ servers' \in [DOMAIN servers' -> Mcp!Docs]
    BY <2>0, <2>2, <2>3 DEF Mcp!TypeOK
  <2>6. acts' \in 0..McpActs
    BY <2>1, McpBounds
  <2>7. granted' \subseteq Mcp!Ids
    BY <1>6, <2>0 DEF Mcp!Save, Mcp!TypeOK
  <2>8. raced' \in BOOLEAN
    BY <1>6 DEF Mcp!Save
  <2>9. UNCHANGED <<needs, spent, list, fetch, busy, connecting, modal, place, asked, removed, crossed, doubled>>
    BY <1>6 DEF Mcp!Save, Mcp!card, Mcp!browser
  <2> QED
    BY <2>4, <2>5, <2>6, <2>7, <2>8, <2>9 DEF Mcp!TypeOK
<1>7. ASSUME NEW j \in jobs, Mcp!Fail(j) PROVE Mcp!TypeOK'
  <2>1. jobs' \subseteq Mcp!Requests
    BY <1>7, McpRequestFields DEF Mcp!Fail, Mcp!Moves, Mcp!Becomes, Mcp!TypeOK
  <2>0. acts' \in 0..McpActs
    BY <1>7, McpBounds DEF Mcp!Fail
  <2>2. raced' \in BOOLEAN
    BY <1>7 DEF Mcp!Fail
  <2> QED
    BY <1>7, <2>0, <2>1, <2>2 DEF Mcp!Fail, Mcp!TypeOK, Mcp!backend, Mcp!card, Mcp!browser
<1>8. ASSUME NEW j \in jobs, Mcp!Answered(j) PROVE Mcp!TypeOK'
  <2>1. jobs' \subseteq Mcp!Requests
    <3>1. \A k \in jobs :
              [k EXCEPT !.phase = IF k = j THEN "waits" ELSE IF k.phase = "waits" THEN "free" ELSE @] \in Mcp!Requests
      <4> TAKE k \in jobs
      <4>1. k \in Mcp!Requests /\ k.phase \in Mcp!Phases
        BY McpBounds DEF Mcp!Requests
      <4>2. CASE k = j
        BY <4>1, <4>2, McpRequestFields
      <4>3. CASE k # j
        BY <4>1, <4>3, McpRequestFields
      <4> QED
        BY <4>2, <4>3
    <3> QED
      BY <1>8, <3>1 DEF Mcp!Answered, Mcp!Refetching
  <2>2. raced' \in BOOLEAN
    BY <1>8 DEF Mcp!Answered, Mcp!Refetching
  <2> QED
    BY <1>8, <2>1, <2>2 DEF Mcp!Answered, Mcp!TypeOK, Mcp!backend, Mcp!browser
<1>9. ASSUME NEW j \in jobs, Mcp!Finish(j) PROVE Mcp!TypeOK'
  <2>1. jobs' \subseteq Mcp!Requests
    BY <1>9 DEF Mcp!Finish, Mcp!TypeOK
  <2>2. busy' \in Mcp!Ids \cup {Mcp!NoId} /\ connecting' \in BOOLEAN
    BY <1>9 DEF Mcp!Finish, Mcp!TypeOK
  <2>3. modal' \in Mcp!Statuses \cup {""}
    BY <1>9 DEF Mcp!Finish, Mcp!TypeOK, Mcp!Requests, Mcp!Docs
  <2> QED
    BY <1>9, <2>1, <2>2, <2>3 DEF Mcp!Finish, Mcp!TypeOK, Mcp!backend, Mcp!browser, Mcp!history
<1>10. ASSUME NEW to \in {"page", "consent", "callback"}, Mcp!Unload(to)
       PROVE  /\ busy' \in Mcp!Ids \cup {Mcp!NoId} /\ connecting' \in BOOLEAN
                   /\ modal' \in Mcp!Statuses \cup {""}
              /\ place' = to /\ raced' \in BOOLEAN
  BY <1>10 DEF Mcp!Unload
<1>11. ASSUME NEW j \in jobs, Mcp!Authorize(j) PROVE Mcp!TypeOK'
  <2>1. asked' \in [code : 0..McpActs, id : 0..McpActs] /\ asked'.id \in Mcp!Ids
    BY <1>11, McpBounds DEF Mcp!Authorize
  <2> QED
    BY <1>10, <1>11, <2>1, McpOrphansTyped DEF Mcp!Authorize, Mcp!TypeOK, Mcp!backend
<1>12. ASSUME NEW j \in jobs, Mcp!Redirected(j) PROVE Mcp!TypeOK'
  BY <1>10, <1>12, McpOrphansTyped DEF Mcp!Redirected, Mcp!TypeOK, Mcp!backend
<1>13. ASSUME NEW j \in jobs, Mcp!Drop(j) PROVE Mcp!TypeOK'
  BY <1>13 DEF Mcp!Drop, Mcp!TypeOK, Mcp!backend, Mcp!card, Mcp!browser, Mcp!history
<1>14. ASSUME NEW url \in Urls, Mcp!Register(url) PROVE Mcp!TypeOK'
  <2>1. Mcp!Act /\ acts' \in Mcp!Ids /\ acts' \in 0..McpActs
    BY <1>14, McpBounds DEF Mcp!Register, Mcp!Ids
  <2>2. \A tk \in {"", "bearer"} :
            Mcp!Request("register", acts', [Mcp!Blank EXCEPT !.url = url, !.token = tk])
            \in Mcp!Requests
    BY <2>1, McpAsked, McpDocFields
  <2>3. jobs' \subseteq Mcp!Requests
    BY <1>14, <2>2 DEF Mcp!Register, Mcp!TypeOK
  <2> QED
    BY <1>14, <2>1, <2>3 DEF Mcp!Register, Mcp!TypeOK, Mcp!backend, Mcp!browser, Mcp!history
<1>15. ASSUME NEW kind \in {"audit", "remove", "authorize"}, NEW id \in Mcp!Ids, Mcp!Click(kind, id)
       PROVE  Mcp!TypeOK'
  <2>1. Mcp!Act /\ acts' \in 0..McpActs /\ Mcp!Request(kind, id, Mcp!Blank) \in Mcp!Requests
    BY <1>15, McpAsked, McpDocFields DEF Mcp!Click
  <2> QED
    BY <1>15, <2>1 DEF Mcp!Click, Mcp!TypeOK, Mcp!backend, Mcp!browser, Mcp!history
<1>16. ASSUME Mcp!Serve PROVE Mcp!TypeOK'
  BY <1>16 DEF Mcp!Serve, Mcp!TypeOK, Mcp!backend, Mcp!browser, Mcp!history
<1>17. ASSUME Mcp!Fetched PROVE Mcp!TypeOK'
  <2>2. \A k \in jobs : [k EXCEPT !.phase = IF @ = "waits" THEN "free" ELSE @] \in Mcp!Requests
    BY DEF Mcp!TypeOK, Mcp!Requests
  <2>3. jobs' \subseteq Mcp!Requests
    BY <1>17, <2>2 DEF Mcp!Fetched
  <2> QED
    BY <1>17, <2>3 DEF Mcp!Fetched, Mcp!TypeOK, Mcp!backend, Mcp!browser, Mcp!history
<1>18. ASSUME Mcp!CloseModal PROVE Mcp!TypeOK'
  BY <1>18 DEF Mcp!CloseModal, Mcp!TypeOK, Mcp!backend, Mcp!browser, Mcp!history
<1>19. ASSUME Mcp!Consent PROVE Mcp!TypeOK'
  <2>1. Mcp!Act /\ asked.id \in Mcp!Ids /\ asked.code \in 0..McpActs
    BY <1>19 DEF Mcp!Consent, Mcp!TypeOK
  <2>2. acts' \in 0..McpActs
        /\ [Mcp!Request("callback", asked.id, Mcp!Blank) EXCEPT !.code = asked.code]
             \in Mcp!Requests
    BY <2>1, McpAsked, McpDocFields
  <2> QED
    BY <1>19, <2>1, <2>2, McpOrphansTyped DEF Mcp!Consent, Mcp!TypeOK, Mcp!backend, Mcp!card,
      Mcp!history
<1>20. ASSUME Mcp!Reload PROVE Mcp!TypeOK'
  <2>1. acts' \in 0..McpActs
    BY <1>20, McpBounds DEF Mcp!Reload
  <2> QED
    BY <1>10, <1>20, <2>1, McpOrphansTyped DEF Mcp!Reload, Mcp!TypeOK, Mcp!backend
<1>21. ASSUME Mcp!Deny PROVE Mcp!TypeOK'
  BY <1>10, <1>21 DEF Mcp!Deny, Mcp!TypeOK, Mcp!backend
<1> QED
  BY <1>1, <1>2, <1>3, <1>4, <1>5, <1>6, <1>7, <1>8, <1>9, <1>11, <1>12, <1>13, <1>14, <1>15,
  <1>16,
     <1>17, <1>18, <1>19, <1>20, <1>21 DEF Mcp!Next

-----------------------------------------------------------------------------
\* A step that changes each request by T and adds the requests in New: the ids of the
\* registrations stay unknown.
LEMMA McpFreshKept ==
    ASSUME Mcp!McpAssumption, Mcp!TypeOK, Mcp!FreshInv, NEW T, NEW New,
           s12' \in Nat, s12 <= s12',
           s3' \subseteq {T[k] : k \in s3} \cup New,
           \A k \in s3 : T[k].id = k.id /\ (Mcp!Pending(T[k]) => Mcp!Pending(k)),
           \A r \in New : /\ r.id <= s12'
                          /\ Mcp!Pending(r) => r.id = s12' /\ s12' = s12 + 1 /\ New = {r}
                          /\ ~Mcp!Pending(r) => r.id \in Mcp!Known,
           \A x \in Mcp!Known' : x \in Mcp!Known \/ x = 0 \/ \E k \in s3 : x = k.id
           /\ ~Mcp!Pending(T[k])
    PROVE  Mcp!FreshInv'
<1> DEFINE jobs == s3  acts == s12
<1>1. /\ \A k \in jobs : k.id \in 1..acts
      /\ \A x \in Mcp!Known : x \in 0..acts
      /\ acts \in Nat
  BY McpBounds DEF Mcp!FreshInv, Mcp!Ids
<1>2. Mcp!Known' \subseteq 0..acts'
  BY <1>1
<1>3. \A j \in jobs' : j.id <= acts'
  BY <1>1
<1>4. ASSUME NEW j \in jobs', Mcp!Pending(j)
      PROVE  j.id \notin Mcp!Known' /\ \A k \in jobs' : k.id = j.id => k = j
  <2>1. CASE j \in New
    <3>1. j.id = acts + 1 /\ New = {j}
      BY <1>4, <2>1
    <3>2. j.id \notin Mcp!Known /\ j.id # 0 /\ \A k \in jobs : k.id # j.id
      BY <1>1, <3>1
    <3> QED
      BY <3>1, <3>2
  <2>2. CASE j \notin New
    <3>1. PICK p \in jobs : j = T[p]
      BY <2>2
    <3>2. Mcp!Pending(p) /\ p.id = j.id
      BY <1>4, <3>1
    <3>3. j.id \notin Mcp!Known /\ j.id # 0 /\ \A k \in jobs : k.id = j.id => k = p
      BY <1>1, <3>2 DEF Mcp!FreshInv
    <3>4. j.id \notin Mcp!Known'
      BY <1>4, <3>1, <3>3
    <3>5. ASSUME NEW k \in jobs', k.id = j.id PROVE k = j
      <4>1. CASE k \in New
        <5>1. CASE Mcp!Pending(k)
          BY <1>1, <3>2, <3>5, <4>1, <5>1
        <5>2. CASE ~Mcp!Pending(k)
          BY <3>3, <3>5, <4>1, <5>2
        <5> QED
          BY <5>1, <5>2
      <4>2. CASE k \notin New
        BY <3>1, <3>3, <3>5, <4>2
      <4> QED
        BY <4>1, <4>2
    <3> QED
      BY <3>4, <3>5
  <2> QED
    BY <2>1, <2>2
<1>5. \A j \in jobs' : Mcp!Pending(j)' <=> Mcp!Pending(j)
  BY DEF Mcp!Pending
<1> QED
  BY <1>2, <1>3, <1>4, <1>5 DEF Mcp!FreshInv

\* Unless the step lets a request read or write, neither what was done nor the URLs are
\* touched.
LEMMA McpWorkKept ==
    ASSUME Mcp!WorkInv, NEW T, NEW New,
           s3' \subseteq {T[k] : k \in s3} \cup New,
           \A k \in s3 : /\ T[k].id = k.id /\ T[k].kind = k.kind
                         /\ Mcp!Running(T[k]) => T[k].phase = k.phase /\ T[k].doc = k.doc,
           \A r \in New : r.phase = "sent",
           s15 \subseteq s15',
           \A id \in DOMAIN s2' : id \in DOMAIN s2 /\ s2'[id] = s2[id],
           \A id \in DOMAIN s2' : (id \in s13' => id \in s13) /\ (id \in s14' => id \in s14),
           \A k \in s3 : Mcp!Alone(k) /\ Mcp!Running(T[k]) /\ k.id \notin s15'
           /\ k.id \in DOMAIN s2
               => k.id \in DOMAIN s2'
    PROVE  Mcp!WorkInv' /\ (Mcp!UrlInv => Mcp!UrlInv')
<1> DEFINE servers == s2  jobs == s3  removed == s13  granted == s14  crossed == s15
<1>1. ASSUME NEW j \in jobs', Mcp!Running(j)
      PROVE  \E p \in jobs : j = T[p] /\ j.id = p.id /\ j.kind = p.kind /\ j.phase = p.phase /\ j.doc = p.doc
                             /\ Mcp!Running(p)
  BY <1>1 DEF Mcp!Running
<1>2. ASSUME NEW j \in jobs', Mcp!Running(j), j.id \notin crossed'
      PROVE  \E p \in jobs : j = T[p] /\ j.id = p.id /\ j.kind = p.kind /\ j.phase = p.phase /\ j.doc = p.doc
                             /\ Mcp!Alone(p)
  BY <1>1, <1>2 DEF Mcp!Alone
<1>3. \A id \in DOMAIN servers' \ crossed' : id \notin removed'
      /\ (id \in granted' => servers'[id].token = "oauth")
  BY DEF Mcp!WorkInv
<1>4. ASSUME NEW j \in jobs', NEW k \in jobs', Mcp!Running(j), j.id \notin crossed', Mcp!Running(k), k.id = j.id
      PROVE  k = j
  BY <1>1, <1>2, <1>4 DEF Mcp!WorkInv
<1>5. ASSUME NEW j \in jobs', Mcp!Running(j), j.id \notin crossed', j.kind # "register"
      PROVE  /\ j.id \in DOMAIN servers' /\ servers'[j.id].url = j.doc.url
             /\ servers'[j.id].token = "oauth" => j.doc.token = "oauth"
  <2>1. PICK p \in jobs : j = T[p] /\ j.id = p.id /\ j.kind = p.kind /\ j.phase = p.phase /\ j.doc = p.doc
                          /\ Mcp!Alone(p)
    BY <1>2, <1>5
  <2>2. /\ p.id \in DOMAIN servers /\ servers[p.id].url = p.doc.url
        /\ servers[p.id].token = "oauth" => p.doc.token = "oauth"
    BY <1>5, <2>1 DEF Mcp!WorkInv
  <2>3. p.id \in DOMAIN servers'
    BY <1>5, <2>1, <2>2
  <2> QED
    BY <2>1, <2>2, <2>3
<1>6. ASSUME NEW j \in jobs', j.kind = "callback"
      PROVE  /\ j.phase = "read" => j.doc.verifier # 0
             /\ j.phase = "exchanged" => j.doc.token = "oauth"
  BY <1>1, <1>6 DEF Mcp!WorkInv, Mcp!Running
<1>7. Mcp!WorkInv'
  BY <1>3, <1>4, <1>5, <1>6 DEF Mcp!WorkInv, Mcp!Alone, Mcp!Running
<1>8. ASSUME Mcp!UrlInv PROVE Mcp!UrlInv'
  <2>1. \A i, k \in DOMAIN servers' \ crossed' : servers'[i].url = servers'[k].url => i = k
    BY <1>8 DEF Mcp!UrlInv
  <2>2. ASSUME NEW j \in jobs', Mcp!Registering(j)
        PROVE  /\ \A id \in DOMAIN servers' \ crossed' : servers'[id].url # j.doc.url
               /\ \A k \in jobs' : Mcp!Registering(k) /\ k.doc.url = j.doc.url => k = j
    BY <1>1, <1>8, <2>2 DEF Mcp!UrlInv, Mcp!Registering
  <2> QED
    BY <2>1, <2>2 DEF Mcp!UrlInv, Mcp!Registering, Mcp!Running
<1> QED
  BY <1>7, <1>8

\* What the card has fetched is good for as long as nothing is stored and no answer is lost.
LEMMA McpCardKept ==
    ASSUME Mcp!CardInv, UNCHANGED <<s7, s8, s5, s2>>,
           s17 => s17', Mcp!Unsaid => Mcp!Unsaid' \/ s17'
    PROVE  Mcp!CardInv'
<1> DEFINE servers == s2
<1>1. Mcp!View(servers') = Mcp!View(servers) /\ Mcp!Idle' = Mcp!Idle /\ Mcp!Sent' = Mcp!Sent
  BY DEF Mcp!View, Mcp!Idle, Mcp!Sent
<1>2. Mcp!View(servers)' = Mcp!View(servers')
  BY DEF Mcp!View
<1> QED
  BY <1>1, <1>2 DEF Mcp!CardInv

-----------------------------------------------------------------------------
\* One request moves on, and the ids that are known grow by its own at most.
LEMMA McpFreshMove ==
    ASSUME Mcp!McpAssumption, Mcp!TypeOK, Mcp!FreshInv, NEW j \in s3, NEW e,
           s12' \in Nat, s12 <= s12',
           s3' = (s3 \ {j}) \cup {e},
           e.id = j.id, Mcp!Pending(e) => Mcp!Pending(j),
           \A x \in Mcp!Known' : x \in Mcp!Known \/ x = 0 \/ (x = j.id /\ ~Mcp!Pending(e))
    PROVE  Mcp!FreshInv'
<1> DEFINE jobs == s3
<1> DEFINE T == [k \in jobs |-> IF k = j THEN e ELSE k]
           New == {}
<1>1. /\ jobs' \subseteq {T[k] : k \in jobs} \cup New
      /\ \A k \in jobs : T[k].id = k.id /\ (Mcp!Pending(T[k]) => Mcp!Pending(k))
      /\ T[j] = e
      /\ \A r : r \notin New
  OBVIOUS
<1> HIDE DEF T, New
<1>2. \A x \in Mcp!Known' : x \in Mcp!Known \/ x = 0 \/ \E k \in jobs : x = k.id
      /\ ~Mcp!Pending(T[k])
  BY <1>1
<1> QED
  BY <1>1, <1>2, McpFreshKept

\* One request comes to rest.
LEMMA McpWorkMove ==
    ASSUME Mcp!WorkInv, NEW j \in s3, NEW e,
           s3' = (s3 \ {j}) \cup {e},
           e.id = j.id, e.kind = j.kind, ~Mcp!Running(e),
           s15 \subseteq s15',
           \A id \in DOMAIN s2' : id \in DOMAIN s2 /\ s2'[id] = s2[id],
           \A id \in DOMAIN s2' : (id \in s13' => id \in s13) /\ (id \in s14' => id \in s14),
           \A k \in s3 \ {j} : Mcp!Alone(k) /\ k.id \notin s15' /\ k.id \in DOMAIN s2
               => k.id \in DOMAIN s2'
    PROVE  Mcp!WorkInv' /\ (Mcp!UrlInv => Mcp!UrlInv')
<1> DEFINE jobs == s3
<1> DEFINE T == [k \in jobs |-> IF k = j THEN e ELSE k]
           New == {}
<1>1. /\ jobs' \subseteq {T[k] : k \in jobs} \cup New
      /\ \A k \in jobs : /\ T[k].id = k.id /\ T[k].kind = k.kind
                         /\ Mcp!Running(T[k]) => T[k].phase = k.phase /\ T[k].doc = k.doc
      /\ \A k \in jobs : Mcp!Running(T[k]) => k # j
      /\ \A r : r \notin New
  OBVIOUS
<1> HIDE DEF T, New
<1> QED
  BY <1>1, McpWorkKept

\* A request in another phase.
LEMMA McpPhased ==
    ASSUME NEW j \in Mcp!Requests, NEW p
    PROVE  /\ [j EXCEPT !.phase = p].phase = p
           /\ [j EXCEPT !.phase = p].id = j.id /\ [j EXCEPT !.phase = p].kind = j.kind
           /\ [j EXCEPT !.phase = p].doc = j.doc /\ [j EXCEPT !.phase = p].own = j.own
           /\ \A d : /\ [j EXCEPT !.phase = p, !.doc = d].phase = p
                     /\ [j EXCEPT !.phase = p, !.doc = d].doc = d
                     /\ [j EXCEPT !.phase = p, !.doc = d].id = j.id
                     /\ [j EXCEPT !.phase = p, !.doc = d].kind = j.kind
                     /\ [j EXCEPT !.phase = p, !.doc = d].own = j.own
  BY DEF Mcp!Requests

McpSteady == Mcp!FreshInv /\ Mcp!WorkInv /\ (s16 \/ Mcp!UrlInv)

\* A request that fails keeps what is known of servers and requests.
LEMMA McpFailedSteady ==
    ASSUME Mcp!McpAssumption, Mcp!TypeOK, McpSteady, NEW j \in s3, NEW p,
           p \notin {"sent", "read", "exchanged"},
           Mcp!Moves(j, p), s12' \in Nat, s12 <= s12', s15 \subseteq s15', s16 => s16',
           UNCHANGED <<s2, s13, s14, s7, s8, s6>>
    PROVE  McpSteady'
<1> DEFINE jobs == s3
<1> DEFINE e == [j EXCEPT !.phase = p]
<1>1. jobs' = (jobs \ {j}) \cup {e} /\ e.id = j.id /\ e.kind = j.kind /\ e.phase = p
  BY McpBounds, McpPhased DEF Mcp!Moves, Mcp!Becomes
<1> HIDE DEF e
<1>2. ~Mcp!Running(e) /\ ~Mcp!Pending(e)
  BY <1>1 DEF Mcp!Running, Mcp!Pending
<1>3. Mcp!Known' = Mcp!Known
  BY DEF Mcp!Known
<1>4. Mcp!FreshInv'
  BY <1>1, <1>2, <1>3, McpFreshMove DEF McpSteady
<1>5. Mcp!WorkInv' /\ (Mcp!UrlInv => Mcp!UrlInv')
  BY <1>1, <1>2, McpWorkMove DEF McpSteady
<1> QED
  BY <1>4, <1>5 DEF McpSteady

\* A document is read, by the registration of a server or by a request about one.
LEMMA McpReadSteady ==
    ASSUME Mcp!McpAssumption, Mcp!TypeOK, McpSteady, NEW j \in s3,
           Mcp!ReadRegister(j) \/ Mcp!ReadDocument(j)
    PROVE  McpSteady'
<1> DEFINE servers == s2  jobs == s3  asked == s6  list == s7  fetch == s8  acts == s12
           removed == s13  granted == s14  crossed == s15  doubled == s16
<1>0. /\ acts' = acts /\ acts \in Nat /\ acts <= acts' /\ crossed \subseteq crossed'
           /\ (doubled => doubled')
      /\ UNCHANGED <<servers, removed, granted, list, fetch, asked>>
      /\ j \in Mcp!Requests /\ j.phase = "sent"
  <2>1. acts' = acts /\ acts \in Nat /\ acts <= acts' /\ j \in Mcp!Requests
    BY McpBounds DEF Mcp!ReadRegister, Mcp!ReadDocument
  <2>2. crossed \subseteq crossed' /\ j.phase = "sent"
    BY DEF Mcp!ReadRegister, Mcp!ReadDocument, Mcp!Crossing
  <2>3. doubled => doubled'
    BY DEF Mcp!ReadRegister, Mcp!ReadDocument
  <2>4. UNCHANGED <<servers, removed, granted, list, fetch, asked>>
    BY DEF Mcp!ReadRegister, Mcp!ReadDocument, Mcp!backend, Mcp!card, Mcp!browser
  <2> QED
    BY <2>1, <2>2, <2>3, <2>4
<1>1. CASE Mcp!Moves(j, "failed")
  BY <1>0, <1>1, McpFailedSteady
<1>2. CASE Mcp!ReadRegister(j) /\ ~Mcp!Moves(j, "failed")
  <2> DEFINE e == [j EXCEPT !.phase = "read"]
  <2>1. /\ jobs' = (jobs \ {j}) \cup {e} /\ e.id = j.id /\ e.kind = "register" /\ e.phase = "read"
        /\ e.doc = j.doc
    BY <1>0, <1>2, McpPhased DEF Mcp!Moves, Mcp!Becomes, Mcp!ReadRegister
  <2> HIDE DEF e
  <2>2. Mcp!Known' = Mcp!Known /\ Mcp!Pending(j) /\ Mcp!Pending(e)
    BY <1>0, <1>2, <2>1 DEF Mcp!Known, Mcp!Pending, Mcp!ReadRegister
  <2>3. Mcp!FreshInv'
    BY <1>0, <2>1, <2>2, McpFreshMove DEF McpSteady
  <2>4. \A k \in jobs : k.id = j.id => k = j
    BY <2>2 DEF McpSteady, Mcp!FreshInv
  <2>5. Mcp!WorkInv'
    <3>1. crossed' = crossed
      BY <1>2 DEF Mcp!ReadRegister
    <3>2. \A k \in jobs' : k = e \/ (k \in jobs /\ k # j)
      BY <2>1
    <3>3. \A i, k \in jobs' : Mcp!Running(i) /\ i.id \notin crossed' /\ Mcp!Running(k)
          /\ k.id = i.id => k = i
      BY <2>1, <2>4, <3>1, <3>2 DEF McpSteady, Mcp!WorkInv, Mcp!Alone
    <3>4. \A k \in jobs' : Mcp!Running(k) /\ k.id \notin crossed' /\ k.kind # "register" =>
            /\ k.id \in DOMAIN servers' /\ servers'[k.id].url = k.doc.url
            /\ servers'[k.id].token = "oauth" => k.doc.token = "oauth"
      BY <1>0, <2>1, <3>1, <3>2 DEF McpSteady, Mcp!WorkInv, Mcp!Alone
    <3>5. \A k \in jobs' : k.kind = "callback" =>
            /\ k.phase = "read" => k.doc.verifier # 0
            /\ k.phase = "exchanged" => k.doc.token = "oauth"
      BY <2>1, <3>2 DEF McpSteady, Mcp!WorkInv
    <3> QED
      BY <1>0, <3>1, <3>3, <3>4, <3>5 DEF McpSteady, Mcp!WorkInv, Mcp!Alone, Mcp!Running
  <2>6. ASSUME ~doubled' PROVE Mcp!UrlInv'
    <3>1. /\ ~doubled /\ Mcp!UrlInv /\ crossed' = crossed
          /\ \A id \in DOMAIN servers : servers[id].url # j.doc.url
          /\ \A k \in jobs : Mcp!Registering(k) => k.doc.url # j.doc.url
      BY <1>2, <2>6 DEF Mcp!ReadRegister, McpSteady, Mcp!Registering
    <3>2. \A k \in jobs' : k = e \/ k \in jobs
      BY <2>1
    <3>3. ASSUME NEW i \in jobs', Mcp!Registering(i)
          PROVE  /\ \A id \in DOMAIN servers' \ crossed' : servers'[id].url # i.doc.url
                 /\ \A k \in jobs' : Mcp!Registering(k) /\ k.doc.url = i.doc.url => k = i
      BY <1>0, <2>1, <3>1, <3>2, <3>3 DEF Mcp!UrlInv
    <3> QED
      BY <1>0, <3>1, <3>3 DEF Mcp!UrlInv, Mcp!Registering, Mcp!Running
  <2> QED
    BY <2>3, <2>5, <2>6 DEF McpSteady
<1>3. CASE Mcp!ReadDocument(j) /\ ~Mcp!Moves(j, "failed")
  <2>1. /\ j.id \in DOMAIN servers /\ j.kind # "register"
        /\ j.kind = "callback" => servers[j.id].verifier # 0
        /\ crossed' = Mcp!Crossing(j) /\ doubled' = doubled
    BY <1>3 DEF Mcp!ReadDocument
  <2> DEFINE e == [j EXCEPT !.phase = "read", !.doc = servers[j.id]]
  <2>2. /\ jobs' = (jobs \ {j}) \cup {e} /\ e.id = j.id /\ e.kind = j.kind /\ e.phase = "read"
        /\ e.doc = servers[j.id]
    <3>1. jobs' = (jobs \ {j}) \cup {e}
      BY <1>3 DEF Mcp!Becomes, Mcp!ReadDocument
    <3>2. e.id = j.id /\ e.kind = j.kind /\ e.phase = "read" /\ e.doc = servers[j.id]
      BY <1>0 DEF Mcp!Requests
    <3> QED
      BY <3>1, <3>2
  <2> HIDE DEF e
  <2>3. Mcp!Known' = Mcp!Known /\ ~Mcp!Pending(e)
    BY <1>0, <2>1, <2>2 DEF Mcp!Known, Mcp!Pending
  <2>4. Mcp!FreshInv'
    BY <1>0, <2>2, <2>3, McpFreshMove DEF McpSteady
  <2>5. \A k \in jobs' : k = e \/ (k \in jobs /\ k # j)
    BY <2>2
  <2>6. j.id \notin crossed' => \A k \in jobs \ {j} : k.id = j.id => ~Mcp!Running(k)
    BY <2>1 DEF Mcp!Crossing
  <2>7. Mcp!WorkInv'
    <3>1. \A id \in DOMAIN servers' \ crossed' : id \notin removed'
          /\ (id \in granted' => servers'[id].token = "oauth")
      BY <1>0 DEF McpSteady, Mcp!WorkInv
    <3>3. \A i, k \in jobs' : Mcp!Running(i) /\ i.id \notin crossed' /\ Mcp!Running(k)
          /\ k.id = i.id => k = i
      BY <1>0, <2>2, <2>5, <2>6 DEF McpSteady, Mcp!WorkInv, Mcp!Alone
    <3>4. \A k \in jobs' : Mcp!Running(k) /\ k.id \notin crossed' /\ k.kind # "register" =>
            /\ k.id \in DOMAIN servers' /\ servers'[k.id].url = k.doc.url
            /\ servers'[k.id].token = "oauth" => k.doc.token = "oauth"
      BY <1>0, <2>1, <2>2, <2>5 DEF McpSteady, Mcp!WorkInv, Mcp!Alone
    <3>5. \A k \in jobs' : k.kind = "callback" =>
            /\ k.phase = "read" => k.doc.verifier # 0
            /\ k.phase = "exchanged" => k.doc.token = "oauth"
      BY <2>1, <2>2, <2>5 DEF McpSteady, Mcp!WorkInv
    <3> QED
      BY <3>1, <3>3, <3>4, <3>5 DEF Mcp!WorkInv, Mcp!Alone, Mcp!Running
  <2>8. ASSUME Mcp!UrlInv PROVE Mcp!UrlInv'
    <3>1. \A k \in jobs' : Mcp!Registering(k) => k \in jobs
      BY <2>1, <2>2, <2>5 DEF Mcp!Registering
    <3> QED
      BY <1>0, <2>8, <3>1 DEF Mcp!UrlInv, Mcp!Registering, Mcp!Running
  <2> QED
    BY <2>1, <2>4, <2>7, <2>8 DEF McpSteady
<1> QED
  BY <1>1, <1>2, <1>3

\* So does one that deletes.
LEMMA McpDeleteSteady ==
    ASSUME Mcp!McpAssumption, Mcp!TypeOK, McpSteady, NEW j \in s3, Mcp!Delete(j)
    PROVE  McpSteady'
<1> DEFINE servers == s2  jobs == s3  asked == s6  list == s7  fetch == s8  acts == s12
           removed == s13  granted == s14  crossed == s15  doubled == s16
<1>1. /\ acts' = acts /\ acts \in Nat /\ acts <= acts' /\ crossed' = Mcp!Crossing(j)
           /\ crossed \subseteq crossed'
      /\ UNCHANGED <<doubled, granted, list, fetch, asked>>
      /\ j \in Mcp!Requests /\ j.phase = "sent"
  BY McpBounds DEF Mcp!Delete, Mcp!Crossing, Mcp!card, Mcp!browser
<1>2. CASE Mcp!Moves(j, "failed") /\ UNCHANGED <<servers, removed>>
  BY <1>1, <1>2, McpFailedSteady
<1>3. CASE /\ j.id \in DOMAIN servers /\ removed' = removed \cup {j.id} /\ Mcp!Moves(j, "done")
           /\ servers' = [id \in DOMAIN servers \ {j.id} |-> servers[id]]
  <2> DEFINE e == [j EXCEPT !.phase = "done"]
  <2>1. jobs' = (jobs \ {j}) \cup {e} /\ e.id = j.id /\ e.kind = j.kind /\ e.phase = "done"
    BY <1>1, <1>3, McpPhased DEF Mcp!Moves, Mcp!Becomes
  <2> HIDE DEF e
  <2>2. Mcp!Known' \subseteq Mcp!Known /\ ~Mcp!Pending(e) /\ ~Mcp!Running(e)
    BY <1>1, <1>3, <2>1 DEF Mcp!Known, Mcp!Pending, Mcp!Running
  <2>3. Mcp!FreshInv'
    BY <1>1, <2>1, <2>2, McpFreshMove DEF McpSteady
  <2>4. \A k \in jobs \ {j} : Mcp!Alone(k) /\ k.id \notin crossed' /\ k.id \in DOMAIN servers
            => k.id \in DOMAIN servers'
    BY <1>1, <1>3 DEF Mcp!Alone, Mcp!Crossing
  <2>5. Mcp!WorkInv' /\ (Mcp!UrlInv => Mcp!UrlInv')
    BY <1>1, <1>3, <2>1, <2>2, <2>4, McpWorkMove DEF McpSteady
  <2> QED
    BY <1>1, <2>3, <2>5 DEF McpSteady
<1> QED
  BY <1>2, <1>3 DEF Mcp!Delete

\* So does one that exchanges a code.
LEMMA McpExchangeSteady ==
    ASSUME Mcp!McpAssumption, Mcp!TypeOK, McpSteady, NEW j \in s3, Mcp!Exchange(j)
    PROVE  McpSteady'
<1> DEFINE servers == s2  jobs == s3  asked == s6  list == s7  fetch == s8  acts == s12
           removed == s13  granted == s14  crossed == s15  doubled == s16
<1>1. /\ acts' = acts /\ acts \in Nat /\ acts <= acts' /\ j \in Mcp!Requests /\ j.doc \in Mcp!Docs
      /\ UNCHANGED <<crossed, doubled, granted, removed, servers, list, fetch, asked>>
      /\ j.kind = "callback" /\ j.phase = "read"
  BY McpBounds DEF Mcp!Exchange, Mcp!card, Mcp!browser, Mcp!history
<1>2. CASE Mcp!Moves(j, "failed")
  BY <1>1, <1>2, McpFailedSteady
<1>3. CASE Mcp!Becomes(j, [j EXCEPT !.phase = "exchanged", !.doc.token = "oauth", !.doc.verifier = 0])
  <2> DEFINE e == [j EXCEPT !.phase = "exchanged", !.doc.token = "oauth", !.doc.verifier = 0]
  <2>1. /\ jobs' = (jobs \ {j}) \cup {e} /\ e.id = j.id /\ e.kind = j.kind
             /\ e.phase = "exchanged"
        /\ e.doc.token = "oauth" /\ e.doc.url = j.doc.url
    BY <1>1, <1>3 DEF Mcp!Becomes, Mcp!Requests, Mcp!Docs
  <2> HIDE DEF e
  <2>2. Mcp!Known' = Mcp!Known /\ ~Mcp!Pending(e)
    BY <1>1, <2>1 DEF Mcp!Known, Mcp!Pending
  <2>3. Mcp!FreshInv'
    BY <1>1, <2>1, <2>2, McpFreshMove DEF McpSteady
  <2>4. Mcp!Running(j) /\ \A k \in jobs' : k = e \/ (k \in jobs /\ k # j)
    BY <1>1, <2>1 DEF Mcp!Running
  <2>5. Mcp!WorkInv'
    <3>1. \A i, k \in jobs' : Mcp!Running(i) /\ i.id \notin crossed' /\ Mcp!Running(k)
          /\ k.id = i.id => k = i
      BY <1>1, <2>1, <2>4 DEF McpSteady, Mcp!WorkInv, Mcp!Alone
    <3>2. \A k \in jobs' : Mcp!Running(k) /\ k.id \notin crossed' /\ k.kind # "register" =>
            /\ k.id \in DOMAIN servers' /\ servers'[k.id].url = k.doc.url
            /\ servers'[k.id].token = "oauth" => k.doc.token = "oauth"
      BY <1>1, <2>1, <2>4 DEF McpSteady, Mcp!WorkInv, Mcp!Alone
    <3>3. \A k \in jobs' : k.kind = "callback" =>
            /\ k.phase = "read" => k.doc.verifier # 0
            /\ k.phase = "exchanged" => k.doc.token = "oauth"
      BY <2>1, <2>4 DEF McpSteady, Mcp!WorkInv
    <3> QED
      BY <1>1, <3>1, <3>2, <3>3 DEF McpSteady, Mcp!WorkInv, Mcp!Alone, Mcp!Running
  <2>6. ASSUME Mcp!UrlInv PROVE Mcp!UrlInv'
    <3>1. \A k \in jobs' : Mcp!Registering(k) => k \in jobs
      BY <1>1, <2>1, <2>4 DEF Mcp!Registering
    <3> QED
      BY <1>1, <2>6, <3>1 DEF Mcp!UrlInv, Mcp!Registering, Mcp!Running
  <2> QED
    BY <1>1, <2>3, <2>5, <2>6 DEF McpSteady
<1> QED
  BY <1>2, <1>3 DEF Mcp!Exchange

\* So does one that saves a document.
LEMMA McpSaveSteady ==
    ASSUME Mcp!McpAssumption, Mcp!TypeOK, McpSteady, NEW j \in s3, Mcp!Save(j)
    PROVE  McpSteady'
<1> DEFINE servers == s2  jobs == s3  asked == s6  list == s7  fetch == s8  acts == s12
           removed == s13  granted == s14  crossed == s15  doubled == s16
<1>1. /\ j \in Mcp!Requests /\ j.doc \in Mcp!Docs /\ Mcp!Running(j)
      /\ UNCHANGED <<crossed, doubled, removed, list, fetch, asked>>
      /\ j.kind = "callback" => j.phase = "exchanged"
      /\ granted' = IF j.kind = "callback" THEN granted \cup {j.id} ELSE granted
  BY McpBounds DEF Mcp!Save, Mcp!card, Mcp!browser, Mcp!Running
<1>2. acts' \in Nat /\ acts <= acts'
  <2>1. UNCHANGED acts \/ Mcp!Act
    BY DEF Mcp!Save
  <2> QED
    BY <2>1, McpBounds
<1>3. PICK doc : /\ doc.url = j.doc.url /\ doc.token = j.doc.token
                 /\ servers' = [id \in DOMAIN servers \cup {j.id} |-> IF id = j.id THEN doc ELSE servers[id]]
                 /\ Mcp!Becomes(j, [j EXCEPT !.phase = "done", !.doc = doc])
  <2>1. PICK st \in Mcp!Statuses :
          LET doc == IF j.kind = "authorize"
                     THEN [j.doc EXCEPT !.client = TRUE, !.verifier = j.n, !.status = "oauth_required"]
                     ELSE [j.doc EXCEPT !.status = st]
          IN  /\ servers' = [id \in DOMAIN servers \cup {j.id} |-> IF id = j.id THEN doc ELSE servers[id]]
              /\ Mcp!Becomes(j, [j EXCEPT !.phase = "done", !.doc = doc])
    BY DEF Mcp!Save
  <2> DEFINE doc == IF j.kind = "authorize"
                    THEN [j.doc EXCEPT !.client = TRUE, !.verifier = j.n, !.status = "oauth_required"]
                    ELSE [j.doc EXCEPT !.status = st]
  <2>2. doc.url = j.doc.url /\ doc.token = j.doc.token
    BY <1>1 DEF Mcp!Docs
  <2>3. /\ servers' = [id \in DOMAIN servers \cup {j.id} |-> IF id = j.id THEN doc ELSE servers[id]]
        /\ Mcp!Becomes(j, [j EXCEPT !.phase = "done", !.doc = doc])
    BY <2>1
  <2> QED
    BY <2>2, <2>3
<1> DEFINE e == [j EXCEPT !.phase = "done", !.doc = doc]
<1>4. jobs' = (jobs \ {j}) \cup {e} /\ e.id = j.id /\ e.kind = j.kind /\ e.phase = "done"
  BY <1>1, <1>3, McpPhased DEF Mcp!Becomes
<1> HIDE DEF e
<1>5. ~Mcp!Pending(e) /\ ~Mcp!Running(e) /\ \A k \in jobs' : k = e \/ (k \in jobs /\ k # j)
  BY <1>4 DEF Mcp!Pending, Mcp!Running
<1>6. DOMAIN servers' = DOMAIN servers \cup {j.id} /\ servers'[j.id] = doc
      /\ \A id \in DOMAIN servers \ {j.id} : servers'[id] = servers[id]
  BY <1>3
<1>7. \A x \in Mcp!Known' : x \in Mcp!Known \/ x = j.id
  BY <1>1, <1>6 DEF Mcp!Known
<1>8. Mcp!FreshInv'
  BY <1>2, <1>4, <1>5, <1>7, McpFreshMove DEF McpSteady
<1>9. j.kind = "register"
      => Mcp!Pending(j) /\ j.id \notin Mcp!Known /\ \A k \in jobs : k.id = j.id => k = j
  <2>1. j.kind = "register" => j.phase = "read"
    BY DEF Mcp!Save
  <2> QED
    BY <2>1 DEF Mcp!Pending, McpSteady, Mcp!FreshInv
<1>10. Mcp!WorkInv'
  <2>1. ASSUME NEW id \in DOMAIN servers' \ crossed'
        PROVE  id \notin removed' /\ (id \in granted' => servers'[id].token = "oauth")
    <3>1. CASE id # j.id
      BY <1>1, <1>6, <2>1, <3>1 DEF McpSteady, Mcp!WorkInv
    <3>2. CASE id = j.id /\ j.kind = "register"
      BY <1>1, <1>9, <3>2 DEF Mcp!Known
    <3>3. CASE id = j.id /\ j.kind # "register"
      <4>1. Mcp!Alone(j) /\ j.id \in DOMAIN servers
            /\ (servers[j.id].token = "oauth" => j.doc.token = "oauth")
        BY <1>1, <2>1, <3>3 DEF McpSteady, Mcp!WorkInv, Mcp!Alone
      <4>2. j.id \notin removed /\ (j.id \in granted => servers[j.id].token = "oauth")
        BY <1>1, <2>1, <3>3, <4>1 DEF McpSteady, Mcp!WorkInv
      <4>3. j.kind = "callback" => j.doc.token = "oauth"
        BY <1>1 DEF McpSteady, Mcp!WorkInv
      <4> QED
        BY <1>1, <1>3, <1>6, <3>3, <4>1, <4>2, <4>3
    <3> QED
      BY <3>1, <3>2, <3>3
  <2>2. \A i, k \in jobs' : Mcp!Running(i) /\ i.id \notin crossed' /\ Mcp!Running(k)
        /\ k.id = i.id => k = i
    BY <1>1, <1>5 DEF McpSteady, Mcp!WorkInv, Mcp!Alone
  <2>3. ASSUME NEW k \in jobs', Mcp!Running(k), k.id \notin crossed', k.kind # "register"
        PROVE  /\ k.id \in DOMAIN servers' /\ servers'[k.id].url = k.doc.url
               /\ servers'[k.id].token = "oauth" => k.doc.token = "oauth"
    <3>1. k \in jobs /\ k # j /\ Mcp!Alone(k)
      BY <1>1, <1>5, <2>3 DEF Mcp!Alone
    <3>2. k.id # j.id
      BY <1>1, <3>1 DEF McpSteady, Mcp!WorkInv
    <3>3. /\ k.id \in DOMAIN servers /\ servers[k.id].url = k.doc.url
          /\ servers[k.id].token = "oauth" => k.doc.token = "oauth"
      BY <2>3, <3>1 DEF McpSteady, Mcp!WorkInv
    <3> QED
      BY <1>6, <3>2, <3>3
  <2>4. \A k \in jobs' : k.kind = "callback" =>
            /\ k.phase = "read" => k.doc.verifier # 0
            /\ k.phase = "exchanged" => k.doc.token = "oauth"
    BY <1>4, <1>5 DEF McpSteady, Mcp!WorkInv
  <2> QED
    BY <2>1, <2>2, <2>3, <2>4 DEF Mcp!WorkInv, Mcp!Alone, Mcp!Running
<1>11. ASSUME Mcp!UrlInv PROVE Mcp!UrlInv'
  <2>1. \A k \in jobs' : Mcp!Registering(k) => k \in jobs /\ k # j
    BY <1>5 DEF Mcp!Registering
  <2>2. CASE j.kind = "register"
    <3>1. Mcp!Registering(j)
      BY <1>1, <2>2 DEF Mcp!Registering
    <3>2. \A id \in DOMAIN servers \ crossed : id # j.id /\ servers[id].url # doc.url
      BY <1>3, <1>9, <1>11, <2>2, <3>1 DEF Mcp!UrlInv, Mcp!Known
    <3>3. \A i, k \in DOMAIN servers' \ crossed' : servers'[i].url = servers'[k].url => i = k
      BY <1>1, <1>6, <1>11, <3>2 DEF Mcp!UrlInv
    <3>4. \A k \in jobs' : Mcp!Registering(k) => k.doc.url # doc.url
      BY <1>3, <1>11, <2>1, <3>1 DEF Mcp!UrlInv
    <3>5. \A k \in jobs' : Mcp!Registering(k)
          => \A id \in DOMAIN servers' \ crossed' : servers'[id].url # k.doc.url
      BY <1>1, <1>6, <1>11, <2>1, <3>4 DEF Mcp!UrlInv
    <3>6. \A i, k \in jobs' : Mcp!Registering(i) /\ Mcp!Registering(k) /\ k.doc.url = i.doc.url
          => k = i
      BY <1>11, <2>1 DEF Mcp!UrlInv
    <3> QED
      BY <3>3, <3>5, <3>6 DEF Mcp!UrlInv, Mcp!Registering, Mcp!Running
  <2>3. CASE j.kind # "register"
    <3>1. j.id \notin crossed => j.id \in DOMAIN servers /\ servers[j.id].url = doc.url
      BY <1>1, <1>3, <2>3 DEF McpSteady, Mcp!WorkInv, Mcp!Alone
    <3>2. \A id \in DOMAIN servers' \ crossed' : id \in DOMAIN servers \ crossed
          /\ servers'[id].url = servers[id].url
      BY <1>1, <1>6, <3>1
    <3>3. \A i, k \in DOMAIN servers' \ crossed' : servers'[i].url = servers'[k].url => i = k
      BY <1>11, <3>2 DEF Mcp!UrlInv
    <3>4. \A k \in jobs' : Mcp!Registering(k)
          => \A id \in DOMAIN servers' \ crossed' : servers'[id].url # k.doc.url
      BY <1>11, <2>1, <3>2 DEF Mcp!UrlInv
    <3>5. \A i, k \in jobs' : Mcp!Registering(i) /\ Mcp!Registering(k) /\ k.doc.url = i.doc.url
          => k = i
      BY <1>11, <2>1 DEF Mcp!UrlInv
    <3> QED
      BY <3>3, <3>4, <3>5 DEF Mcp!UrlInv, Mcp!Registering, Mcp!Running
  <2> QED
    BY <2>2, <2>3
<1> QED
  BY <1>1, <1>8, <1>10, <1>11 DEF McpSteady

\* A step of the page: requests come to rest or are forgotten, and one may be added.
LEMMA McpPageSteady ==
    ASSUME Mcp!McpAssumption, Mcp!TypeOK, McpSteady, NEW T, NEW New,
           s12' \in Nat, s12 <= s12',
           s3' \subseteq {T[k] : k \in s3} \cup New,
           \A k \in s3 : /\ T[k].id = k.id /\ T[k].kind = k.kind
                         /\ Mcp!Running(T[k]) => T[k].phase = k.phase /\ T[k].doc = k.doc
                         /\ T[k].phase = "sent" => k.phase = "sent",
           \A r \in New : /\ r.phase = "sent" /\ r.id <= s12'
                          /\ r.kind = "register" => r.id = s12' /\ s12' = s12 + 1 /\ New = {r}
                          /\ r.kind # "register" => r.id \in Mcp!Known,
           \A x \in Mcp!Known' : x \in Mcp!Known \/ x = 0 \/ \E k \in s3 : x = k.id
           /\ ~Mcp!Pending(T[k]),
           UNCHANGED <<s2, s13, s14, s15, s16>>
    PROVE  McpSteady'
<1> DEFINE servers == s2  jobs == s3  acts == s12  removed == s13  granted == s14
           crossed == s15
<1>1. \A k \in jobs : Mcp!Pending(T[k]) => Mcp!Pending(k)
  BY DEF Mcp!Pending, Mcp!Running
<1>2. \A r \in New : (Mcp!Pending(r) => r.kind = "register")
      /\ (~Mcp!Pending(r) => r.kind # "register")
  BY DEF Mcp!Pending
<1>3. Mcp!FreshInv /\ Mcp!WorkInv
  BY DEF McpSteady
<1>4. /\ \A k \in jobs : T[k].id = k.id /\ (Mcp!Pending(T[k]) => Mcp!Pending(k))
      /\ \A r \in New : /\ r.id <= acts'
                        /\ Mcp!Pending(r) => r.id = acts' /\ acts' = acts + 1 /\ New = {r}
                        /\ ~Mcp!Pending(r) => r.id \in Mcp!Known
  BY <1>1, <1>2
<1>5. Mcp!FreshInv'
  BY <1>3, <1>4, McpFreshKept
<1>6. \A r \in New : r.phase = "sent"
  OBVIOUS
<1>7. \A k \in jobs : /\ T[k].id = k.id /\ T[k].kind = k.kind
                      /\ Mcp!Running(T[k]) => T[k].phase = k.phase /\ T[k].doc = k.doc
  OBVIOUS
<1>8. /\ crossed \subseteq crossed'
      /\ \A id \in DOMAIN servers' : id \in DOMAIN servers /\ servers'[id] = servers[id]
      /\ \A id \in DOMAIN servers' : (id \in removed' => id \in removed)
           /\ (id \in granted' => id \in granted)
      /\ \A k \in jobs : k.id \in DOMAIN servers => k.id \in DOMAIN servers'
  OBVIOUS
<1>9. Mcp!WorkInv' /\ (Mcp!UrlInv => Mcp!UrlInv')
  <2>1. \A k \in jobs : Mcp!Alone(k) /\ Mcp!Running(T[k]) /\ k.id \notin crossed'
                          /\ k.id \in DOMAIN servers => k.id \in DOMAIN servers'
    BY <1>8
  <2>2. crossed \subseteq crossed' /\ Mcp!WorkInv /\ jobs' \subseteq {T[k] : k \in jobs} \cup New
    BY <1>3, <1>8
  <2>3. \A r \in New : r.phase = "sent"
    BY <1>6
  <2> QED
    BY ONLY <1>7, <1>8, <2>1, <2>2, <2>3, McpWorkKept
<1> QED
  BY <1>5, <1>9 DEF McpSteady

\* The page is loaded again, or left: the requests that run are nobody's.
LEMMA McpUnloadSteady ==
    ASSUME Mcp!McpAssumption, Mcp!TypeOK, McpSteady, NEW New,
           s12' \in Nat, s12 <= s12',
           s3' \subseteq Mcp!Orphans \cup New,
           \A r \in New : r.phase = "sent" /\ r.id <= s12' /\ r.kind # "register"
           /\ r.id \in Mcp!Known,
           \A x \in Mcp!Known' : x \in Mcp!Known \/ x = 0 \/ \E k \in s3 : x = k.id
           /\ k.kind # "register",
           UNCHANGED <<s2, s13, s14, s15, s16>>
    PROVE  McpSteady'
<1> DEFINE jobs == s3  acts == s12
<1> DEFINE T == [k \in jobs |-> [k EXCEPT !.own = FALSE]]
<1>1. jobs' \subseteq {T[k] : k \in jobs} \cup New
  BY DEF Mcp!Orphans
<1>2. \A k \in jobs : T[k].id = k.id /\ T[k].kind = k.kind /\ T[k].phase = k.phase
      /\ T[k].doc = k.doc
  BY McpBounds DEF Mcp!Requests
<1> HIDE DEF T
<1>3. \A x \in Mcp!Known' : x \in Mcp!Known \/ x = 0 \/ \E k \in jobs : x = k.id
      /\ ~Mcp!Pending(T[k])
  BY <1>2 DEF Mcp!Pending
<1>4. \A r \in New : /\ r.phase = "sent" /\ r.id <= acts'
                     /\ r.kind = "register" => r.id = acts' /\ acts' = acts + 1 /\ New = {r}
                     /\ r.kind # "register" => r.id \in Mcp!Known
  OBVIOUS
<1>5. \A k \in jobs : /\ T[k].id = k.id /\ T[k].kind = k.kind
                      /\ Mcp!Running(T[k]) => T[k].phase = k.phase /\ T[k].doc = k.doc
                      /\ T[k].phase = "sent" => k.phase = "sent"
  BY <1>2
<1> QED
  BY <1>1, <1>3, <1>4, <1>5, McpPageSteady

\* So does every step.
LEMMA McpNextSteady ==
    ASSUME Mcp!McpAssumption, Mcp!TypeOK, McpSteady, [Mcp!Next]_(Mcp!vars)
    PROVE  McpSteady'
<1> DEFINE servers == s2  jobs == s3  asked == s6  list == s7  fetch == s8  acts == s12
           removed == s13  granted == s14  crossed == s15  doubled == s16
<1>a. acts \in Nat
  BY McpBounds
<1>b. acts' = acts => acts' \in Nat /\ acts <= acts'
  BY <1>a
<1>c. acts' = acts + 1 => acts' \in Nat /\ acts <= acts' /\ acts' <= acts'
  BY <1>a
<1>1. CASE UNCHANGED Mcp!vars
  <2>1. Mcp!FreshInv' <=> Mcp!FreshInv
    BY <1>1 DEF Mcp!vars, Mcp!backend, Mcp!card, Mcp!browser, Mcp!history, Mcp!FreshInv, Mcp!Known
  <2>2. Mcp!WorkInv' <=> Mcp!WorkInv
    BY <1>1 DEF Mcp!vars, Mcp!backend, Mcp!card, Mcp!browser, Mcp!history, Mcp!WorkInv, Mcp!Alone
  <2>3. Mcp!UrlInv' <=> Mcp!UrlInv
    BY <1>1 DEF Mcp!vars, Mcp!backend, Mcp!card, Mcp!browser, Mcp!history, Mcp!UrlInv
  <2> QED
    BY <1>1, <2>1, <2>2, <2>3 DEF McpSteady, Mcp!vars, Mcp!history
<1>7. ASSUME NEW j \in jobs, Mcp!Fail(j) PROVE McpSteady'
  <2>1. acts' \in Nat /\ acts <= acts'
    BY <1>7, McpBounds DEF Mcp!Fail
  <2>2. /\ Mcp!Moves(j, "failed") /\ crossed' = crossed /\ doubled' = doubled
        /\ UNCHANGED <<servers, removed, granted, list, fetch, asked>>
    BY <1>7 DEF Mcp!Fail, Mcp!backend, Mcp!card, Mcp!browser
  <2> QED
    BY <2>1, <2>2, McpFailedSteady
<1>8. ASSUME NEW j \in jobs, Mcp!Answered(j) PROVE McpSteady'
  <2> DEFINE T == [k \in jobs |-> [k EXCEPT !.phase = IF k = j THEN "waits"
                                                      ELSE IF k.phase = "waits" THEN "free" ELSE @]]
             New == {}
  <2>1. jobs' \subseteq {T[k] : k \in jobs} \cup New
    BY <1>8 DEF Mcp!Answered, Mcp!Refetching
  <2>2. \A k \in jobs : /\ T[k].id = k.id /\ T[k].kind = k.kind /\ T[k].doc = k.doc
                        /\ T[k].phase \in {k.phase, "waits", "free"}
    BY McpBounds DEF Mcp!Requests
  <2>3. \A r : r \notin New
    OBVIOUS
  <2> HIDE DEF T, New
  <2>4. \A k \in jobs : /\ T[k].id = k.id /\ T[k].kind = k.kind
                        /\ Mcp!Running(T[k]) => T[k].phase = k.phase /\ T[k].doc = k.doc
                        /\ T[k].phase = "sent" => k.phase = "sent"
    BY <2>2 DEF Mcp!Running
  <2>5. \A x \in Mcp!Known' : x \in Mcp!Known \/ x = 0
    BY <1>8 DEF Mcp!Answered, Mcp!Refetching, Mcp!Known, Mcp!backend, Mcp!browser, Mcp!Sent,
      Mcp!NoList, Mcp!NoId
  <2>6. acts' = acts /\ UNCHANGED <<servers, removed, granted, crossed, doubled>>
    BY <1>8 DEF Mcp!Answered, Mcp!backend
  <2> QED
    BY <1>b, <2>1, <2>3, <2>4, <2>5, <2>6, McpPageSteady
<1>9. ASSUME NEW j \in jobs, Mcp!Finish(j) \/ Mcp!Drop(j) PROVE McpSteady'
  <2> DEFINE T == [k \in jobs |-> k]
             New == {}
  <2>1. jobs' \subseteq {T[k] : k \in jobs} \cup New
    BY <1>9 DEF Mcp!Finish, Mcp!Drop
  <2>2. \A k \in jobs : T[k] = k
    OBVIOUS
  <2>3. \A r : r \notin New
    OBVIOUS
  <2> HIDE DEF T, New
  <2>5. \A x \in Mcp!Known' : x \in Mcp!Known
    BY <1>9 DEF Mcp!Finish, Mcp!Drop, Mcp!Known, Mcp!backend, Mcp!browser, Mcp!history, Mcp!card
  <2>6. acts' = acts /\ UNCHANGED <<servers, removed, granted, crossed, doubled>>
    BY <1>9 DEF Mcp!Finish, Mcp!Drop, Mcp!backend, Mcp!history
  <2> QED
    BY <1>b, <2>1, <2>2, <2>3, <2>5, <2>6, McpPageSteady
<1>11. ASSUME NEW to, Mcp!Unload(to) PROVE DOMAIN list' = {0} /\ DOMAIN fetch'.res = {0}
  BY <1>11 DEF Mcp!Unload, Mcp!NoList, Mcp!Sent, Mcp!Idle, Mcp!NoId
<1>12. ASSUME NEW j \in jobs, Mcp!Authorize(j) PROVE McpSteady'
  <2> DEFINE New == {}
  <2>1. jobs' \subseteq Mcp!Orphans \cup New /\ acts' = acts
        /\ UNCHANGED <<servers, removed, granted, crossed, doubled>>
    BY <1>12 DEF Mcp!Authorize, Mcp!backend
  <2>2. \A r : r \notin New
    OBVIOUS
  <2> HIDE DEF New
  <2>3. asked'.id = j.id /\ j.kind # "register" /\ DOMAIN list' = {0} /\ DOMAIN fetch'.res = {0}
    BY <1>11, <1>12 DEF Mcp!Authorize
  <2>4. \A x \in Mcp!Known' : x \in Mcp!Known \/ x = 0 \/ \E k \in jobs : x = k.id
        /\ k.kind # "register"
    BY <2>1, <2>3 DEF Mcp!Known
  <2> QED
    BY <1>b, <2>1, <2>2, <2>4, McpUnloadSteady
<1>13. ASSUME (\E j \in jobs : Mcp!Redirected(j)) \/ Mcp!Reload \/ Mcp!Deny PROVE McpSteady'
  <2> DEFINE New == {}
  <2>2. \A r : r \notin New
    OBVIOUS
  <2> HIDE DEF New
  <2>1. /\ UNCHANGED <<servers, removed, granted, crossed, doubled, asked>>
        /\ DOMAIN list' = {0} /\ DOMAIN fetch'.res = {0}
    BY <1>11, <1>13 DEF Mcp!Redirected, Mcp!Reload, Mcp!Deny, Mcp!backend
  <2>3. \A x \in Mcp!Known' : x \in Mcp!Known \/ x = 0
    BY <2>1 DEF Mcp!Known
  <2>4. acts' \in Nat /\ acts <= acts'
    <3>1. UNCHANGED acts \/ Mcp!Act
      BY <1>13 DEF Mcp!Redirected, Mcp!Reload, Mcp!Deny
    <3> QED
      BY <3>1, McpBounds
  <2>5. CASE jobs' = Mcp!Orphans
    BY <2>1, <2>2, <2>3, <2>4, <2>5, McpUnloadSteady
  <2>6. CASE jobs' = jobs
    <3> DEFINE T == [k \in jobs |-> k]
    <3>1. jobs' \subseteq {T[k] : k \in jobs} \cup New
      BY <2>6
    <3>2. \A k \in jobs : T[k] = k
      OBVIOUS
    <3> HIDE DEF T
    <3> QED
      BY <2>1, <2>2, <2>3, <2>4, <3>1, <3>2, McpPageSteady
  <2> QED
    BY <1>13, <2>5, <2>6 DEF Mcp!Redirected, Mcp!Reload, Mcp!Deny
<1>14. ASSUME NEW url \in Urls, Mcp!Register(url) PROVE McpSteady'
  <2>1. Mcp!Act /\ acts' = acts + 1
    BY <1>14, McpBounds DEF Mcp!Register
  <2>2. PICK tk \in {"", "bearer"} :
            jobs' = jobs
            \cup {Mcp!Request("register", acts', [Mcp!Blank EXCEPT !.url = url, !.token = tk])}
    BY <1>14 DEF Mcp!Register
  <2> DEFINE r == Mcp!Request("register", acts', [Mcp!Blank EXCEPT !.url = url, !.token = tk])
             New == {r}
             T == [k \in jobs |-> k]
  <2>3. r.id = acts' /\ r.kind = "register" /\ r.phase = "sent"
    BY DEF Mcp!Request
  <2>4. jobs' \subseteq {T[k] : k \in jobs} \cup New /\ \A k \in jobs : T[k] = k
    BY <2>2
  <2>5. \A s \in New : s.id = acts' /\ s.kind = "register" /\ s.phase = "sent" /\ New = {s}
    BY <2>3
  <2> HIDE DEF T, New, r
  <2>6. \A x \in Mcp!Known' : x \in Mcp!Known
    BY <1>14 DEF Mcp!Register, Mcp!Known, Mcp!backend, Mcp!browser, Mcp!history
  <2>7. UNCHANGED <<servers, removed, granted, crossed, doubled>>
    BY <1>14 DEF Mcp!Register, Mcp!backend, Mcp!history
  <2>8. acts' \in Nat /\ acts <= acts'
    BY <1>c, <2>1
  <2> QED
    <3>1. \A s \in New : /\ s.phase = "sent" /\ s.id <= acts'
                         /\ s.kind = "register" => s.id = acts' /\ acts' = acts + 1 /\ New = {s}
                         /\ s.kind # "register" => s.id \in Mcp!Known
      <4>1. acts' <= acts'
        BY <1>c, <2>1
      <4>2. acts' = acts + 1
        BY <2>1
      <4> QED
        BY <2>5, <4>1, <4>2, Zenon
    <3>2. \A k \in jobs : /\ T[k].id = k.id /\ T[k].kind = k.kind
                          /\ Mcp!Running(T[k]) => T[k].phase = k.phase /\ T[k].doc = k.doc
                          /\ T[k].phase = "sent" => k.phase = "sent"
      BY <2>4
    <3>3. \A x \in Mcp!Known' : x \in Mcp!Known \/ x = 0 \/ \E k \in jobs : x = k.id
          /\ ~Mcp!Pending(T[k])
      BY <2>6
    <3> QED
      BY <2>4, <2>7, <2>8, <3>1, <3>2, <3>3, McpPageSteady
<1>15. ASSUME NEW kind \in {"audit", "remove", "authorize"}, NEW id \in Mcp!Ids, Mcp!Click(kind, id)
       PROVE  McpSteady'
  <2>1. Mcp!Act /\ acts' = acts + 1
    BY <1>15, McpBounds DEF Mcp!Click
  <2> DEFINE r == Mcp!Request(kind, id, Mcp!Blank)
             New == {r}
             T == [k \in jobs |-> k]
  <2>3. r.id = id /\ r.kind # "register" /\ r.phase = "sent"
    BY DEF Mcp!Request
  <2>4. jobs' \subseteq {T[k] : k \in jobs} \cup New /\ \A k \in jobs : T[k] = k
    BY <1>15 DEF Mcp!Click
  <2>5. \A s \in New : s.id = id /\ s.kind # "register" /\ s.phase = "sent"
    BY <2>3
  <2> HIDE DEF T, New, r
  <2>6. \A x \in Mcp!Known' : x \in Mcp!Known
    BY <1>15 DEF Mcp!Click, Mcp!Known, Mcp!backend, Mcp!browser, Mcp!history
  <2>7. UNCHANGED <<servers, removed, granted, crossed, doubled>>
    BY <1>15 DEF Mcp!Click, Mcp!backend, Mcp!history
  <2>8. acts' \in Nat /\ acts <= acts'
    BY <1>c, <2>1
  <2>9. id \in Mcp!Known /\ id <= acts'
    <3>1. id \in Mcp!Known
      BY <1>15 DEF Mcp!Click, Mcp!CanClick, Mcp!Known
    <3>2. id <= acts
      BY <1>a, <3>1 DEF McpSteady, Mcp!FreshInv
    <3> QED
      BY <1>a, <2>1, <3>1, <3>2 DEF Mcp!Ids
  <2> QED
    BY <2>1, <2>4, <2>5, <2>6, <2>7, <2>8, <2>9, McpPageSteady
<1>16. ASSUME Mcp!Serve \/ Mcp!CloseModal PROVE McpSteady'
  <2> DEFINE T == [k \in jobs |-> k]
             New == {}
  <2>1. jobs' \subseteq {T[k] : k \in jobs} \cup New
    BY <1>16 DEF Mcp!Serve, Mcp!CloseModal
  <2>2. \A k \in jobs : T[k] = k
    OBVIOUS
  <2>3. \A r : r \notin New
    OBVIOUS
  <2> HIDE DEF T, New
  <2>5. \A x \in Mcp!Known' : x \in Mcp!Known
    <3>1. /\ UNCHANGED <<servers, removed, granted, list, asked>>
          /\ fetch' = fetch \/ DOMAIN fetch'.res = DOMAIN servers
      <4>1. CASE Mcp!Serve
        <5>1. fetch'.res = Mcp!View(servers) /\ DOMAIN Mcp!View(servers) = DOMAIN servers
          BY <4>1 DEF Mcp!Serve, Mcp!View
        <5> QED
          BY <4>1, <5>1 DEF Mcp!Serve, Mcp!backend, Mcp!browser, Mcp!history
      <4>2. CASE Mcp!CloseModal
        BY <4>2 DEF Mcp!CloseModal, Mcp!backend, Mcp!browser, Mcp!history
      <4> QED
        BY <1>16, <4>1, <4>2
    <3> QED
      BY <3>1 DEF Mcp!Known
  <2>6. acts' = acts /\ UNCHANGED <<servers, removed, granted, crossed, doubled>>
    BY <1>16 DEF Mcp!Serve, Mcp!CloseModal, Mcp!backend, Mcp!history
  <2> QED
    BY <1>b, <2>1, <2>2, <2>3, <2>5, <2>6, McpPageSteady
<1>17. ASSUME Mcp!Fetched PROVE McpSteady'
  <2> DEFINE T == [k \in jobs |-> [k EXCEPT !.phase = IF @ = "waits" THEN "free" ELSE @]]
             New == {}
  <2>1. jobs' \subseteq {T[k] : k \in jobs} \cup New
    BY <1>17 DEF Mcp!Fetched
  <2>2. \A k \in jobs : /\ T[k].id = k.id /\ T[k].kind = k.kind /\ T[k].doc = k.doc
                        /\ T[k].phase \in {k.phase, "free"}
    BY McpBounds DEF Mcp!Requests
  <2>3. \A r : r \notin New
    OBVIOUS
  <2> HIDE DEF T, New
  <2>4. \A k \in jobs : /\ T[k].id = k.id /\ T[k].kind = k.kind
                        /\ Mcp!Running(T[k]) => T[k].phase = k.phase /\ T[k].doc = k.doc
                        /\ T[k].phase = "sent" => k.phase = "sent"
    BY <2>2 DEF Mcp!Running
  <2>5. \A x \in Mcp!Known' : x \in Mcp!Known \/ x = 0
    BY <1>17 DEF Mcp!Fetched, Mcp!Known, Mcp!backend, Mcp!browser, Mcp!history, Mcp!Idle,
      Mcp!NoList, Mcp!NoId
  <2>6. acts' = acts /\ UNCHANGED <<servers, removed, granted, crossed, doubled>>
    BY <1>17 DEF Mcp!Fetched, Mcp!backend, Mcp!history
  <2> QED
    BY <1>b, <2>1, <2>3, <2>4, <2>5, <2>6, McpPageSteady
<1>18. ASSUME Mcp!Consent PROVE McpSteady'
  <2> DEFINE r == [Mcp!Request("callback", asked.id, Mcp!Blank) EXCEPT !.code = asked.code]
             New == {r}
  <2>1. jobs' \subseteq Mcp!Orphans \cup New
    BY <1>18 DEF Mcp!Consent
  <2>2. r.id = asked.id /\ r.kind # "register" /\ r.phase = "sent"
    BY DEF Mcp!Request
  <2>3. \A s \in New : s.id = asked.id /\ s.kind # "register" /\ s.phase = "sent"
    BY <2>2
  <2> HIDE DEF New, r
  <2>4. acts' \in Nat /\ acts <= acts'
    BY <1>18, McpBounds DEF Mcp!Consent
  <2>5. asked.id \in Mcp!Known /\ asked.id <= acts'
    <3>1. asked.id \in Mcp!Known
      BY DEF Mcp!Known
    <3>2. asked.id <= acts /\ asked.id \in Nat
      <4>1. Mcp!Known \subseteq 0..acts
        BY DEF McpSteady, Mcp!FreshInv
      <4>2. asked.id \in 0..acts
        BY <3>1, <4>1
      <4> QED
        BY <1>a, <4>2
    <3> QED
      BY <1>a, <2>4, <3>1, <3>2
  <2>6. \A x \in Mcp!Known' : x \in Mcp!Known
    BY <1>18 DEF Mcp!Consent, Mcp!Known, Mcp!backend, Mcp!card, Mcp!history
  <2>7. UNCHANGED <<servers, removed, granted, crossed, doubled>>
    BY <1>18 DEF Mcp!Consent, Mcp!backend, Mcp!history
  <2> QED
    BY <2>1, <2>3, <2>4, <2>5, <2>6, <2>7, McpUnloadSteady
<1> QED
  BY <1>1, <1>7, <1>8, <1>9, <1>12, <1>13, <1>14, <1>15, <1>16, <1>17, <1>18, McpReadSteady,
    McpDeleteSteady,
     McpExchangeSteady, McpSaveSteady DEF Mcp!Next

-----------------------------------------------------------------------------
\* Every step keeps CardInv.
LEMMA McpNextCardInv ==
    ASSUME Mcp!McpAssumption, Mcp!TypeOK, Mcp!CardInv, [Mcp!Next]_(Mcp!vars)
    PROVE  Mcp!CardInv'
<1> DEFINE servers == s2  jobs == s3  place == s5  list == s7  fetch == s8  raced == s17
<1>v. Mcp!View(servers)' = Mcp!View(servers') /\ Mcp!Idle' = Mcp!Idle /\ Mcp!Sent' = Mcp!Sent
      /\ Mcp!Idle.phase = "idle" /\ Mcp!Sent.phase = "sent"
  BY DEF Mcp!View, Mcp!Idle, Mcp!Sent
<1>1. CASE UNCHANGED Mcp!vars
  <2>1. UNCHANGED <<list, fetch, place, servers>> /\ jobs' = jobs /\ raced' = raced
    BY <1>1 DEF Mcp!vars, Mcp!backend, Mcp!card, Mcp!browser, Mcp!history
  <2>2. Mcp!Unsaid' = Mcp!Unsaid
    BY <2>1 DEF Mcp!Unsaid
  <2> QED
    BY <2>1, <2>2, McpCardKept
\* A request moves on that has not been answered, or is forgotten when it has been.
<1>2. ASSUME UNCHANGED <<list, fetch, place, servers, raced>>,
             \A j \in jobs : j.own /\ j.phase = "done" => j \in jobs'
      PROVE  Mcp!CardInv'
  BY <1>2, McpCardKept DEF Mcp!Unsaid
<1>3. ASSUME NEW j \in jobs, Mcp!ReadRegister(j) \/ Mcp!ReadDocument(j) \/ Mcp!Exchange(j)
      PROVE  Mcp!CardInv'
  <2>1. j.phase \in {"sent", "read"} /\ \E e : jobs' = (jobs \ {j}) \cup {e}
    BY <1>3 DEF Mcp!ReadRegister, Mcp!ReadDocument, Mcp!Exchange, Mcp!Moves, Mcp!Becomes
  <2>2. UNCHANGED <<list, fetch, place, servers, raced>>
    BY <1>3 DEF Mcp!ReadRegister, Mcp!ReadDocument, Mcp!Exchange, Mcp!backend, Mcp!card,
      Mcp!browser, Mcp!history
  <2> QED
    BY <1>2, <2>1, <2>2
<1>4. ASSUME NEW j \in jobs, Mcp!Fail(j) PROVE Mcp!CardInv'
  <2>1. \E e : jobs' = (jobs \ {j}) \cup {e}
    BY <1>4 DEF Mcp!Fail, Mcp!Moves, Mcp!Becomes
  <2>2. j.phase = "done" => raced'
    BY <1>4 DEF Mcp!Fail
  <2>3. raced => raced'
    BY <1>4 DEF Mcp!Fail
  <2>4. UNCHANGED <<list, fetch, place, servers>>
    BY <1>4 DEF Mcp!Fail, Mcp!backend, Mcp!card, Mcp!browser
  <2>5. Mcp!Unsaid => Mcp!Unsaid' \/ raced'
    BY <2>1, <2>2 DEF Mcp!Unsaid
  <2> QED
    BY <2>3, <2>4, <2>5, McpCardKept
<1>5. ASSUME NEW j \in jobs, Mcp!Delete(j) \/ Mcp!Save(j) PROVE Mcp!CardInv'
  <2>1. UNCHANGED <<list, fetch, place>>
    BY <1>5 DEF Mcp!Delete, Mcp!Save, Mcp!card, Mcp!browser
  <2>2. (raced => raced') /\ (~j.own => raced')
    BY <1>5 DEF Mcp!Delete, Mcp!Save
  <2>3. CASE UNCHANGED servers /\ j.phase = "sent" /\ \E e : jobs' = (jobs \ {j}) \cup {e}
    BY <2>1, <2>2, <2>3, McpCardKept DEF Mcp!Unsaid
  <2>4. CASE ~j.own
    BY <1>v, <2>1, <2>2, <2>4 DEF Mcp!CardInv
  <2>5. CASE j.own /\ \E e : jobs' = (jobs \ {j}) \cup {e} /\ e.own = j.own /\ e.phase = "done"
    <3>1. Mcp!Unsaid'
      BY <2>5 DEF Mcp!Unsaid
    <3> QED
      BY <1>v, <2>1, <3>1 DEF Mcp!CardInv
  <2>6. CASE Mcp!Delete(j)
    <3>1. CASE j.id \in DOMAIN servers
      <4>1. jobs' = (jobs \ {j}) \cup {[j EXCEPT !.phase = "done"]}
        BY <2>6, <3>1 DEF Mcp!Delete, Mcp!Moves, Mcp!Becomes
      <4>2. [j EXCEPT !.phase = "done"].own = j.own /\ [j EXCEPT !.phase = "done"].phase = "done"
        BY McpBounds, McpPhased
      <4> QED
        BY <2>4, <2>5, <4>1, <4>2
    <3>2. CASE j.id \notin DOMAIN servers
      BY <2>3, <2>6, <3>2 DEF Mcp!Delete, Mcp!Moves, Mcp!Becomes
    <3> QED
      BY <3>1, <3>2
  <2>7. CASE Mcp!Save(j)
    <3>1. PICK d : jobs' = (jobs \ {j}) \cup {[j EXCEPT !.phase = "done", !.doc = d]}
      BY <2>7 DEF Mcp!Save, Mcp!Becomes
    <3>2. [j EXCEPT !.phase = "done", !.doc = d].own = j.own
          /\ [j EXCEPT !.phase = "done", !.doc = d].phase = "done"
      BY McpBounds, McpPhased
    <3> QED
      BY <2>4, <2>5, <3>1, <3>2
  <2> QED
    BY <1>5, <2>6, <2>7
<1>6. ASSUME NEW j \in jobs, Mcp!Answered(j) PROVE Mcp!CardInv'
  <2>1. fetch' = (IF list = Mcp!NoList /\ fetch # Mcp!Idle THEN fetch ELSE Mcp!Sent) /\ UNCHANGED <<list, place>>
    BY <1>6 DEF Mcp!Answered, Mcp!Refetching, Mcp!browser
  <2>2. list = Mcp!NoList /\ fetch.phase = "served" => raced'
    BY <1>6 DEF Mcp!Answered, Mcp!Refetching
  <2>3. fetch \in {Mcp!Idle, Mcp!Sent} \/ fetch.phase = "served"
    BY DEF Mcp!CardInv
  <2>4. CASE fetch' = Mcp!Sent
    BY <1>v, <2>4 DEF Mcp!CardInv
  <2>5. CASE fetch' = fetch /\ fetch # Mcp!Idle /\ list = Mcp!NoList
    <3>1. CASE fetch = Mcp!Sent
      BY <1>v, <2>5, <3>1 DEF Mcp!CardInv
    <3>2. CASE fetch.phase = "served"
      BY <1>v, <2>2, <2>5, <3>2 DEF Mcp!CardInv
    <3> QED
      BY <2>3, <2>5, <3>1, <3>2
  <2> QED
    BY <2>1, <2>4, <2>5
<1>7. ASSUME NEW j \in jobs, Mcp!Finish(j) \/ Mcp!Drop(j) PROVE Mcp!CardInv'
  <2>1. jobs' = jobs \ {j} /\ ~(j.own /\ j.phase = "done")
    BY <1>7 DEF Mcp!Finish, Mcp!Drop
  <2>2. UNCHANGED <<list, fetch, place, servers, raced>>
    BY <1>7 DEF Mcp!Finish, Mcp!Drop, Mcp!backend, Mcp!card, Mcp!browser, Mcp!history
  <2> QED
    BY <1>2, <2>1, <2>2
<1>8. ASSUME NEW to, Mcp!Unload(to)
      PROVE  place' = to /\ list' = Mcp!NoList
             /\ (fetch' = Mcp!Sent \/ (fetch' = Mcp!Idle /\ to # "page"))
  BY <1>8 DEF Mcp!Unload
<1>9. ASSUME (\E j \in jobs : Mcp!Authorize(j) \/ Mcp!Redirected(j)) \/ Mcp!Reload \/ Mcp!Deny
      PROVE  Mcp!CardInv'
  <2>1. fetch' = Mcp!Sent \/ (fetch' = Mcp!Idle /\ place' # "page")
    BY <1>8, <1>9 DEF Mcp!Authorize, Mcp!Redirected, Mcp!Reload, Mcp!Deny
  <2> QED
    BY <1>v, <2>1 DEF Mcp!CardInv
<1>10. ASSUME NEW url \in Urls, Mcp!Register(url) PROVE Mcp!CardInv'
  BY <1>2, <1>10 DEF Mcp!Register, Mcp!backend, Mcp!browser, Mcp!history
<1>11. ASSUME NEW kind \in {"audit", "remove", "authorize"}, NEW id \in Mcp!Ids, Mcp!Click(kind, id)
       PROVE  Mcp!CardInv'
  BY <1>2, <1>11 DEF Mcp!Click, Mcp!backend, Mcp!browser, Mcp!history
<1>12. ASSUME Mcp!CloseModal PROVE Mcp!CardInv'
  BY <1>2, <1>12 DEF Mcp!CloseModal, Mcp!backend, Mcp!browser, Mcp!history
<1>13. ASSUME Mcp!Serve PROVE Mcp!CardInv'
  <2>1. fetch'.phase = "served" /\ fetch'.res = Mcp!View(servers) /\ servers' = servers
    BY <1>13 DEF Mcp!Serve, Mcp!backend
  <2> QED
    BY <1>v, <2>1 DEF Mcp!CardInv
<1>14. ASSUME Mcp!Fetched PROVE Mcp!CardInv'
  <2>1. /\ fetch.phase = "served" /\ fetch' = Mcp!Idle /\ list' = fetch.res
        /\ UNCHANGED <<servers, place, raced>>
    BY <1>14 DEF Mcp!Fetched, Mcp!backend, Mcp!browser, Mcp!history
  <2>2. Mcp!Unsaid => Mcp!Unsaid'
    <3>1. \A k \in jobs : k.phase = "done" => [k EXCEPT !.phase = IF @ = "waits" THEN "free" ELSE @] = k
      BY McpBounds DEF Mcp!Requests
    <3> QED
      BY <1>14, <3>1 DEF Mcp!Fetched, Mcp!Unsaid
  <2> QED
    BY <1>v, <2>1, <2>2 DEF Mcp!CardInv
<1>15. ASSUME Mcp!Consent PROVE Mcp!CardInv'
  BY <1>v, <1>15 DEF Mcp!Consent, Mcp!CardInv, Mcp!card
<1> QED
  BY <1>1, <1>3, <1>4, <1>5, <1>6, <1>7, <1>9, <1>10, <1>11, <1>12, <1>13, <1>14, <1>15 DEF Mcp!Next

\* Every step keeps the invariant.
LEMMA McpNextIInv ==
    ASSUME Mcp!McpAssumption, Mcp!IInv, [Mcp!Next]_(Mcp!vars)
    PROVE  Mcp!IInv'
<1>1. Mcp!TypeOK /\ Mcp!WorkInv /\ McpSteady /\ Mcp!CardInv
  BY DEF Mcp!IInv, McpSteady
<1>2. Mcp!TypeOK' /\ McpSteady' /\ Mcp!CardInv'
  BY <1>1, McpNextTypeOK, McpNextSteady, McpNextCardInv
<1> QED
  BY <1>2 DEF Mcp!IInv, McpSteady

\* The invariant implies what is promised.
LEMMA McpIInvKeepsWork ==
    ASSUME Mcp!IInv
    PROVE  Mcp!RegistryKeepsWork
<1> DEFINE servers == s2  jobs == s3  place == s5  list == s7  fetch == s8  removed == s13
           granted == s14  crossed == s15  doubled == s16  raced == s17
<1>1. \A id \in DOMAIN servers \ crossed : id \notin removed
      /\ (id \in granted => servers[id].token = "oauth")
  BY DEF Mcp!IInv, Mcp!WorkInv
<1>2. doubled \/ \A i, j \in DOMAIN servers \ crossed : servers[i].url = servers[j].url => i = j
  BY DEF Mcp!IInv, Mcp!UrlInv
<1>3. place = "page" /\ fetch = Mcp!Idle /\ jobs = {} /\ ~raced => list = Mcp!View(servers)
  BY DEF Mcp!IInv, Mcp!CardInv, Mcp!Unsaid
<1> QED
  BY <1>1, <1>2, <1>3 DEF Mcp!RegistryKeepsWork

-----------------------------------------------------------------------------
(* Integrations: connections, and the cards that show them.                *)

\* What the types say of single variables.
LEMMA CardBounds ==
    ASSUME Card!IntegrationsAssumption, Card!TypeOK
    PROVE  /\ s14 \in Nat /\ MaxActs \in Nat /\ 0 \in Card!Values /\ Slack \in Cards
                /\ none \notin Cards
           /\ Card!Act => s14' \in 1..MaxActs /\ s14' \in Card!Values /\ s14' # 0
                /\ s14' = s14 + 1
           /\ \A j \in s3 : /\ j \in Card!Requests /\ j.card \in Cards /\ j.n \in Card!Values /\ j.n # 0 /\ j.val \in Card!Values
                            /\ j.ok \in BOOLEAN
           /\ \A c \in Cards : s1[c] \in Card!Values
<1> DEFINE conn == s1  jobs == s3  acts == s14
<1>1. MaxActs \in Nat /\ acts \in 0..MaxActs /\ jobs \subseteq Card!Requests
      /\ conn \in [Cards -> Card!Values]
      /\ Slack \in Cards /\ none \notin Cards
  BY DEF Card!TypeOK, Card!IntegrationsAssumption, Card!Values
<1>2. Card!Act => acts' \in 1..MaxActs /\ acts' \in Card!Values /\ acts' # 0 /\ acts' = acts + 1
  BY <1>1 DEF Card!Act, Card!Values
<1>3. ASSUME NEW j \in Card!Requests
      PROVE  j.card \in Cards /\ j.n \in Card!Values /\ j.n # 0 /\ j.val \in Card!Values
             /\ j.ok \in BOOLEAN
  BY <1>1 DEF Card!Requests, Card!Values
<1> QED
  BY <1>1, <1>2, <1>3 DEF Card!Values

\* The effect of a request.
CardEffect(j, e) ==
    \/ /\ j.kind = "connect" /\ e.ok = TRUE
       /\ s1' = [s1 EXCEPT ![j.card] = j.n] /\ s2' = s2
    \/ /\ j.kind = "disconnect" /\ e.ok = TRUE
       /\ s1' = [s1 EXCEPT ![j.card] = 0] /\ s2' = IF j.card = Slack THEN 0 ELSE s2
    \/ /\ j.kind = "channel"
       /\ s1' = s1 /\ s2' = IF s1[Slack] # 0 THEN j.val ELSE s2
    \/ /\ j.kind \in {"url", "test", "channels"}
       /\ s1' = s1 /\ s2' = s2 /\ e.val = s1[j.card]

\* What performing a request does.
LEMMA CardPerformFacts ==
    ASSUME Card!IntegrationsAssumption, Card!TypeOK, NEW j \in s3, Card!Perform(j)
    PROVE  \E e \in Card!Requests :
             /\ s3' = (s3 \ {j}) \cup {e}
             /\ e.card = j.card /\ e.kind = j.kind /\ e.n = j.n /\ e.phase = "done"
             /\ CardEffect(j, e)
<1> DEFINE conn == s1  channel == s2  jobs == s3
<1> DEFINE E(ok, val) == [j EXCEPT !.phase = "done", !.ok = ok, !.val = val]
<1>1. ASSUME NEW ok \in BOOLEAN, NEW val \in Card!Values
      PROVE  /\ Card!Reply(j, ok, val) => jobs' = (jobs \ {j}) \cup {E(ok, val)}
             /\ E(ok, val) \in Card!Requests
             /\ E(ok, val).card = j.card /\ E(ok, val).kind = j.kind /\ E(ok, val).n = j.n
             /\ E(ok, val).phase = "done" /\ E(ok, val).ok = ok /\ E(ok, val).val = val
  <2>1. j \in Card!Requests
    BY CardBounds
  <2>2. Card!Reply(j, ok, val) => jobs' = (jobs \ {j}) \cup {E(ok, val)}
    BY DEF Card!Reply, Card!Becomes
  <2> QED
    BY <2>1, <2>2 DEF Card!Requests
<1> HIDE DEF E
<1>2. CASE j.kind = "connect" \/ j.kind = "disconnect"
  <2>1. Card!Reply(j, TRUE, 0)
    BY <1>2 DEF Card!Perform
  <2>2. 0 \in Card!Values /\ TRUE \in BOOLEAN
    BY CardBounds
  <2>3. CardEffect(j, E(TRUE, 0))
    BY <1>1, <1>2, <2>2 DEF Card!Perform, CardEffect
  <2> QED
    BY <1>1, <2>1, <2>2, <2>3
<1>3. CASE j.kind = "channel"
  <2>1. Card!Reply(j, conn[Slack] # 0, 0) /\ (conn[Slack] # 0) \in BOOLEAN /\ 0 \in Card!Values
    BY <1>3, CardBounds DEF Card!Perform
  <2>2. CardEffect(j, E(conn[Slack] # 0, 0))
    BY <1>3 DEF Card!Perform, CardEffect
  <2> QED
    BY <1>1, <2>1, <2>2
<1>4. CASE j.kind \in {"url", "test", "channels"}
  <2>1. Card!Reply(j, j.kind = "url" \/ conn[j.card] # 0, conn[j.card])
        /\ (j.kind = "url" \/ conn[j.card] # 0) \in BOOLEAN
        /\ conn[j.card] \in Card!Values /\ UNCHANGED <<conn, channel>>
    BY <1>4, CardBounds DEF Card!Perform
  <2> DEFINE ok == (j.kind = "url" \/ conn[j.card] # 0)
  <2> HIDE DEF ok
  <2>2. ok \in BOOLEAN /\ Card!Reply(j, ok, conn[j.card])
    BY <2>1 DEF ok
  <2>3. CardEffect(j, E(ok, conn[j.card]))
    BY <1>1, <1>4, <2>1, <2>2 DEF CardEffect
  <2> QED
    BY <1>1, <2>1, <2>2, <2>3
<1> QED
  BY <1>2, <1>3, <1>4 DEF Card!Perform

\* What a failing request does.
LEMMA CardFailFacts ==
    ASSUME Card!IntegrationsAssumption, Card!TypeOK, NEW j \in s3, Card!Fail(j)
    PROVE  \E e \in Card!Requests :
             /\ s3' = (s3 \ {j}) \cup {e}
             /\ e.card = j.card /\ e.kind = j.kind /\ e.phase = "done" /\ e.ok = FALSE
<1> DEFINE jobs == s3
<1> DEFINE e == [j EXCEPT !.phase = "done", !.ok = FALSE, !.val = 0]
<1>1. jobs' = (jobs \ {j}) \cup {e}
  BY DEF Card!Fail, Card!Reply, Card!Becomes
<1>2. e \in Card!Requests /\ e.card = j.card /\ e.kind = j.kind /\ e.phase = "done"
      /\ e.ok = FALSE
  <2>1. j \in Card!Requests /\ 0 \in Card!Values
    BY CardBounds
  <2> QED
    BY <2>1 DEF Card!Requests
<1> HIDE DEF e
<1> QED
  BY <1>1, <1>2

\* A request is made.
LEMMA CardConnectFacts ==
    ASSUME Card!IntegrationsAssumption, Card!TypeOK, NEW c \in Cards, Card!Connect(c)
    PROVE  \E r \in Card!Requests : /\ s3' = s3 \cup {r}
                                    /\ r.kind = "url"
                                         \/ (r.kind = "connect" /\ c \notin Redirects)
                                    /\ r.card = c /\ r.phase = "sent" /\ r.ok = FALSE
<1> DEFINE jobs == s3  acts == s14
<1> DEFINE kind == IF c \in Redirects THEN "url" ELSE "connect"
           r == [n |-> acts', kind |-> kind, card |-> c, val |-> 0, phase |-> "sent", ok |-> FALSE]
<1>1. jobs' = jobs \cup {r} /\ Card!Act
  BY DEF Card!Connect, Card!Job
<1>2. kind = "url" \/ (kind = "connect" /\ c \notin Redirects)
  OBVIOUS
<1>3. r.kind = kind /\ r.card = c /\ r.phase = "sent" /\ r.ok = FALSE
  OBVIOUS
<1>4. r \in Card!Requests
  BY <1>1, CardBounds DEF Card!Requests
<1> HIDE DEF kind, r
<1> QED
  BY <1>1, <1>2, <1>3, <1>4

\* What a click on disconnect asks.
LEMMA CardDisconnectFacts ==
    ASSUME Card!IntegrationsAssumption, Card!TypeOK, NEW c \in Cards, Card!Disconnect(c)
    PROVE  \E r \in Card!Requests : /\ s3' = s3 \cup {r}
                                    /\ r.kind = "disconnect" /\ r.card = c /\ r.phase = "sent"
                                         /\ r.ok = FALSE
<1> DEFINE jobs == s3  acts == s14
<1> DEFINE r == [n |-> acts', kind |-> "disconnect", card |-> c, val |-> 0, phase |-> "sent", ok |-> FALSE]
<1>1. Card!Act /\ jobs' = jobs \cup {r}
  BY DEF Card!Disconnect, Card!Job
<1>2. r \in Card!Requests /\ r.kind = "disconnect" /\ r.card = c /\ r.phase = "sent"
      /\ r.ok = FALSE
  BY <1>1, CardBounds DEF Card!Requests
<1> HIDE DEF r
<1> QED
  BY <1>1, <1>2

\* What choosing a channel asks.
LEMMA CardChangeChannelFacts ==
    ASSUME Card!IntegrationsAssumption, Card!TypeOK, Card!ChangeChannel
    PROVE  \E r \in Card!Requests : /\ s3' = s3 \cup {r}
                                    /\ r.kind = "channel" /\ r.card = Slack /\ r.val = s13
                                    /\ r.phase = "sent" /\ r.ok = FALSE
<1> DEFINE jobs == s3  channels == s13  acts == s14
<1> DEFINE r == [n |-> acts', kind |-> "channel", card |-> Slack, val |-> channels, phase |-> "sent", ok |-> FALSE]
<1>1. Card!Act /\ jobs' = jobs \cup {r}
  BY DEF Card!ChangeChannel, Card!Job
<1>2. channels \in Card!Values
  BY DEF Card!TypeOK
<1>3. r \in Card!Requests /\ r.kind = "channel" /\ r.card = Slack /\ r.val = channels
      /\ r.phase = "sent" /\ r.ok = FALSE
  BY <1>1, <1>2, CardBounds DEF Card!Requests
<1> HIDE DEF r
<1> QED
  BY <1>1, <1>3

\* What a click on test asks.
LEMMA CardTestFacts ==
    ASSUME Card!IntegrationsAssumption, Card!TypeOK, NEW c \in Cards, Card!Test(c)
    PROVE  \E r \in Card!Requests : /\ s3' = s3 \cup {r}
                                    /\ r.kind = "test" /\ r.card = c /\ r.phase = "sent"
                                         /\ r.ok = FALSE
<1> DEFINE jobs == s3  acts == s14
<1> DEFINE r == [n |-> acts', kind |-> "test", card |-> c, val |-> 0, phase |-> "sent", ok |-> FALSE]
<1>1. Card!Act /\ jobs' = jobs \cup {r}
  BY DEF Card!Test, Card!Job
<1>2. r \in Card!Requests /\ r.kind = "test" /\ r.card = c /\ r.phase = "sent" /\ r.ok = FALSE
  BY <1>1, CardBounds DEF Card!Requests
<1> HIDE DEF r
<1> QED
  BY <1>1, <1>2

\* What a page step does to the requests: some come to rest.
CardRests(T) ==
    /\ T \in [s3 -> Card!Requests]
    /\ \A k \in s3 : /\ T[k].card = k.card /\ T[k].kind = k.kind /\ T[k].val = k.val /\ T[k].ok = k.ok
                     /\ T[k].phase \in {k.phase, "waits", "free"}
                     /\ T[k].phase = k.phase => T[k] = k

\* What an answer does to the requests.
LEMMA CardAnsweredFacts ==
    ASSUME Card!IntegrationsAssumption, Card!TypeOK, NEW j \in s3, Card!Answered(j)
    PROVE  \E T : /\ CardRests(T) /\ s3' = {T[k] : k \in s3}
                  /\ \A k \in s3 : k # j /\ k.phase = "done" => T[k] = k
<1> DEFINE jobs == s3
<1> DEFINE T == [k \in jobs |-> [k EXCEPT !.phase = IF k = j THEN "waits"
                                    ELSE IF @ = "waits" /\ k.card = j.card THEN "free" ELSE @]]
<1>1. jobs' = {T[k] : k \in jobs}
  BY DEF Card!Answered
<1>2. ASSUME NEW k \in jobs
      PROVE  /\ T[k] \in Card!Requests
             /\ T[k].card = k.card /\ T[k].kind = k.kind /\ T[k].val = k.val /\ T[k].ok = k.ok
             /\ T[k].phase \in {k.phase, "waits", "free"}
             /\ T[k].phase = k.phase => T[k] = k
             /\ k # j /\ k.phase = "done" => T[k] = k
  <2>1. k \in Card!Requests
    BY CardBounds
  <2>2. PICK p \in {k.phase, "waits", "free"} : /\ T[k] = [k EXCEPT !.phase = p]
                                                /\ k # j /\ k.phase = "done" => p = k.phase
    OBVIOUS
  <2>3. LET e == [k EXCEPT !.phase = p]
        IN  /\ e \in Card!Requests /\ e.card = k.card /\ e.kind = k.kind /\ e.val = k.val /\ e.ok = k.ok
            /\ e.phase = p /\ (p = k.phase => e = k)
    BY <2>1 DEF Card!Requests
  <2> HIDE DEF T
  <2> QED
    BY <2>2, <2>3
<1>3. T \in [jobs -> Card!Requests]
  BY <1>2
<1> HIDE DEF T
<1> QED
  BY <1>1, <1>2, <1>3 DEF CardRests

\* What a fetched list does to the requests.
LEMMA CardFetchedFacts ==
    ASSUME Card!IntegrationsAssumption, Card!TypeOK, NEW c \in Cards, Card!Fetched(c)
    PROVE  \E T, New : /\ CardRests(T) /\ s3' = {T[k] : k \in s3} \cup New
                       /\ \A k \in s3 : k.phase = "done" => T[k] = k
                       /\ \A r \in New : r \in Card!Requests /\ r.kind = "channels"
                            /\ r.card = Slack /\ r.phase = "sent"
                       /\ s14' = s14 \/ Card!Act
<1> DEFINE jobs == s3  acts == s14
<1> DEFINE T == [k \in jobs |-> [k EXCEPT !.phase = IF @ = "waits" /\ k.card = c THEN "free" ELSE @]]
           rest == {[k EXCEPT !.phase = IF @ = "waits" /\ k.card = c THEN "free" ELSE @] : k \in jobs}
<1>1. rest = {T[k] : k \in jobs}
  OBVIOUS
<1>2. ASSUME NEW k \in jobs
      PROVE  /\ T[k] \in Card!Requests
             /\ T[k].card = k.card /\ T[k].kind = k.kind /\ T[k].val = k.val /\ T[k].ok = k.ok
             /\ T[k].phase \in {k.phase, "waits", "free"}
             /\ T[k].phase = k.phase => T[k] = k
             /\ k.phase = "done" => T[k] = k
  <2>1. k \in Card!Requests
    BY CardBounds
  <2>2. PICK p \in {k.phase, "waits", "free"} : /\ T[k] = [k EXCEPT !.phase = p]
                                                /\ k.phase = "done" => p = k.phase
    OBVIOUS
  <2>3. LET e == [k EXCEPT !.phase = p]
        IN  /\ e \in Card!Requests /\ e.card = k.card /\ e.kind = k.kind /\ e.val = k.val /\ e.ok = k.ok
            /\ e.phase = p /\ (p = k.phase => e = k)
    BY <2>1 DEF Card!Requests
  <2> HIDE DEF T
  <2> QED
    BY <2>2, <2>3
<1>3. T \in [jobs -> Card!Requests]
  BY <1>2
<1>4. \/ jobs' = rest /\ acts' = acts
      \/ c = Slack /\ Card!Act
           /\ jobs' = rest
                \cup {[n |-> acts', kind |-> "channels", card |-> c, val |-> 0, phase |-> "sent", ok |-> FALSE]}
  BY DEF Card!Fetched, Card!Job
<1> HIDE DEF T, rest
<1>5. CardRests(T)
  BY <1>2, <1>3 DEF CardRests
<1>6. CASE jobs' = rest /\ acts' = acts
  <2> DEFINE New == {}
  <2>1. jobs' = {T[k] : k \in jobs} \cup New /\ \A r : r \notin New
    BY <1>1, <1>6
  <2> HIDE DEF New
  <2> QED
    BY <1>2, <1>5, <1>6, <2>1
<1>7. CASE c = Slack /\ Card!Act
           /\ jobs' = rest
                \cup {[n |-> acts', kind |-> "channels", card |-> c, val |-> 0, phase |-> "sent", ok |-> FALSE]}
  <2>0. Card!Act /\ 0 \in Card!Values
        /\ jobs' = rest
             \cup {[n |-> acts', kind |-> "channels", card |-> c, val |-> 0, phase |-> "sent", ok |-> FALSE]} /\ c = Slack
    BY <1>7, CardBounds
  <2> DEFINE r == [n |-> acts', kind |-> "channels", card |-> c, val |-> 0, phase |-> "sent", ok |-> FALSE]
  <2>1. r \in Card!Requests /\ r.kind = "channels" /\ r.card = c /\ r.phase = "sent"
        /\ jobs' = rest \cup {r}
    BY <2>0, CardBounds DEF Card!Requests
  <2> HIDE DEF r
  <2> DEFINE New == {r}
  <2>2. jobs' = {T[k] : k \in jobs} \cup New /\ \A q \in New : q = r
    BY <1>1, <2>0, <2>1
  <2>3. \A q \in New : q \in Card!Requests /\ q.kind = "channels" /\ q.card = Slack
        /\ q.phase = "sent"
    BY <2>0, <2>1, <2>2
  <2> HIDE DEF New
  <2> QED
    BY <1>2, <1>5, <2>0, <2>2, <2>3
<1> QED
  BY <1>4, <1>6, <1>7

-----------------------------------------------------------------------------
\* The invariant holds initially.
LEMMA CardInitIInv ==
    ASSUME Card!IntegrationsAssumption, Card!Init
    PROVE  Card!IInv
<1> DEFINE conn == s1  channel == s2  jobs == s3  place == s4  address == s5  notice == s6
           shown == s7  fetch == s8  busy == s9  testing == s10  result == s11  timers == s12
           channels == s13  acts == s14  elsewhere == s15  raced == s16  reread == s17
           astray == s18
<1>1. Card!TypeOK
  <2>1. 0 \in Card!Values
    BY DEF Card!Values, Card!IntegrationsAssumption
  <2>2. conn \in [Cards -> Card!Values] /\ channel \in Card!Values /\ channels \in Card!Values
        /\ acts \in Card!Values /\ jobs \subseteq Card!Requests
    BY <2>1 DEF Card!Init
  <2>3. {address, notice}
        \subseteq [card : Cards \cup {none}, says : {"", "connected", "error"}]
        /\ place \in Cards \cup {none}
    <3>1. Card!NoNotice \in [card : Cards \cup {none}, says : {"", "connected", "error"}]
      BY DEF Card!NoNotice
    <3> QED
      BY <3>1 DEF Card!Init
  <2>4. shown \in [Cards -> [known : BOOLEAN, conn : Card!Values]]
    BY <2>1 DEF Card!Init, Card!NoData
  <2>5. fetch \in [Cards -> [phase : {"idle", "sent", "served"}, conn : Card!Values]]
    BY <2>1 DEF Card!Init, Card!Sent
  <2>6. busy \in [Cards -> BOOLEAN] /\ testing \in [Cards -> BOOLEAN]
    BY DEF Card!Init
  <2>7. result \in [Cards -> [of : Card!Values, says : {"", "ok", "error"}]]
    BY <2>1 DEF Card!Init, Card!NoResult
  <2>8. timers \in [Cards -> SUBSET Card!Values] /\ elsewhere \subseteq Cards
    BY DEF Card!Init
  <2>9. {raced, reread, astray} \subseteq BOOLEAN
    BY DEF Card!Init
  <2> QED
    BY <2>2, <2>3, <2>4, <2>5, <2>6, <2>7, <2>8, <2>9 DEF Card!TypeOK
<1>2. Card!ShownInv
  BY DEF Card!ShownInv, Card!Init, Card!Sent, Card!Idle
<1>3. Card!NoticeInv
  BY DEF Card!NoticeInv, Card!Init, Card!NoNotice
<1>4. Card!ChannelInv
  BY DEF Card!ChannelInv, Card!Init, Card!IntegrationsAssumption
<1>5. Card!ResultInv
  BY DEF Card!ResultInv, Card!Init
<1> QED
  BY <1>1, <1>2, <1>3, <1>4, <1>5 DEF Card!IInv

-----------------------------------------------------------------------------
\* Answers and requests, and the marks of none, have their types.
LEMMA CardRecords ==
    ASSUME Card!IntegrationsAssumption
    PROVE  /\ Card!NoNotice \in [card : Cards \cup {none}, says : {"", "connected", "error"}]
           /\ Card!NoData \in [known : BOOLEAN, conn : Card!Values]
           /\ Card!Idle \in [phase : {"idle", "sent", "served"}, conn : Card!Values]
           /\ Card!Sent \in [phase : {"idle", "sent", "served"}, conn : Card!Values]
           /\ Card!NoResult \in [of : Card!Values, says : {"", "ok", "error"}]
<1>1. 0 \in Card!Values
  BY DEF Card!Values, Card!IntegrationsAssumption
<1>2. Card!NoNotice \in [card : Cards \cup {none}, says : {"", "connected", "error"}]
  BY DEF Card!NoNotice
<1> QED
  BY <1>1, <1>2 DEF Card!NoData, Card!Idle, Card!Sent, Card!NoResult

\* A page that is opened, or left, shows nothing.
LEMMA CardBlankTypes ==
    ASSUME Card!IntegrationsAssumption, Card!Blank
    PROVE  /\ s7' \in [Cards -> [known : BOOLEAN, conn : Card!Values]]
           /\ s9' \in [Cards -> BOOLEAN] /\ s10' \in [Cards -> BOOLEAN]
           /\ s11' \in [Cards -> [of : Card!Values, says : {"", "ok", "error"}]]
           /\ s12' \in [Cards -> SUBSET Card!Values]
           /\ s13' \in Card!Values
<1> DEFINE conn == s1  shown == s7  busy == s9  testing == s10  result == s11  timers == s12
           channels == s13
<1>1. 0 \in Card!Values
  BY DEF Card!Values, Card!IntegrationsAssumption
<1>2. shown' \in [Cards -> [known : BOOLEAN, conn : Card!Values]]
  BY CardRecords DEF Card!Blank
<1>3. busy' \in [Cards -> BOOLEAN] /\ testing' \in [Cards -> BOOLEAN]
  BY DEF Card!Blank
<1>4. result' \in [Cards -> [of : Card!Values, says : {"", "ok", "error"}]]
  BY CardRecords DEF Card!Blank
<1>5. timers' \in [Cards -> SUBSET Card!Values] /\ channels' \in Card!Values
  BY <1>1 DEF Card!Blank
<1> QED
  BY <1>2, <1>3, <1>4, <1>5

\* Every step keeps the types.
LEMMA CardNextTypeOK ==
    ASSUME Card!IntegrationsAssumption, Card!TypeOK, [Card!Next]_(Card!vars)
    PROVE  Card!TypeOK'
<1> DEFINE conn == s1  channel == s2  jobs == s3  place == s4  address == s5  notice == s6
           shown == s7  fetch == s8  busy == s9  testing == s10  result == s11  timers == s12
           channels == s13  acts == s14  elsewhere == s15  raced == s16  reread == s17
           astray == s18
<1>0. jobs \subseteq Card!Requests /\ 0 \in Card!Values /\ conn \in [Cards -> Card!Values]
  BY CardBounds DEF Card!TypeOK
<1>1. CASE UNCHANGED Card!vars
  BY <1>1 DEF Card!TypeOK, Card!vars, Card!backend, Card!view, Card!test, Card!browser, Card!history
<1>2. ASSUME NEW j \in jobs, Card!Perform(j) PROVE Card!TypeOK'
  <2>1. PICK e \in Card!Requests : jobs' = (jobs \ {j}) \cup {e} /\ CardEffect(j, e)
    BY <1>2, CardPerformFacts
  <2>2. jobs' \subseteq Card!Requests
    BY <1>0, <2>1
  <2>3. conn' \in [Cards -> Card!Values] /\ channel' \in Card!Values
    <3>1. j.card \in Cards /\ j.n \in Card!Values /\ j.val \in Card!Values
          /\ channel \in Card!Values
      BY CardBounds DEF Card!TypeOK
    <3> QED
      BY <1>0, <2>1, <3>1 DEF CardEffect
  <2>4. raced' \in BOOLEAN /\ astray' \in BOOLEAN
    BY <1>2 DEF Card!Perform
  <2>5. UNCHANGED <<Card!browser, Card!view, busy, Card!test, acts, elsewhere, reread>>
    BY <1>2 DEF Card!Perform
  <2> QED
    BY <2>2, <2>3, <2>4, <2>5 DEF Card!TypeOK, Card!view, Card!test, Card!browser
<1>3. ASSUME NEW j \in jobs, Card!Fail(j) PROVE Card!TypeOK'
  <2>1. jobs' \subseteq Card!Requests
    BY <1>0, <1>3, CardFailFacts
  <2>2. acts' \in Card!Values
    BY <1>3, CardBounds DEF Card!Fail
  <2>3. raced' \in BOOLEAN
    BY <1>3 DEF Card!Fail
  <2>4. UNCHANGED <<Card!backend, Card!browser, Card!view, busy, Card!test, elsewhere, reread, astray>>
    BY <1>3 DEF Card!Fail
  <2> QED
    BY <2>1, <2>2, <2>3, <2>4 DEF Card!TypeOK, Card!backend, Card!view, Card!test, Card!browser
<1>4. ASSUME NEW c \in Cards, Card!Elsewhere(c) PROVE Card!TypeOK'
  <2>1. acts' \in Card!Values
    BY <1>4, CardBounds DEF Card!Elsewhere
  <2>2. conn' \in [Cards -> Card!Values]
    BY <1>0, <1>4, <2>1 DEF Card!Elsewhere
  <2>3. channel' \in Card!Values
    BY <1>4, <2>2 DEF Card!Elsewhere, Card!TypeOK
  <2>4. elsewhere' \subseteq Cards
    BY <1>4 DEF Card!Elsewhere, Card!TypeOK
  <2>5. UNCHANGED <<jobs, Card!browser, Card!view, busy, Card!test, raced, reread, astray>>
    BY <1>4 DEF Card!Elsewhere
  <2> QED
    BY <2>1, <2>2, <2>3, <2>4, <2>5 DEF Card!TypeOK, Card!view, Card!test, Card!browser
<1>5. ASSUME NEW c \in Cards, Card!Serve(c) PROVE Card!TypeOK'
  <2>1. fetch' \in [Cards -> [phase : {"idle", "sent", "served"}, conn : Card!Values]]
    <3>1. [phase |-> "served", conn |-> conn[c]]
          \in [phase : {"idle", "sent", "served"}, conn : Card!Values]
      BY <1>0
    <3> QED
      BY <1>5, <3>1 DEF Card!Serve, Card!TypeOK
  <2>2. UNCHANGED <<Card!backend, jobs, Card!browser, shown, channels, busy, Card!test, acts, Card!history>>
    BY <1>5 DEF Card!Serve
  <2> QED
    BY <2>1, <2>2 DEF Card!TypeOK, Card!backend, Card!browser, Card!test, Card!history
<1>6. ASSUME NEW c \in Cards, Card!Connect(c) PROVE Card!TypeOK'
  <2>1. jobs' \subseteq Card!Requests
    <3>1. PICK r \in Card!Requests : jobs' = jobs \cup {r}
      BY <1>6, CardConnectFacts
    <3> QED
      BY <1>0, <3>1
  <2>2. acts' \in Card!Values
    BY <1>6, CardBounds DEF Card!Connect
  <2>3. busy' \in [Cards -> BOOLEAN]
    BY <1>6, Zenon DEF Card!Connect, Card!TypeOK
  <2>4. UNCHANGED <<Card!backend, Card!browser, Card!view, Card!test, Card!history>>
    BY <1>6 DEF Card!Connect
  <2> QED
    BY <2>1, <2>2, <2>3, <2>4 DEF Card!TypeOK, Card!backend, Card!browser, Card!view, Card!test,
      Card!history
<1>7. ASSUME NEW c \in Cards, Card!Disconnect(c) PROVE Card!TypeOK'
  <2>1. jobs' \subseteq Card!Requests
    <3>1. PICK r \in Card!Requests : jobs' = jobs \cup {r}
      BY <1>7, CardDisconnectFacts
    <3> QED
      BY <1>0, <3>1
  <2>2. acts' \in Card!Values
    BY <1>7, CardBounds DEF Card!Disconnect
  <2>3. UNCHANGED <<Card!backend, Card!browser, Card!view, busy, Card!test, Card!history>>
    BY <1>7 DEF Card!Disconnect
  <2> QED
    BY <2>1, <2>2, <2>3 DEF Card!TypeOK, Card!backend, Card!browser, Card!view, Card!test,
      Card!history
<1>8. ASSUME Card!ChangeChannel PROVE Card!TypeOK'
  <2>1. jobs' \subseteq Card!Requests
    <3>1. PICK r \in Card!Requests : jobs' = jobs \cup {r}
      BY <1>8, CardChangeChannelFacts
    <3> QED
      BY <1>0, <3>1
  <2>2. acts' \in Card!Values
    BY <1>8, CardBounds DEF Card!ChangeChannel
  <2>3. UNCHANGED <<Card!backend, Card!browser, Card!view, busy, Card!test, Card!history>>
    BY <1>8 DEF Card!ChangeChannel
  <2> QED
    BY <2>1, <2>2, <2>3 DEF Card!TypeOK, Card!backend, Card!browser, Card!view, Card!test,
      Card!history
<1>9. ASSUME NEW c \in Cards, Card!Test(c) PROVE Card!TypeOK'
  <2>1. jobs' \subseteq Card!Requests
    <3>1. PICK r \in Card!Requests : jobs' = jobs \cup {r}
      BY <1>9, CardTestFacts
    <3> QED
      BY <1>0, <3>1
  <2>2. acts' \in Card!Values
    BY <1>9, CardBounds DEF Card!Test
  <2>3. testing' \in [Cards -> BOOLEAN]
    BY <1>9, Zenon DEF Card!Test, Card!TypeOK
  <2>4. result' \in [Cards -> [of : Card!Values, says : {"", "ok", "error"}]]
    BY <1>9, CardRecords DEF Card!Test, Card!TypeOK
  <2>5. UNCHANGED <<Card!backend, Card!browser, Card!view, busy, timers, Card!history>>
    BY <1>9 DEF Card!Test
  <2> QED
    BY <2>1, <2>2, <2>3, <2>4, <2>5 DEF Card!TypeOK, Card!backend, Card!browser, Card!view,
      Card!history
<1>10. ASSUME NEW j \in jobs, Card!TestEnds(j) PROVE Card!TypeOK'
  <2>1. j.card \in Cards /\ j.n \in Card!Values
    BY CardBounds
  <2>2. testing' \in [Cards -> BOOLEAN]
    BY <1>10, <2>1, Zenon DEF Card!TestEnds, Card!TypeOK
  <2>3. result' \in [Cards -> [of : Card!Values, says : {"", "ok", "error"}]]
    <3>1. [of |-> j.n, says |-> IF j.ok THEN "ok" ELSE "error"] \in [of : Card!Values, says : {"", "ok", "error"}]
      BY <2>1
    <3> QED
      BY <1>10, <2>1, <3>1 DEF Card!TestEnds, Card!TypeOK
  <2>4. timers' \in [Cards -> SUBSET Card!Values]
    BY <1>10, <2>1 DEF Card!TestEnds, Card!TypeOK
  <2>5. UNCHANGED <<Card!backend, Card!browser, Card!view, busy, acts, Card!history>>
        /\ jobs' \subseteq jobs
    BY <1>10 DEF Card!TestEnds
  <2> QED
    BY <2>2, <2>3, <2>4, <2>5 DEF Card!TypeOK, Card!backend, Card!browser, Card!view, Card!history
<1>11. ASSUME NEW c \in Cards, NEW n \in timers[c], Card!TimerEnds(c, n) PROVE Card!TypeOK'
  <2>1. result' \in [Cards -> [of : Card!Values, says : {"", "ok", "error"}]]
    BY <1>11, CardRecords DEF Card!TimerEnds, Card!TypeOK
  <2>2. timers' \in [Cards -> SUBSET Card!Values]
    BY <1>11 DEF Card!TimerEnds, Card!TypeOK
  <2>3. UNCHANGED <<Card!backend, jobs, Card!browser, Card!view, busy, testing, acts, Card!history>>
    BY <1>11 DEF Card!TimerEnds
  <2> QED
    BY <2>1, <2>2, <2>3 DEF Card!TypeOK, Card!backend, Card!browser, Card!view, Card!history
<1>12. ASSUME NEW j \in jobs, Card!Answered(j) PROVE Card!TypeOK'
  <2>1. jobs' \subseteq Card!Requests
    BY <1>12, CardAnsweredFacts DEF CardRests
  <2>2. fetch' \in [Cards -> [phase : {"idle", "sent", "served"}, conn : Card!Values]]
    BY <1>12, CardRecords, CardBounds DEF Card!Answered, Card!Refetching, Card!TypeOK
  <2>3. raced' \in BOOLEAN
    BY <1>12 DEF Card!Answered
  <2>4. UNCHANGED <<Card!backend, Card!browser, shown, channels, busy, Card!test, acts, elsewhere, reread, astray>>
    BY <1>12 DEF Card!Answered
  <2> QED
    BY <2>1, <2>2, <2>3, <2>4 DEF Card!TypeOK, Card!backend, Card!browser, Card!test
<1>13. ASSUME NEW j \in jobs, Card!Finish(j) PROVE Card!TypeOK'
  <2>1. busy' \in [Cards -> BOOLEAN]
    BY <1>13, Zenon DEF Card!Finish, Card!TypeOK
  <2>2. {address', notice'}
        \subseteq [card : Cards \cup {none}, says : {"", "connected", "error"}]
    BY <1>13, CardRecords DEF Card!Finish, Card!TypeOK
  <2>3. jobs' \subseteq jobs
        /\ UNCHANGED <<Card!backend, place, Card!view, Card!test, acts, Card!history>>
    BY <1>13 DEF Card!Finish
  <2> QED
    BY <2>1, <2>2, <2>3 DEF Card!TypeOK, Card!backend, Card!view, Card!test, Card!history
<1>14. ASSUME NEW c \in Cards, Card!Fetched(c) PROVE Card!TypeOK'
  <2>1. jobs' \subseteq Card!Requests
    BY <1>14, CardFetchedFacts DEF CardRests
  <2>2. acts' \in Card!Values
    BY <1>14, CardBounds, CardFetchedFacts DEF Card!TypeOK
  <2>3. fetch' \in [Cards -> [phase : {"idle", "sent", "served"}, conn : Card!Values]]
    BY <1>14, CardRecords DEF Card!Fetched, Card!TypeOK
  <2>4. shown' \in [Cards -> [known : BOOLEAN, conn : Card!Values]]
    <3>1. [known |-> TRUE, conn |-> fetch[c].conn] \in [known : BOOLEAN, conn : Card!Values]
      BY DEF Card!TypeOK
    <3> QED
      BY <1>14, <3>1 DEF Card!Fetched, Card!TypeOK
  <2>5. UNCHANGED <<Card!backend, Card!browser, channels, busy, Card!test, Card!history>>
    BY <1>14 DEF Card!Fetched
  <2> QED
    BY <2>1, <2>2, <2>3, <2>4, <2>5 DEF Card!TypeOK, Card!backend, Card!browser, Card!test,
      Card!history
<1>15. ASSUME NEW j \in jobs, Card!ChannelsLoaded(j) PROVE Card!TypeOK'
  <2>1. channels' \in Card!Values
    BY <1>15, CardBounds DEF Card!ChannelsLoaded, Card!TypeOK
  <2>2. jobs' \subseteq jobs
        /\ UNCHANGED <<Card!backend, Card!browser, shown, fetch, busy, Card!test, acts, Card!history>>
    BY <1>15 DEF Card!ChannelsLoaded
  <2> QED
    BY <2>1, <2>2 DEF Card!TypeOK, Card!backend, Card!browser, Card!test, Card!history
<1>16. ASSUME Card!Focus PROVE Card!TypeOK'
  <2>1. acts' \in Card!Values
    BY <1>16, CardBounds DEF Card!Focus
  <2>2. fetch' \in [Cards -> [phase : {"idle", "sent", "served"}, conn : Card!Values]]
    BY <1>16, CardRecords DEF Card!Focus
  <2>3. UNCHANGED <<Card!backend, jobs, Card!browser, shown, channels, busy, Card!test, Card!history>>
    BY <1>16 DEF Card!Focus
  <2> QED
    BY <2>1, <2>2, <2>3 DEF Card!TypeOK, Card!backend, Card!browser, Card!test, Card!history
<1>17. ASSUME Card!CloseNotice PROVE Card!TypeOK'
  <2>1. {address', notice'}
        \subseteq [card : Cards \cup {none}, says : {"", "connected", "error"}]
    BY <1>17, CardRecords DEF Card!CloseNotice, Card!TypeOK
  <2>2. UNCHANGED <<Card!backend, jobs, place, Card!view, busy, Card!test, acts, Card!history>>
    BY <1>17 DEF Card!CloseNotice
  <2> QED
    BY <2>1, <2>2 DEF Card!TypeOK, Card!backend, Card!view, Card!test, Card!history
<1>18. ASSUME NEW j \in jobs, Card!Leave(j) PROVE Card!TypeOK'
  <2>1. Card!Blank /\ jobs' \subseteq jobs /\ place' \in Cards \cup {none}
    BY <1>18, CardBounds DEF Card!Leave, Card!Orphans
  <2>2. fetch' \in [Cards -> [phase : {"idle", "sent", "served"}, conn : Card!Values]]
    BY <1>18, CardRecords DEF Card!Leave
  <2>3. {address', notice'}
        \subseteq [card : Cards \cup {none}, says : {"", "connected", "error"}]
    BY <1>18, CardRecords DEF Card!Leave, Card!TypeOK
  <2>4. UNCHANGED <<Card!backend, acts, Card!history>>
    BY <1>18 DEF Card!Leave
  <2> QED
    BY <2>1, <2>2, <2>3, <2>4, CardBlankTypes DEF Card!TypeOK, Card!backend, Card!history
<1>19. ASSUME NEW a \in [card : Cards \cup {none}, says : {"", "connected", "error"}],
              Card!Open(a),
              acts' \in Card!Values, conn' \in [Cards -> Card!Values], channel' \in Card!Values,
              raced' \in BOOLEAN, reread' \in BOOLEAN, astray' = astray
       PROVE  Card!TypeOK'
  <2>1. Card!Blank /\ jobs' = {} /\ elsewhere' = {} /\ place' = none /\ address' = a
        /\ notice' = a
    BY <1>19 DEF Card!Open
  <2>2. fetch' \in [Cards -> [phase : {"idle", "sent", "served"}, conn : Card!Values]]
    BY <1>19, CardRecords DEF Card!Open
  <2>3. jobs' \subseteq Card!Requests /\ elsewhere' \subseteq Cards
    BY <2>1
  <2>4. astray' \in BOOLEAN
    BY <1>19 DEF Card!TypeOK
  <2> QED
    BY <1>19, <2>1, <2>2, <2>3, <2>4, CardBlankTypes DEF Card!TypeOK
<1>20. ASSUME Card!Return PROVE Card!TypeOK'
  <2>1. acts' \in Card!Values /\ place \in Cards
    BY <1>20, CardBounds DEF Card!Return, Card!AtPage, Card!TypeOK
  <2>2. raced' \in BOOLEAN /\ reread' \in BOOLEAN /\ astray' = astray
    BY <1>20 DEF Card!Return
  <2>3. conn' \in [Cards -> Card!Values]
    BY <1>0, <1>20, <2>1 DEF Card!Return, Card!backend
  <2>4. channel' \in Card!Values
    BY <1>20, <2>1 DEF Card!Return, Card!backend, Card!TypeOK
  <2> DEFINE a == [card |-> place, says |-> "connected"]
             b == [card |-> place, says |-> "error"]
  <2>5. /\ a \in [card : Cards \cup {none}, says : {"", "connected", "error"}]
        /\ b \in [card : Cards \cup {none}, says : {"", "connected", "error"}]
    BY <2>1
  <2>6. Card!Open(a) \/ Card!Open(b)
    BY <1>20 DEF Card!Return
  <2> HIDE DEF a, b
  <2> QED
    BY <1>19, <2>1, <2>2, <2>3, <2>4, <2>5, <2>6
<1>21. ASSUME Card!Reload PROVE Card!TypeOK'
  <2>1. acts' \in Card!Values /\ raced' \in BOOLEAN /\ reread' \in BOOLEAN /\ astray' = astray
        /\ Card!Open(address)
    BY <1>21, CardBounds DEF Card!Reload
  <2>2. conn' \in [Cards -> Card!Values] /\ channel' \in Card!Values
        /\ address \in [card : Cards \cup {none}, says : {"", "connected", "error"}]
    BY <1>21 DEF Card!Reload, Card!backend, Card!TypeOK
  <2> QED
    BY <1>19, <2>1, <2>2
<1> QED
  BY <1>1, <1>2, <1>3, <1>4, <1>5, <1>6, <1>7, <1>8, <1>9, <1>10, <1>11, <1>12, <1>13, <1>14,
    <1>15, <1>16,
     <1>17, <1>18, <1>20, <1>21 DEF Card!Next

-----------------------------------------------------------------------------
\* Every step keeps ResultInv.
LEMMA CardNextResultInv ==
    ASSUME Card!IntegrationsAssumption, Card!TypeOK, Card!ResultInv, [Card!Next]_(Card!vars)
    PROVE  Card!ResultInv'
<1> DEFINE jobs == s3  result == s11  timers == s12
<1>1. CASE UNCHANGED <<result, timers>>
  BY <1>1 DEF Card!ResultInv
<1>2. CASE Card!Blank
  BY <1>2 DEF Card!Blank, Card!ResultInv
<1>3. ASSUME NEW c \in Cards, Card!Test(c) PROVE Card!ResultInv'
  <2>1. result' = [result EXCEPT ![c] = Card!NoResult] /\ timers' = timers
    BY <1>3 DEF Card!Test
  <2> QED
    BY <2>1 DEF Card!ResultInv, Card!TypeOK
<1>4. ASSUME NEW j \in jobs, Card!TestEnds(j) PROVE Card!ResultInv'
  <2>1. /\ result' = [result EXCEPT ![j.card] = [of |-> j.n, says |-> IF j.ok THEN "ok" ELSE "error"]]
        /\ timers' = [timers EXCEPT ![j.card] = @ \cup {j.n}] /\ j.card \in Cards
    BY <1>4, CardBounds DEF Card!TestEnds
  <2>2. \A c \in Cards : /\ c # j.card => result'[c] = result[c] /\ timers'[c] = timers[c]
                         /\ c = j.card => result'[c].of = j.n /\ j.n \in timers'[c]
    BY <2>1 DEF Card!TypeOK
  <2> QED
    BY <2>2 DEF Card!ResultInv
<1>5. ASSUME NEW c \in Cards, NEW n \in timers[c], Card!TimerEnds(c, n) PROVE Card!ResultInv'
  <2>1. /\ result' = [result EXCEPT ![c] = Card!NoResult]
        /\ timers' = [timers EXCEPT ![c] = @ \ {n}]
    BY <1>5 DEF Card!TimerEnds
  <2>2. \A d \in Cards : /\ d # c => result'[d] = result[d] /\ timers'[d] = timers[d]
                         /\ d = c => result'[d] = Card!NoResult
    BY <2>1 DEF Card!TypeOK
  <2> QED
    BY <2>2 DEF Card!ResultInv
<1>6. CASE UNCHANGED Card!vars
  BY <1>1, <1>6 DEF Card!vars, Card!test
<1>7. ASSUME NEW j \in jobs, Card!Perform(j) \/ Card!Fail(j) \/ Card!Answered(j) \/ Card!Finish(j) \/ Card!ChannelsLoaded(j)
      PROVE  Card!ResultInv'
  BY <1>1, <1>7 DEF Card!Perform, Card!Fail, Card!Answered, Card!Finish, Card!ChannelsLoaded,
    Card!test
<1>8. ASSUME NEW c \in Cards, Card!Elsewhere(c) \/ Card!Serve(c) \/ Card!Fetched(c) \/ Card!Connect(c) \/ Card!Disconnect(c)
      PROVE  Card!ResultInv'
  BY <1>1, <1>8 DEF Card!Elsewhere, Card!Serve, Card!Fetched, Card!Connect, Card!Disconnect,
    Card!test
<1>9. ASSUME Card!ChangeChannel \/ Card!Focus \/ Card!CloseNotice PROVE Card!ResultInv'
  BY <1>1, <1>9 DEF Card!ChangeChannel, Card!Focus, Card!CloseNotice, Card!test
<1>10. ASSUME NEW j \in jobs, Card!Leave(j) PROVE Card!ResultInv'
  BY <1>2, <1>10 DEF Card!Leave
<1>11. ASSUME Card!Return \/ Card!Reload PROVE Card!ResultInv'
  BY <1>2, <1>11 DEF Card!Return, Card!Reload, Card!Open
<1> QED
  BY <1>3, <1>4, <1>5, <1>6, <1>7, <1>8, <1>9, <1>10, <1>11 DEF Card!Next

-----------------------------------------------------------------------------
\* What the requests say to the invariants about the cards stays, but what a step changes in them.
CardSays(k) == k.kind \in {"connect", "disconnect"} /\ k.phase = "done" /\ k.ok

\* Every step keeps ShownInv.
LEMMA CardNextShownInv ==
    ASSUME Card!IntegrationsAssumption, Card!TypeOK, Card!ShownInv, [Card!Next]_(Card!vars)
    PROVE  Card!ShownInv'
<1> DEFINE conn == s1  jobs == s3  place == s4  shown == s7  fetch == s8  timers == s12
           elsewhere == s15  raced == s16
<1>0. conn \in [Cards -> Card!Values] /\ DOMAIN fetch = Cards /\ DOMAIN shown = Cards
      /\ DOMAIN conn = Cards
  BY DEF Card!TypeOK
<1>1. ASSUME UNCHANGED <<conn, place, shown, fetch>>, elsewhere \subseteq elsewhere',
             raced => raced',
             ~raced' => \A k \in jobs : CardSays(k) => k \in jobs'
      PROVE  Card!ShownInv'
  BY <1>1 DEF Card!ShownInv, Card!AtPage, Card!Unsaid, CardSays
<1>2. CASE UNCHANGED Card!vars
  BY <1>1, <1>2 DEF Card!vars, Card!backend, Card!view, Card!browser, Card!history
<1>3. ASSUME NEW j \in jobs, Card!Perform(j) PROVE Card!ShownInv'
  <2>1. PICK e \in Card!Requests : /\ jobs' = (jobs \ {j}) \cup {e} /\ e.card = j.card /\ e.kind = j.kind
                                   /\ e.phase = "done" /\ CardEffect(j, e)
    BY <1>3, CardPerformFacts
  <2>2. /\ j.phase = "sent" /\ UNCHANGED <<place, shown, fetch, elsewhere>>
        /\ raced => raced'
    BY <1>3 DEF Card!Perform, Card!browser, Card!view
  <2>3. \A k \in jobs : CardSays(k) => k \in jobs'
    BY <2>1, <2>2 DEF CardSays
  <2>4. CASE conn' = conn
    BY <1>1, <2>2, <2>3, <2>4
  <2>5. CASE conn' # conn
    <3>1. j.kind \in {"connect", "disconnect"} /\ e.ok = TRUE /\ \A c \in Cards : c # j.card
          => conn'[c] = conn[c]
      BY <1>0, <2>1, <2>5 DEF CardEffect
    <3>2. Card!Unsaid(j.card)'
      BY <2>1, <3>1 DEF Card!Unsaid
    <3>3. \A c \in Cards : Card!Unsaid(c) => Card!Unsaid(c)'
      BY <2>3 DEF Card!Unsaid, CardSays
    <3>4. ASSUME Card!AtPage', ~raced', NEW c \in Cards \ elsewhere'
          PROVE  (/\ fetch[c].phase = "served" => fetch[c].conn = conn[c] \/ Card!Unsaid(c)
                  /\ fetch[c] = Card!Idle => shown[c].conn = conn[c] \/ Card!Unsaid(c))'
      <4>1. CASE c = j.card
        BY <3>2, <4>1
      <4>2. CASE c # j.card
        <5>1. Card!AtPage /\ ~raced /\ c \in Cards \ elsewhere
          BY <2>2, <3>4 DEF Card!AtPage
        <5>2. /\ fetch[c].phase = "served" => fetch[c].conn = conn[c] \/ Card!Unsaid(c)
              /\ fetch[c] = Card!Idle => shown[c].conn = conn[c] \/ Card!Unsaid(c)
          BY <5>1 DEF Card!ShownInv
        <5> QED
          BY <2>2, <3>1, <3>3, <4>2, <5>2
      <4> QED
        BY <4>1, <4>2
    <3>5. \A c \in Cards : (fetch[c] \in {Card!Idle, Card!Sent} \/ fetch[c].phase = "served")'
      BY <2>2 DEF Card!ShownInv
    <3> QED
      BY <3>4, <3>5 DEF Card!ShownInv
  <2> QED
    BY <2>4, <2>5
<1>4. ASSUME NEW j \in jobs, Card!Fail(j) PROVE Card!ShownInv'
  <2>1. PICK e : jobs' = (jobs \ {j}) \cup {e}
    BY <1>4, CardFailFacts
  <2>2. UNCHANGED <<conn, place, shown, fetch, elsewhere>> /\ (raced => raced')
        /\ (j.phase = "done" => raced')
    BY <1>4 DEF Card!Fail, Card!backend, Card!browser, Card!view
  <2>3. ~raced' => \A k \in jobs : CardSays(k) => k \in jobs'
    BY <2>1, <2>2 DEF CardSays
  <2> QED
    BY <1>1, <2>2, <2>3
<1>5. ASSUME NEW c \in Cards, Card!Elsewhere(c) PROVE Card!ShownInv'
  <2>1. /\ UNCHANGED <<jobs, place, shown, fetch, raced>> /\ elsewhere' = elsewhere \cup {c}
        /\ \A d \in Cards : d # c => conn'[d] = conn[d]
    BY <1>0, <1>5 DEF Card!Elsewhere, Card!browser, Card!view
  <2> QED
    BY <2>1 DEF Card!ShownInv, Card!AtPage, Card!Unsaid
<1>6. ASSUME NEW c \in Cards, Card!Serve(c) PROVE Card!ShownInv'
  <2>1. /\ fetch' = [fetch EXCEPT ![c] = [phase |-> "served", conn |-> conn[c]]]
        /\ UNCHANGED <<conn, jobs, place, shown, elsewhere, raced>>
    BY <1>6 DEF Card!Serve, Card!backend, Card!browser, Card!history
  <2>2. /\ fetch'[c].phase = "served" /\ fetch'[c].conn = conn[c] /\ fetch'[c] # Card!Idle
        /\ \A d \in Cards : d # c => fetch'[d] = fetch[d]
    BY <1>0, <2>1 DEF Card!Idle
  <2> QED
    BY <2>1, <2>2 DEF Card!ShownInv, Card!AtPage, Card!Unsaid
<1>7. ASSUME NEW r, jobs' = jobs \cup {r}, UNCHANGED <<conn, place, shown, fetch, elsewhere, raced>>
      PROVE  Card!ShownInv'
  BY <1>1, <1>7
<1>8. ASSUME NEW c \in Cards, Card!Connect(c) PROVE Card!ShownInv'
  BY <1>7, <1>8, CardConnectFacts DEF Card!Connect, Card!backend, Card!browser, Card!view,
    Card!history
<1>9. ASSUME NEW c \in Cards, Card!Disconnect(c) PROVE Card!ShownInv'
  BY <1>7, <1>9, CardDisconnectFacts DEF Card!Disconnect, Card!backend, Card!browser, Card!view,
    Card!history
<1>10. ASSUME Card!ChangeChannel PROVE Card!ShownInv'
  BY <1>7, <1>10, CardChangeChannelFacts DEF Card!ChangeChannel, Card!backend, Card!browser,
    Card!view, Card!history
<1>11. ASSUME NEW c \in Cards, Card!Test(c) PROVE Card!ShownInv'
  BY <1>7, <1>11, CardTestFacts DEF Card!Test, Card!backend, Card!browser, Card!view, Card!history
<1>12. ASSUME NEW j \in jobs, Card!TestEnds(j) \/ Card!Finish(j) \/ Card!ChannelsLoaded(j)
       PROVE  Card!ShownInv'
  <2>1. jobs' = jobs \ {j} /\ ~CardSays(j)
        /\ UNCHANGED <<conn, place, shown, fetch, elsewhere, raced>>
    BY <1>12 DEF Card!TestEnds, Card!Finish, Card!ChannelsLoaded, CardSays, Card!backend,
      Card!browser, Card!view, Card!history
  <2> QED
    BY <1>1, <2>1
<1>13. ASSUME NEW c \in Cards, NEW n \in timers[c], Card!TimerEnds(c, n) PROVE Card!ShownInv'
  BY <1>1, <1>13 DEF Card!TimerEnds, Card!backend, Card!browser, Card!view, Card!history
<1>14. ASSUME Card!CloseNotice PROVE Card!ShownInv'
  BY <1>1, <1>14 DEF Card!CloseNotice, Card!backend, Card!view, Card!history
<1>15. ASSUME NEW j \in jobs, Card!Answered(j) PROVE Card!ShownInv'
  <2>1. PICK T : CardRests(T) /\ jobs' = {T[k] : k \in jobs} /\ \A k \in jobs : k # j
             /\ k.phase = "done" => T[k] = k
    BY <1>15, CardAnsweredFacts
  <2>2. /\ fetch' = [fetch EXCEPT ![j.card] = IF ~shown[j.card].known /\ fetch[j.card] # Card!Idle THEN fetch[j.card] ELSE Card!Sent]
        /\ UNCHANGED <<conn, place, shown, elsewhere>> /\ (raced => raced')
        /\ ~shown[j.card].known /\ fetch[j.card].phase = "served" => raced'
    BY <1>15 DEF Card!Answered, Card!Refetching, Card!backend, Card!browser
  <2>3. j.card \in Cards
    BY CardBounds
  <2>4. \A d \in Cards : d # j.card => fetch'[d] = fetch[d]
    BY <1>0, <2>2
  <2>5. fetch'[j.card] = Card!Sent
        \/ (~shown[j.card].known /\ fetch[j.card] # Card!Idle /\ fetch'[j.card] = fetch[j.card])
    BY <1>0, <2>2, <2>3
  <2>6. \A d \in Cards : (fetch[d] \in {Card!Idle, Card!Sent} \/ fetch[d].phase = "served")'
    BY <2>4, <2>5 DEF Card!ShownInv
  <2>7. ~raced' => fetch'[j.card] = Card!Sent
    BY <2>2, <2>3, <2>5 DEF Card!ShownInv
  <2>8. Card!Sent.phase # "served" /\ Card!Sent # Card!Idle
    BY DEF Card!Sent, Card!Idle
  <2>9. \A d \in Cards : d # j.card /\ Card!Unsaid(d) => Card!Unsaid(d)'
    <3> SUFFICES ASSUME NEW d \in Cards, d # j.card, Card!Unsaid(d) PROVE Card!Unsaid(d)'
      OBVIOUS
    <3>1. PICK k \in jobs : k.card = d /\ k.kind \in {"connect", "disconnect"}
               /\ k.phase = "done" /\ k.ok
      BY DEF Card!Unsaid
    <3>2. k \in jobs'
      BY <2>1, <3>1
    <3> QED
      BY <3>1, <3>2 DEF Card!Unsaid
  <2>10. ASSUME Card!AtPage', ~raced', NEW d \in Cards \ elsewhere'
         PROVE  (/\ fetch[d].phase = "served" => fetch[d].conn = conn[d] \/ Card!Unsaid(d)
                 /\ fetch[d] = Card!Idle => shown[d].conn = conn[d] \/ Card!Unsaid(d))'
    <3>1. CASE d = j.card
      BY <2>7, <2>8, <2>10, <3>1
    <3>2. CASE d # j.card
      <4>1. Card!AtPage /\ ~raced /\ d \in Cards \ elsewhere
        BY <2>2, <2>10 DEF Card!AtPage
      <4>2. /\ fetch[d].phase = "served" => fetch[d].conn = conn[d] \/ Card!Unsaid(d)
            /\ fetch[d] = Card!Idle => shown[d].conn = conn[d] \/ Card!Unsaid(d)
        BY <4>1 DEF Card!ShownInv
      <4> QED
        BY <2>2, <2>4, <2>9, <3>2, <4>1, <4>2
    <3> QED
      BY <3>1, <3>2
  <2> QED
    BY <2>6, <2>10 DEF Card!ShownInv
<1>16. ASSUME NEW c \in Cards, Card!Fetched(c) PROVE Card!ShownInv'
  <2>1. PICK T, New : CardRests(T) /\ jobs' = {T[k] : k \in jobs} \cup New
             /\ \A k \in jobs : k.phase = "done" => T[k] = k
    BY <1>16, CardFetchedFacts
  <2>2. /\ fetch[c].phase = "served" /\ fetch' = [fetch EXCEPT ![c] = Card!Idle]
        /\ shown' = [shown EXCEPT ![c] = [known |-> TRUE, conn |-> fetch[c].conn]]
        /\ UNCHANGED <<conn, place, elsewhere, raced>>
    BY <1>16 DEF Card!Fetched, Card!backend, Card!browser, Card!history
  <2>3. \A k \in jobs : CardSays(k) => k \in jobs'
    BY <2>1 DEF CardSays
  <2>4. \A d \in Cards : Card!Unsaid(d) => Card!Unsaid(d)'
    BY <2>3 DEF Card!Unsaid, CardSays
  <2>5. /\ fetch'[c] = Card!Idle /\ shown'[c].conn = fetch[c].conn
        /\ \A d \in Cards : d # c => fetch'[d] = fetch[d] /\ shown'[d] = shown[d]
    BY <1>0, <2>2
  <2>6. Card!Idle.phase # "served"
    BY DEF Card!Idle
  <2>7. \A d \in Cards : (fetch[d] \in {Card!Idle, Card!Sent} \/ fetch[d].phase = "served")'
    BY <2>5 DEF Card!ShownInv
  <2>8. ASSUME Card!AtPage', ~raced', NEW d \in Cards \ elsewhere'
        PROVE  (/\ fetch[d].phase = "served" => fetch[d].conn = conn[d] \/ Card!Unsaid(d)
                /\ fetch[d] = Card!Idle => shown[d].conn = conn[d] \/ Card!Unsaid(d))'
    <3>1. Card!AtPage /\ ~raced /\ d \in Cards \ elsewhere
      BY <2>2, <2>8 DEF Card!AtPage
    <3>2. /\ fetch[d].phase = "served" => fetch[d].conn = conn[d] \/ Card!Unsaid(d)
          /\ fetch[d] = Card!Idle => shown[d].conn = conn[d] \/ Card!Unsaid(d)
      BY <3>1 DEF Card!ShownInv
    <3> QED
      BY <2>2, <2>4, <2>5, <2>6, <3>1, <3>2
  <2> QED
    BY <2>7, <2>8 DEF Card!ShownInv
\* All is fetched anew.
<1>17. ASSUME fetch' = [c \in Cards |-> Card!Sent] PROVE Card!ShownInv'
  <2>1. \A c \in Cards : fetch'[c] = Card!Sent /\ fetch'[c] # Card!Idle
        /\ fetch'[c].phase # "served"
    BY <1>17 DEF Card!Sent, Card!Idle
  <2> QED
    BY <2>1 DEF Card!ShownInv
<1>18. ASSUME Card!Focus \/ Card!Return \/ Card!Reload PROVE Card!ShownInv'
  BY <1>17, <1>18 DEF Card!Focus, Card!Return, Card!Reload, Card!Open
<1>19. ASSUME NEW j \in jobs, Card!Leave(j) PROVE Card!ShownInv'
  <2>1. ~Card!AtPage' /\ \A c \in Cards : fetch'[c] = Card!Idle
    BY <1>19, CardBounds DEF Card!Leave, Card!AtPage
  <2> QED
    BY <2>1 DEF Card!ShownInv
<1> QED
  BY <1>2, <1>3, <1>4, <1>5, <1>6, <1>8, <1>9, <1>10, <1>11, <1>12, <1>13, <1>14, <1>15, <1>16,
    <1>18, <1>19 DEF Card!Next

-----------------------------------------------------------------------------
\* A disconnection is on its way to the page.
CardCloses(k) == k.kind = "disconnect"
/\ (k.phase \in {"waits", "free"} \/ (k.phase = "done" /\ k.ok))

\* Every step keeps NoticeInv.
LEMMA CardNextNoticeInv ==
    ASSUME Card!IntegrationsAssumption, Card!TypeOK, Card!NoticeInv, [Card!Next]_(Card!vars)
    PROVE  Card!NoticeInv'
<1> DEFINE conn == s1  jobs == s3  place == s4  notice == s6  timers == s12  acts == s14
           elsewhere == s15  raced == s16  reread == s17
<1>0. conn \in [Cards -> Card!Values] /\ DOMAIN conn = Cards
  BY DEF Card!TypeOK
<1>c. \A c : Card!Disconnected(c) <=> \E k \in jobs : CardCloses(k) /\ k.card = c
  BY DEF Card!Disconnected, CardCloses
<1>d. \A c : Card!Disconnected(c)' <=> \E k \in jobs' : CardCloses(k) /\ k.card = c
  BY DEF Card!Disconnected, CardCloses
<1>1. ASSUME UNCHANGED <<conn, place, notice>>, elsewhere \subseteq elsewhere', raced => raced',
             reread => reread',
             ~raced' => \A k \in jobs : CardCloses(k)
             => \E q \in jobs' : CardCloses(q) /\ q.card = k.card
      PROVE  Card!NoticeInv'
  <2>1. ASSUME ~raced', NEW c, Card!Disconnected(c) PROVE Card!Disconnected(c)'
    BY <1>1, <1>c, <1>d, <2>1
  <2> QED
    BY <1>1, <2>1 DEF Card!NoticeInv, Card!AtPage
<1>2. CASE UNCHANGED Card!vars
  BY <1>1, <1>2 DEF Card!vars, Card!backend, Card!browser, Card!history
<1>3. ASSUME NEW j \in jobs, Card!Perform(j) PROVE Card!NoticeInv'
  <2>1. PICK e \in Card!Requests : /\ jobs' = (jobs \ {j}) \cup {e} /\ e.card = j.card /\ e.kind = j.kind
                                   /\ e.phase = "done" /\ CardEffect(j, e)
    BY <1>3, CardPerformFacts
  <2>2. j.phase = "sent" /\ UNCHANGED <<place, notice, elsewhere, reread>> /\ (raced => raced')
    BY <1>3 DEF Card!Perform, Card!browser
  <2>3. \A k \in jobs : CardCloses(k) => k \in jobs'
    BY <2>1, <2>2 DEF CardCloses
  <2>4. CASE j.kind \notin {"connect", "disconnect"}
    <3>1. conn' = conn
      BY <2>1, <2>4 DEF CardEffect
    <3> QED
      BY <1>1, <2>2, <2>3, <3>1
  <2>5. CASE j.kind \in {"connect", "disconnect"}
    <3>0. j.card \in Cards /\ j.n # 0
      BY CardBounds
    <3>1. /\ \A c \in Cards : c # j.card => conn'[c] = conn[c]
          /\ j.kind = "connect" => conn'[j.card] # 0
          /\ j.kind = "disconnect" => e.ok = TRUE
      BY <1>0, <2>1, <2>5, <3>0 DEF CardEffect
    <3>2. j.kind = "disconnect" => Card!Disconnected(j.card)'
      BY <1>d, <2>1, <3>1 DEF CardCloses
    <3>3. ASSUME Card!AtPage', ~raced', ~reread', NEW c \in Cards \ elsewhere',
                 notice' = [card |-> c, says |-> "connected"]
          PROVE  (conn[c] # 0 \/ Card!Disconnected(c))'
      <4>1. CASE c = j.card
        BY <2>5, <3>1, <3>2, <4>1
      <4>2. CASE c # j.card
        <5>1. Card!AtPage /\ ~raced /\ ~reread /\ c \in Cards \ elsewhere
              /\ notice = [card |-> c, says |-> "connected"]
          BY <2>2, <3>3 DEF Card!AtPage
        <5>2. conn[c] # 0 \/ Card!Disconnected(c)
          BY <5>1 DEF Card!NoticeInv
        <5> QED
          BY <1>c, <1>d, <2>3, <3>1, <4>2, <5>1, <5>2
      <4> QED
        BY <4>1, <4>2
    <3> QED
      BY <3>3 DEF Card!NoticeInv
  <2> QED
    BY <2>4, <2>5
<1>4. ASSUME NEW j \in jobs, Card!Fail(j) PROVE Card!NoticeInv'
  <2>1. PICK e : jobs' = (jobs \ {j}) \cup {e}
    BY <1>4, CardFailFacts
  <2>2. /\ UNCHANGED <<conn, place, notice, elsewhere, reread>> /\ (raced => raced')
             /\ (j.phase = "done" => raced')
        /\ j.phase \in {"sent", "done"}
    BY <1>4 DEF Card!Fail, Card!backend, Card!browser
  <2>3. ~raced' => \A k \in jobs : CardCloses(k) => k \in jobs'
    BY <2>1, <2>2 DEF CardCloses
  <2> QED
    BY <1>1, <2>2, <2>3
<1>5. ASSUME NEW c \in Cards, Card!Elsewhere(c) PROVE Card!NoticeInv'
  <2>1. /\ UNCHANGED <<jobs, place, notice, raced, reread>> /\ elsewhere' = elsewhere \cup {c}
        /\ \A d \in Cards : d # c => conn'[d] = conn[d]
    BY <1>0, <1>5 DEF Card!Elsewhere, Card!browser
  <2> QED
    BY <2>1 DEF Card!NoticeInv, Card!AtPage, Card!Disconnected
<1>6. ASSUME jobs \subseteq jobs', UNCHANGED <<conn, place, notice, elsewhere, raced, reread>>
      PROVE  Card!NoticeInv'
  BY <1>1, <1>6
<1>7. ASSUME NEW c \in Cards, Card!Serve(c) \/ Card!Connect(c) \/ Card!Disconnect(c) \/ Card!Test(c)
      PROVE  Card!NoticeInv'
  BY <1>6, <1>7 DEF Card!Serve, Card!Connect, Card!Disconnect, Card!Test, Card!backend,
    Card!browser, Card!history
<1>8. ASSUME Card!ChangeChannel \/ Card!Focus PROVE Card!NoticeInv'
  BY <1>6, <1>8 DEF Card!ChangeChannel, Card!Focus, Card!backend, Card!browser, Card!history
<1>9. ASSUME NEW c \in Cards, NEW n \in timers[c], Card!TimerEnds(c, n) PROVE Card!NoticeInv'
  BY <1>6, <1>9 DEF Card!TimerEnds, Card!backend, Card!browser, Card!history
<1>10. ASSUME NEW j \in jobs, Card!TestEnds(j) \/ Card!ChannelsLoaded(j) PROVE Card!NoticeInv'
  <2>1. jobs' = jobs \ {j} /\ ~CardCloses(j)
        /\ UNCHANGED <<conn, place, notice, elsewhere, raced, reread>>
    BY <1>10 DEF Card!TestEnds, Card!ChannelsLoaded, CardCloses, Card!backend, Card!browser,
      Card!history
  <2> QED
    BY <1>1, <2>1
<1>11. ASSUME NEW j \in jobs, Card!Finish(j) PROVE Card!NoticeInv'
  <2>1. /\ jobs' = jobs \ {j} /\ UNCHANGED <<conn, place, elsewhere, raced, reread>>
        /\ notice' = IF j.kind = "disconnect" /\ j.phase = "free" /\ notice.card = j.card THEN Card!NoNotice ELSE notice
        /\ j.phase = "free" \/ (j.phase = "done" /\ ~j.ok)
    BY <1>11 DEF Card!Finish, Card!backend, Card!history
  <2>2. ASSUME Card!AtPage', ~raced', ~reread', NEW c \in Cards \ elsewhere',
               notice' = [card |-> c, says |-> "connected"]
        PROVE  (conn[c] # 0 \/ Card!Disconnected(c))'
    <3>1. Card!NoNotice # [card |-> c, says |-> "connected"]
      BY DEF Card!NoNotice
    <3>2. notice = [card |-> c, says |-> "connected"]
          /\ ~(j.kind = "disconnect" /\ j.phase = "free" /\ notice.card = j.card)
      BY <2>1, <2>2, <3>1
    <3>3. conn[c] # 0 \/ Card!Disconnected(c)
      BY <2>1, <2>2, <3>2 DEF Card!NoticeInv, Card!AtPage
    <3>4. ASSUME Card!Disconnected(c) PROVE Card!Disconnected(c)'
      <4>1. PICK k \in jobs : CardCloses(k) /\ k.card = c
        BY <1>c, <3>4
      <4>2. k # j
        BY <2>1, <3>2, <4>1 DEF CardCloses
      <4> QED
        BY <1>d, <2>1, <4>1, <4>2
    <3> QED
      BY <2>1, <3>3, <3>4
  <2> QED
    BY <2>2 DEF Card!NoticeInv
<1>12. ASSUME NEW T, CardRests(T), {T[k] : k \in jobs} \subseteq jobs',
              UNCHANGED <<conn, place, notice, elsewhere, reread>>, raced => raced'
       PROVE  Card!NoticeInv'
  <2>1. ASSUME NEW k \in jobs, CardCloses(k)
        PROVE  \E q \in jobs' : CardCloses(q) /\ q.card = k.card
    <3>1. T[k] \in jobs' /\ CardCloses(T[k]) /\ T[k].card = k.card
      BY <1>12, <2>1 DEF CardRests, CardCloses
    <3> QED
      BY <3>1
  <2> QED
    BY <1>1, <1>12, <2>1
<1>13. ASSUME NEW j \in jobs, Card!Answered(j) PROVE Card!NoticeInv'
  <2>1. PICK T : CardRests(T) /\ jobs' = {T[k] : k \in jobs}
    BY <1>13, CardAnsweredFacts
  <2>2. UNCHANGED <<conn, place, notice, elsewhere, reread>> /\ (raced => raced')
    BY <1>13 DEF Card!Answered, Card!backend, Card!browser
  <2> QED
    BY <1>12, <2>1, <2>2
<1>14. ASSUME NEW c \in Cards, Card!Fetched(c) PROVE Card!NoticeInv'
  <2>1. PICK T, New : CardRests(T) /\ jobs' = {T[k] : k \in jobs} \cup New
    BY <1>14, CardFetchedFacts
  <2>2. UNCHANGED <<conn, place, notice, elsewhere, reread, raced>>
    BY <1>14 DEF Card!Fetched, Card!backend, Card!browser, Card!history
  <2> QED
    BY <1>12, <2>1, <2>2
<1>15. ASSUME notice' = Card!NoNotice PROVE Card!NoticeInv'
  BY <1>15 DEF Card!NoticeInv, Card!NoNotice
<1>16. ASSUME Card!CloseNotice \/ \E j \in jobs : Card!Leave(j) PROVE Card!NoticeInv'
  BY <1>15, <1>16 DEF Card!CloseNotice, Card!Leave
<1>17. ASSUME Card!Return PROVE Card!NoticeInv'
  <2>1. CASE notice' = [card |-> place, says |-> "error"]
    BY <2>1 DEF Card!NoticeInv
  <2>2. CASE conn' = [conn EXCEPT ![place] = acts']
             /\ notice' = [card |-> place, says |-> "connected"]
    <3>1. place \in Cards /\ acts' # 0
      BY <1>17, CardBounds DEF Card!Return, Card!AtPage, Card!TypeOK
    <3>2. conn'[place] # 0
      BY <1>0, <2>2, <3>1
    <3> QED
      BY <2>2, <3>2 DEF Card!NoticeInv
  <2> QED
    BY <1>17, <2>1, <2>2 DEF Card!Return, Card!Open
<1>18. ASSUME Card!Reload PROVE Card!NoticeInv'
  BY <1>18 DEF Card!Reload, Card!NoticeInv
<1> QED
  BY <1>2, <1>3, <1>4, <1>5, <1>7, <1>8, <1>9, <1>10, <1>11, <1>13, <1>14, <1>16, <1>17, <1>18
    DEF Card!Next

-----------------------------------------------------------------------------
\* Every step keeps ChannelInv.
LEMMA CardNextChannelInv ==
    ASSUME Card!IntegrationsAssumption, Card!TypeOK, Card!ChannelInv, [Card!Next]_(Card!vars)
    PROVE  Card!ChannelInv'
<1> DEFINE conn == s1  channel == s2  jobs == s3  place == s4  timers == s12  channels == s13
           acts == s14  elsewhere == s15  astray == s18
<1>0. conn \in [Cards -> Card!Values] /\ DOMAIN conn = Cards /\ Slack \in Cards
      /\ Slack \in Redirects
  BY DEF Card!TypeOK, Card!IntegrationsAssumption
<1> DEFINE Fits(k) == /\ k.kind = "connect" => k.card \notin Redirects
                      /\ k.kind \in {"channel", "channels"} => k.card = Slack
           Known(k, w) == /\ k.kind = "channel" /\ k.phase = "sent" => k.val = w
                          /\ k.kind = "channels" /\ k.phase = "done" /\ k.ok => k.val = w
<1>i. /\ \A k \in jobs : Fits(k)
      /\ Slack \notin elsewhere /\ conn[Slack] # 0
           => channels \in {0, conn[Slack]} /\ \A k \in jobs : Known(k, conn[Slack])
      /\ astray \/ channel = conn[Slack]
  BY DEF Card!ChannelInv
<1>g. ASSUME /\ \A k \in jobs' : Fits(k)
             /\ Slack \notin elsewhere' /\ conn'[Slack] # 0 =>
                    channels' \in {0, conn'[Slack]} /\ \A k \in jobs' : Known(k, conn'[Slack])
             /\ astray' \/ channel' = conn'[Slack]
      PROVE  Card!ChannelInv'
  BY <1>g DEF Card!ChannelInv
\* Nothing happens to Slack, and the requests stay, are answered badly, or are made.
<1>1. ASSUME UNCHANGED <<channel, channels, astray>>, conn'[Slack] = conn[Slack],
             elsewhere \subseteq elsewhere',
             \A k \in jobs' : \/ k \in jobs
                              \/ Fits(k) /\ (Slack \notin elsewhere /\ conn[Slack] # 0 => Known(k, conn[Slack]))
      PROVE  Card!ChannelInv'
  BY <1>1, <1>i, <1>g
<1>2. CASE UNCHANGED Card!vars
  BY <1>1, <1>2 DEF Card!vars, Card!backend, Card!view, Card!history
<1>3. ASSUME NEW j \in jobs, Card!Perform(j) PROVE Card!ChannelInv'
  <2>1. PICK e \in Card!Requests : /\ jobs' = (jobs \ {j}) \cup {e} /\ e.card = j.card /\ e.kind = j.kind
                                   /\ e.phase = "done" /\ CardEffect(j, e)
    BY <1>3, CardPerformFacts
  <2>2. /\ j.phase = "sent" /\ UNCHANGED <<channels, elsewhere>>
        /\ astray => astray' /\ (j.kind # "channel" /\ astray' => astray)
        /\ j.kind = "channel" /\ Slack \in elsewhere => astray'
    BY <1>3 DEF Card!Perform, Card!view
  <2>3. Fits(e) /\ j.card \in Cards
    BY <1>i, <2>1, CardBounds
  <2>4. \A k \in jobs' : Fits(k)
    BY <1>i, <2>1, <2>3
  <2>5. CASE j.kind = "connect"
    <3>1. j.card # Slack /\ conn' = [conn EXCEPT ![j.card] = j.n] /\ channel' = channel
      BY <1>0, <1>i, <2>1, <2>5 DEF CardEffect
    <3>2. conn'[Slack] = conn[Slack]
      BY <1>0, <3>1
    <3>3. \A w : Known(e, w)
      BY <2>1, <2>5
    <3> QED
      BY <1>g, <1>i, <2>1, <2>2, <2>4, <3>1, <3>2, <3>3
  <2>6. CASE j.kind = "disconnect"
    <3>1. conn' = [conn EXCEPT ![j.card] = 0] /\ channel' = IF j.card = Slack THEN 0 ELSE channel
      BY <2>1, <2>6 DEF CardEffect
    <3>2. /\ j.card = Slack => conn'[Slack] = 0 /\ channel' = 0
          /\ j.card # Slack => conn'[Slack] = conn[Slack] /\ channel' = channel
      BY <1>0, <2>3, <3>1
    <3>3. \A w : Known(e, w)
      BY <2>1, <2>6
    <3> QED
      BY <1>g, <1>i, <2>1, <2>2, <2>4, <3>2, <3>3
  <2>7. CASE j.kind = "channel"
    <3>1. conn' = conn /\ channel' = IF conn[Slack] # 0 THEN j.val ELSE channel
      BY <2>1, <2>7 DEF CardEffect
    <3>2. \A w : Known(e, w)
      BY <2>1, <2>7
    <3>3. astray' \/ channel' = conn'[Slack]
      <4>1. CASE Slack \in elsewhere
        BY <2>2, <2>7, <4>1
      <4>2. CASE Slack \notin elsewhere /\ conn[Slack] # 0
        <5>1. j.val = conn[Slack]
          BY <1>i, <2>2, <2>7, <4>2
        <5> QED
          BY <3>1, <4>2, <5>1
      <4>3. CASE conn[Slack] = 0
        BY <1>i, <2>2, <3>1, <4>3
      <4> QED
        BY <4>1, <4>2, <4>3
    <3> QED
      BY <1>g, <1>i, <2>1, <2>2, <2>4, <3>1, <3>2, <3>3
  <2>8. CASE j.kind \in {"url", "test", "channels"}
    <3>1. conn' = conn /\ channel' = channel /\ e.val = conn[j.card]
      BY <2>1, <2>8 DEF CardEffect
    <3>2. Known(e, conn[Slack])
      <4>1. CASE j.kind = "channels"
        BY <1>i, <2>1, <3>1, <4>1
      <4>2. CASE j.kind \in {"url", "test"}
        BY <2>1, <4>2
      <4> QED
        BY <2>8, <4>1, <4>2
    <3> QED
      BY <1>g, <1>i, <2>1, <2>2, <2>4, <2>8, <3>1, <3>2
  <2> QED
    BY <2>1, <2>5, <2>6, <2>7, <2>8 DEF CardEffect
<1>4. ASSUME NEW j \in jobs, Card!Fail(j) PROVE Card!ChannelInv'
  <2>1. PICK e \in Card!Requests : /\ jobs' = (jobs \ {j}) \cup {e} /\ e.card = j.card /\ e.kind = j.kind
                                   /\ e.phase = "done" /\ e.ok = FALSE
    BY <1>4, CardFailFacts
  <2>2. Fits(e) /\ \A w : Known(e, w)
    BY <1>i, <2>1
  <2>3. UNCHANGED <<conn, channel, channels, astray, elsewhere>>
    BY <1>4 DEF Card!Fail, Card!backend, Card!view
  <2> QED
    BY <1>1, <2>1, <2>2, <2>3
<1>5. ASSUME NEW c \in Cards, Card!Elsewhere(c) PROVE Card!ChannelInv'
  <2>1. UNCHANGED <<jobs, channels, astray>> /\ elsewhere' = elsewhere \cup {c}
        /\ (c = Slack => channel' = conn'[c]) /\ (c # Slack => channel' = channel)
    BY <1>5 DEF Card!Elsewhere, Card!view
  <2>2. CASE c = Slack
    BY <1>g, <1>i, <2>1, <2>2
  <2>3. CASE c # Slack
    <3>1. conn'[Slack] = conn[Slack]
      BY <1>0, <1>5, <2>3 DEF Card!Elsewhere
    <3> QED
      BY <1>1, <2>1, <2>3, <3>1
  <2> QED
    BY <2>2, <2>3
<1>6. ASSUME jobs' \subseteq jobs, UNCHANGED <<conn, channel, channels, astray, elsewhere>>
      PROVE  Card!ChannelInv'
  BY <1>1, <1>6
<1>7. ASSUME NEW c \in Cards, Card!Serve(c) \/ \E n \in timers[c] : Card!TimerEnds(c, n)
      PROVE  Card!ChannelInv'
  BY <1>6, <1>7 DEF Card!Serve, Card!TimerEnds, Card!backend, Card!view, Card!history
<1>8. ASSUME NEW j \in jobs, Card!TestEnds(j) \/ Card!Finish(j) PROVE Card!ChannelInv'
  BY <1>6, <1>8 DEF Card!TestEnds, Card!Finish, Card!backend, Card!view, Card!history
<1>9. ASSUME Card!Focus \/ Card!CloseNotice PROVE Card!ChannelInv'
  BY <1>6, <1>9 DEF Card!Focus, Card!CloseNotice, Card!backend, Card!view, Card!history
<1>10. ASSUME NEW r, Fits(r), Slack \notin elsewhere /\ conn[Slack] # 0 => Known(r, conn[Slack]),
              jobs' = jobs \cup {r}, UNCHANGED <<conn, channel, channels, astray, elsewhere>>
       PROVE  Card!ChannelInv'
  BY <1>1, <1>10
<1>11. ASSUME NEW c \in Cards, Card!Connect(c) PROVE Card!ChannelInv'
  <2>1. PICK r \in Card!Requests : jobs' = jobs \cup {r}
             /\ (r.kind = "url" \/ (r.kind = "connect" /\ c \notin Redirects)) /\ r.card = c
    BY <1>11, CardConnectFacts
  <2>2. Fits(r) /\ \A w : Known(r, w)
    BY <2>1
  <2>3. UNCHANGED <<conn, channel, channels, astray, elsewhere>>
    BY <1>11 DEF Card!Connect, Card!backend, Card!view, Card!history
  <2> QED
    BY <1>10, <2>1, <2>2, <2>3
<1>12. ASSUME NEW c \in Cards, Card!Disconnect(c) PROVE Card!ChannelInv'
  <2>1. PICK r \in Card!Requests : jobs' = jobs \cup {r} /\ r.kind = "disconnect"
    BY <1>12, CardDisconnectFacts
  <2>2. Fits(r) /\ \A w : Known(r, w)
    BY <2>1
  <2>3. UNCHANGED <<conn, channel, channels, astray, elsewhere>>
    BY <1>12 DEF Card!Disconnect, Card!backend, Card!view, Card!history
  <2> QED
    BY <1>10, <2>1, <2>2, <2>3
<1>13. ASSUME NEW c \in Cards, Card!Test(c) PROVE Card!ChannelInv'
  <2>1. PICK r \in Card!Requests : jobs' = jobs \cup {r} /\ r.kind = "test"
    BY <1>13, CardTestFacts
  <2>2. Fits(r) /\ \A w : Known(r, w)
    BY <2>1
  <2>3. UNCHANGED <<conn, channel, channels, astray, elsewhere>>
    BY <1>13 DEF Card!Test, Card!backend, Card!view, Card!history
  <2> QED
    BY <1>10, <2>1, <2>2, <2>3
<1>14. ASSUME Card!ChangeChannel PROVE Card!ChannelInv'
  <2>1. PICK r \in Card!Requests : jobs' = jobs \cup {r} /\ r.kind = "channel"
             /\ r.card = Slack /\ r.val = channels
    BY <1>14, CardChangeChannelFacts
  <2>2. channels # 0 /\ UNCHANGED <<conn, channel, channels, astray, elsewhere>>
    BY <1>14 DEF Card!ChangeChannel, Card!CanChooseChannel, Card!backend, Card!view, Card!history
  <2>3. Fits(r) /\ (Slack \notin elsewhere /\ conn[Slack] # 0 => Known(r, conn[Slack]))
    BY <1>i, <2>1, <2>2
  <2> QED
    BY <1>10, <2>1, <2>2, <2>3
<1>15. ASSUME NEW T, CardRests(T),
              \A k \in jobs' : (\E p \in jobs : k = T[p])
              \/ (k.kind = "channels" /\ k.card = Slack /\ k.phase = "sent"),
              UNCHANGED <<conn, channel, channels, astray, elsewhere>>
       PROVE  Card!ChannelInv'
  <2>1. ASSUME NEW k \in jobs', k \notin jobs PROVE Fits(k) /\ \A w : Known(k, w)
    <3>1. CASE k.kind = "channels" /\ k.card = Slack /\ k.phase = "sent"
      BY <3>1
    <3>2. CASE \E p \in jobs : k = T[p]
      <4>1. PICK p \in jobs : k = T[p]
        BY <3>2
      <4>2. k.kind = p.kind /\ k.card = p.card /\ k.phase \in {"waits", "free"}
        BY <1>15, <2>1, <4>1 DEF CardRests
      <4>3. Fits(p)
        BY <1>i
      <4> QED
        BY <4>2, <4>3
    <3> QED
      BY <1>15, <3>1, <3>2
  <2> QED
    BY <1>1, <1>15, <2>1
<1>16. ASSUME NEW j \in jobs, Card!Answered(j) PROVE Card!ChannelInv'
  <2>1. PICK T : CardRests(T) /\ jobs' = {T[k] : k \in jobs}
    BY <1>16, CardAnsweredFacts
  <2>2. UNCHANGED <<conn, channel, channels, astray, elsewhere>>
    BY <1>16 DEF Card!Answered, Card!backend
  <2> QED
    BY <1>15, <2>1, <2>2
<1>17. ASSUME NEW c \in Cards, Card!Fetched(c) PROVE Card!ChannelInv'
  <2>1. PICK T, New : /\ CardRests(T) /\ jobs' = {T[k] : k \in jobs} \cup New
                      /\ \A r \in New : r.kind = "channels" /\ r.card = Slack /\ r.phase = "sent"
    BY <1>17, CardFetchedFacts
  <2>2. UNCHANGED <<conn, channel, channels, astray, elsewhere>>
    BY <1>17 DEF Card!Fetched, Card!backend, Card!history
  <2> QED
    BY <1>15, <2>1, <2>2
<1>18. ASSUME NEW j \in jobs, Card!ChannelsLoaded(j) PROVE Card!ChannelInv'
  <2>1. /\ jobs' = jobs \ {j} /\ j.kind = "channels" /\ j.phase = "done" /\ channels' = IF j.ok THEN j.val ELSE channels
        /\ UNCHANGED <<conn, channel, astray, elsewhere>>
    BY <1>18 DEF Card!ChannelsLoaded, Card!backend, Card!history
  <2>2. Slack \notin elsewhere /\ conn[Slack] # 0 => channels' \in {0, conn[Slack]}
    BY <1>i, <2>1
  <2> QED
    BY <1>g, <1>i, <2>1, <2>2
\* The page is opened, or left.
<1>19. ASSUME Card!Blank, jobs' \subseteq Card!Orphans, astray' = astray,
              elsewhere' \subseteq elsewhere \/ jobs' = {},
              jobs' = {} \/ (UNCHANGED <<conn, elsewhere>>),
              astray \/ channel' = conn'[Slack]
       PROVE  Card!ChannelInv'
  <2>1. channels' = 0 /\ jobs' \subseteq jobs
    BY <1>19 DEF Card!Blank, Card!Orphans
  <2> QED
    BY <1>g, <1>i, <1>19, <2>1
<1>20. ASSUME NEW j \in jobs, Card!Leave(j) PROVE Card!ChannelInv'
  BY <1>i, <1>19, <1>20 DEF Card!Leave, Card!backend, Card!history
<1>21. ASSUME Card!Return PROVE Card!ChannelInv'
  <2>1. Card!Blank /\ jobs' = {} /\ astray' = astray
    BY <1>21 DEF Card!Return, Card!Open
  <2>2. astray \/ channel' = conn'[Slack]
    <3>1. CASE UNCHANGED Card!backend
      BY <1>i, <3>1 DEF Card!backend
    <3>2. CASE conn' = [conn EXCEPT ![place] = acts'] /\ channel' = IF place = Slack THEN acts' ELSE channel
      <4>1. /\ place = Slack => conn'[Slack] = acts'
            /\ place # Slack => conn'[Slack] = conn[Slack]
        BY <1>0, <3>2
      <4> QED
        BY <1>i, <3>2, <4>1
    <3> QED
      BY <1>21, <3>1, <3>2 DEF Card!Return
  <2> QED
    BY <1>19, <2>1, <2>2
<1>22. ASSUME Card!Reload PROVE Card!ChannelInv'
  BY <1>i, <1>19, <1>22 DEF Card!Reload, Card!Open, Card!backend
<1> QED
  BY <1>2, <1>3, <1>4, <1>5, <1>7, <1>8, <1>9, <1>11, <1>12, <1>13, <1>14, <1>16, <1>17, <1>18,
    <1>20, <1>21, <1>22 DEF Card!Next

\* Every step keeps the invariant.
LEMMA CardNextIInv ==
    ASSUME Card!IntegrationsAssumption, Card!IInv, [Card!Next]_(Card!vars)
    PROVE  Card!IInv'
  BY CardNextTypeOK, CardNextShownInv, CardNextNoticeInv, CardNextChannelInv, CardNextResultInv
    DEF Card!IInv

\* The invariant implies what is promised.
LEMMA CardIInvFollows ==
    ASSUME Card!IInv
    PROVE  Card!CardsFollowServer
<1> DEFINE conn == s1  channel == s2  jobs == s3  notice == s6  shown == s7  fetch == s8
           result == s11  timers == s12  elsewhere == s15  raced == s16  reread == s17
           astray == s18
<1>1. \A c \in Cards : result[c] # Card!NoResult => result[c].of \in timers[c]
  BY DEF Card!IInv, Card!ResultInv
<1>2. ASSUME Card!AtPage, jobs = {}, ~raced, NEW c \in Cards \ elsewhere, fetch[c] = Card!Idle
      PROVE  /\ shown[c].conn = conn[c]
             /\ notice = [card |-> c, says |-> "connected"] /\ ~reread => conn[c] # 0
  BY <1>2 DEF Card!IInv, Card!ShownInv, Card!NoticeInv, Card!Unsaid, Card!Disconnected
<1>3. astray \/ channel = conn[Slack]
  BY DEF Card!IInv, Card!ChannelInv
<1> QED
  BY <1>1, <1>2, <1>3 DEF Card!CardsFollowServer

-----------------------------------------------------------------------------
(* Webhooks: secrets, tests, and the card that lists webhooks.             *)

\* What the types say of single variables.
LEMMA HookBounds ==
    ASSUME Hook!WebhooksAssumption, Hook!TypeOK
    PROVE  /\ s10 \in Nat /\ MaxActs \in Nat /\ 0 \notin Hook!Ids
           /\ Hook!Act => s10' \in Hook!Ids /\ s10' \in 0..MaxActs /\ s10' = s10 + 1
           /\ \A j \in s2 : j \in Hook!Requests /\ j.id \in Hook!Ids /\ j.n \in Hook!Ids
<1> DEFINE jobs == s2  acts == s10
<1>1. MaxActs \in Nat /\ acts \in 0..MaxActs /\ jobs \subseteq Hook!Requests
  BY Zenon DEF Hook!TypeOK, Hook!WebhooksAssumption
<1>2. Hook!Act => acts' \in Hook!Ids /\ acts' \in 0..MaxActs /\ acts' = acts + 1
  BY <1>1 DEF Hook!Act, Hook!Ids
<1>3. \A j \in Hook!Requests : j.id \in Hook!Ids /\ j.n \in Hook!Ids
  BY DEF Hook!Requests
<1> QED
  BY <1>1, <1>2, <1>3 DEF Hook!Ids

\* A request is answered, well or badly.
LEMMA HookDone ==
    ASSUME NEW j \in Hook!Requests, NEW ok \in BOOLEAN
    PROVE  LET e == [j EXCEPT !.phase = "done", !.ok = ok]
           IN  e \in Hook!Requests /\ e.id = j.id /\ e.kind = j.kind /\ e.n = j.n /\ e.enabled = j.enabled
               /\ e.phase = "done" /\ e.ok = ok
  BY DEF Hook!Requests

\* What performing a request does.
LEMMA HookPerformFacts ==
    ASSUME Hook!WebhooksAssumption, Hook!TypeOK, NEW j \in s2, Hook!Perform(j)
    PROVE  \E e \in Hook!Requests :
             /\ s2' = (s2 \ {j}) \cup {e}
             /\ e.id = j.id /\ e.kind = j.kind /\ e.n = j.n /\ e.enabled = j.enabled
                  /\ e.phase = "done"
             /\ j.kind = "create" \/ (j.kind \in {"toggle", "remove"} /\ j.id \in DOMAIN s1)
                  => e.ok = TRUE
<1> DEFINE hooks == s1  jobs == s2
<1>1. PICK ok \in BOOLEAN :
        /\ CASE j.kind = "create" -> ok
             [] j.kind = "test" -> ok => j.id \in DOMAIN hooks /\ hooks[j.id]
             [] OTHER -> ok = (j.id \in DOMAIN hooks)
        /\ jobs' = (jobs \ {j}) \cup {[j EXCEPT !.phase = "done", !.ok = ok]}
  BY DEF Hook!Perform
<1> DEFINE e == [j EXCEPT !.phase = "done", !.ok = ok]
<1>2. e \in Hook!Requests /\ e.id = j.id /\ e.kind = j.kind /\ e.n = j.n /\ e.enabled = j.enabled
      /\ e.phase = "done" /\ e.ok = ok
  <2>1. j \in Hook!Requests
    BY HookBounds
  <2> QED
    BY <2>1, HookDone
<1>3. ASSUME j.kind = "create" PROVE ok = TRUE
  BY <1>1, <1>3
<1>4. ASSUME j.kind \in {"toggle", "remove"}, j.id \in DOMAIN hooks PROVE ok = TRUE
  BY <1>1, <1>4
<1>5. jobs' = (jobs \ {j}) \cup {e}
  BY <1>1
<1> HIDE DEF e
<1>6. j.kind = "create" \/ (j.kind \in {"toggle", "remove"} /\ j.id \in DOMAIN hooks)
      => e.ok = TRUE
  BY <1>2, <1>3, <1>4
<1> QED
  BY <1>2, <1>5, <1>6

\* What a failing request does.
LEMMA HookFailFacts ==
    ASSUME Hook!WebhooksAssumption, Hook!TypeOK, NEW j \in s2, Hook!Fail(j)
    PROVE  \E e \in Hook!Requests :
             /\ s2' = (s2 \ {j}) \cup {e}
             /\ e.id = j.id /\ e.kind = j.kind /\ e.n = j.n /\ e.enabled = j.enabled
                  /\ e.phase = "done"
<1> DEFINE jobs == s2
<1> DEFINE e == [j EXCEPT !.phase = "done", !.ok = FALSE]
<1>1. jobs' = (jobs \ {j}) \cup {e}
  BY DEF Hook!Fail
<1>2. e \in Hook!Requests /\ e.id = j.id /\ e.kind = j.kind /\ e.n = j.n /\ e.enabled = j.enabled
      /\ e.phase = "done"
  BY HookBounds, HookDone
<1> HIDE DEF e
<1> QED
  BY <1>1, <1>2

\* What is stored after a request.
LEMMA HookStored ==
    ASSUME Hook!TypeOK, NEW j \in s2, Hook!Perform(j)
    PROVE  /\ j.kind = "create" => /\ DOMAIN s1' = DOMAIN s1 \cup {j.id} /\ s1'[j.id] = TRUE
                                   /\ \A id \in DOMAIN s1 \ {j.id} : s1'[id] = s1[id]
           /\ j.kind = "toggle" /\ j.id \in DOMAIN s1 =>
                /\ DOMAIN s1' = DOMAIN s1 /\ s1'[j.id] = j.enabled
                /\ \A id \in DOMAIN s1 \ {j.id} : s1'[id] = s1[id]
           /\ j.kind = "toggle" /\ j.id \notin DOMAIN s1 => s1' = s1
           /\ j.kind = "remove" => /\ DOMAIN s1' = DOMAIN s1 \ {j.id}
                                   /\ \A id \in DOMAIN s1 \ {j.id} : s1'[id] = s1[id]
                                   /\ j.id \notin DOMAIN s1 => s1' = s1
           /\ j.kind = "test" => s1' = s1
<1> DEFINE hooks == s1
<1>0. hooks = [id \in DOMAIN hooks |-> hooks[id]]
  BY DEF Hook!TypeOK
<1>1. CASE j.kind = "create"
  <2>1. hooks' = [id \in DOMAIN hooks \cup {j.id} |-> IF id = j.id THEN TRUE ELSE hooks[id]]
    BY <1>1 DEF Hook!Perform
  <2> QED
    BY <1>1, <2>1
<1>2. CASE j.kind = "toggle" /\ j.id \in DOMAIN hooks
  <2>1. hooks' = [hooks EXCEPT ![j.id] = j.enabled]
    BY <1>2 DEF Hook!Perform
  <2> QED
    BY <1>0, <1>2, <2>1
<1>3. CASE j.kind = "remove"
  <2>1. hooks' = [id \in DOMAIN hooks \ {j.id} |-> hooks[id]]
    BY <1>3 DEF Hook!Perform
  <2>2. ASSUME j.id \notin DOMAIN hooks PROVE hooks' = hooks
    <3>1. DOMAIN hooks \ {j.id} = DOMAIN hooks
      BY <2>2
    <3> QED
      BY <1>0, <2>1, <3>1
  <2> QED
    BY <1>3, <2>1, <2>2
<1>4. CASE j.kind = "test" \/ (j.kind = "toggle" /\ j.id \notin DOMAIN hooks)
  BY <1>4 DEF Hook!Perform
<1> QED
  BY <1>1, <1>2, <1>3, <1>4

-----------------------------------------------------------------------------
\* The invariant holds initially.
LEMMA HookInitIInv ==
    ASSUME Hook!WebhooksAssumption, Hook!Init
    PROVE  Hook!IInv
<1> DEFINE hooks == s1  jobs == s2  creating == s5  secret == s6  testId == s7  result == s8
           timers == s9  acts == s10  seen == s11  want == s12  hasty == s13  mixed == s14
           lost == s15
<1>1. Hook!TypeOK
  <2>1. acts = 0 /\ 0 \in 0..MaxActs
    BY DEF Hook!Init, Hook!WebhooksAssumption
  <2>2. DOMAIN hooks \subseteq Hook!Ids /\ hooks \in [DOMAIN hooks -> BOOLEAN]
        /\ jobs \subseteq Hook!Requests
    BY DEF Hook!Init
  <2>3. want \in [Hook!Ids -> BOOLEAN]
    BY DEF Hook!Init
  <2>4. creating \in BOOLEAN /\ {mixed, lost} \subseteq BOOLEAN
    BY DEF Hook!Init
  <2>5. result \in [of : Hook!Ids \cup {Hook!None}, says : {"", "ok", "error"}]
    BY DEF Hook!Init, Hook!NoResult
  <2>6. secret \in Hook!Ids \cup {Hook!None} /\ testId \in Hook!Ids \cup {Hook!None}
        /\ timers \subseteq Hook!Ids /\ seen \cup hasty \subseteq Hook!Ids
    BY DEF Hook!Init
  <2> QED
    BY <2>1, <2>2, <2>3, <2>4, <2>5, <2>6 DEF Hook!TypeOK
<1>2. Hook!Known = {0} /\ acts = 0 /\ jobs = {} /\ DOMAIN hooks = {}
  BY DEF Hook!Init, Hook!Known, Hook!NoList, Hook!Sent, Hook!None
<1>3. Hook!FreshInv
  BY <1>2 DEF Hook!FreshInv, Hook!Init
<1>4. Hook!WantInv
  BY <1>2 DEF Hook!WantInv
<1>5. Hook!TestInv
  BY <1>2 DEF Hook!TestInv, Hook!Init
<1>6. Hook!ListInv
  BY <1>2 DEF Hook!ListInv, Hook!Init, Hook!Sent, Hook!Idle
<1> QED
  BY <1>1, <1>3, <1>4, <1>5, <1>6 DEF Hook!IInv

HookAsking(kind, id, enabled) ==
    [n |-> s10', kind |-> kind, id |-> id, enabled |-> enabled, phase |-> "sent", ok |-> FALSE]

\* A request that the page makes.
LEMMA HookAsked ==
    ASSUME Hook!WebhooksAssumption, Hook!TypeOK, Hook!Act,
           NEW kind \in {"create", "toggle", "remove", "test"}, NEW id \in Hook!Ids,
           NEW enabled \in BOOLEAN
    PROVE  HookAsking(kind, id, enabled) \in Hook!Requests
<1> DEFINE acts == s10
<1>1. acts' \in Hook!Ids
  BY HookBounds
<1> QED
  BY <1>1 DEF Hook!Requests, HookAsking

\* What a page step does to the requests: some come to rest.
HookRests(T) ==
    /\ T \in [s2 -> Hook!Requests]
    /\ \A k \in s2 : /\ T[k].id = k.id /\ T[k].kind = k.kind /\ T[k].enabled = k.enabled /\ T[k].ok = k.ok
                     /\ T[k].phase \in {k.phase, "waits", "free"}
                     /\ T[k].phase = k.phase => T[k] = k
                     /\ k.phase = "sent" => T[k] = k
    /\ s2' = {T[k] : k \in s2}

\* What an answer does to the requests.
LEMMA HookAnsweredFacts ==
    ASSUME Hook!WebhooksAssumption, Hook!TypeOK, NEW j \in s2, Hook!Answered(j)
    PROVE  \E T : HookRests(T) /\ \A k \in s2 : k # j /\ k.phase = "done" => T[k] = k
<1> DEFINE jobs == s2
<1> DEFINE T == [k \in jobs |-> [k EXCEPT !.phase = IF k = j THEN "waits" ELSE IF @ = "waits" THEN "free" ELSE @]]
<1>1. jobs' = {T[k] : k \in jobs}
  BY DEF Hook!Answered
<1>2. ASSUME NEW k \in jobs
      PROVE  /\ T[k] \in Hook!Requests
             /\ T[k].id = k.id /\ T[k].kind = k.kind /\ T[k].enabled = k.enabled /\ T[k].ok = k.ok
             /\ T[k].phase \in {k.phase, "waits", "free"}
             /\ T[k].phase = k.phase => T[k] = k
             /\ k.phase = "sent" => T[k] = k
             /\ k # j /\ k.phase = "done" => T[k] = k
  <2>1. k \in Hook!Requests
    BY HookBounds
  <2>2. PICK p \in {k.phase, "waits", "free"} : /\ T[k] = [k EXCEPT !.phase = p]
                                                /\ k # j /\ k.phase = "done" => p = k.phase
                                                /\ k.phase = "sent" => p = k.phase
    BY DEF Hook!Answered
  <2>3. LET e == [k EXCEPT !.phase = p]
        IN  /\ e \in Hook!Requests /\ e.id = k.id /\ e.kind = k.kind /\ e.enabled = k.enabled /\ e.ok = k.ok
            /\ e.phase = p /\ (p = k.phase => e = k)
    BY <2>1 DEF Hook!Requests
  <2> HIDE DEF T
  <2> QED
    BY <2>2, <2>3
<1>3. T \in [jobs -> Hook!Requests]
  BY <1>2
<1> HIDE DEF T
<1> QED
  BY <1>1, <1>2, <1>3 DEF HookRests

\* What a fetched list does to the requests.
LEMMA HookFetchedFacts ==
    ASSUME Hook!WebhooksAssumption, Hook!TypeOK, Hook!Fetched
    PROVE  \E T : HookRests(T) /\ \A k \in s2 : k.phase = "done" => T[k] = k
<1> DEFINE jobs == s2
<1> DEFINE T == [k \in jobs |-> [k EXCEPT !.phase = IF @ = "waits" THEN "free" ELSE @]]
<1>1. jobs' = {T[k] : k \in jobs}
  BY DEF Hook!Fetched
<1>2. ASSUME NEW k \in jobs
      PROVE  /\ T[k] \in Hook!Requests
             /\ T[k].id = k.id /\ T[k].kind = k.kind /\ T[k].enabled = k.enabled /\ T[k].ok = k.ok
             /\ T[k].phase \in {k.phase, "waits", "free"}
             /\ T[k].phase = k.phase => T[k] = k
             /\ k.phase = "sent" => T[k] = k
             /\ k.phase = "done" => T[k] = k
  <2>1. k \in Hook!Requests
    BY HookBounds
  <2>2. PICK p \in {k.phase, "waits", "free"} : /\ T[k] = [k EXCEPT !.phase = p]
                                                /\ k.phase = "done" => p = k.phase
                                                /\ k.phase = "sent" => p = k.phase
    OBVIOUS
  <2>3. LET e == [k EXCEPT !.phase = p]
        IN  /\ e \in Hook!Requests /\ e.id = k.id /\ e.kind = k.kind /\ e.enabled = k.enabled /\ e.ok = k.ok
            /\ e.phase = p /\ (p = k.phase => e = k)
    BY <2>1 DEF Hook!Requests
  <2> HIDE DEF T
  <2> QED
    BY <2>2, <2>3
<1>3. T \in [jobs -> Hook!Requests]
  BY <1>2
<1> HIDE DEF T
<1> QED
  BY <1>1, <1>2, <1>3 DEF HookRests

-----------------------------------------------------------------------------
\* Every step keeps the types.
LEMMA HookNextTypeOK ==
    ASSUME Hook!WebhooksAssumption, Hook!TypeOK, [Hook!Next]_(Hook!vars)
    PROVE  Hook!TypeOK'
<1> DEFINE hooks == s1  jobs == s2  list == s3  fetch == s4  creating == s5  secret == s6
           testId == s7  result == s8  timers == s9  acts == s10  seen == s11  want == s12
           hasty == s13  mixed == s14  lost == s15
<1>1. CASE UNCHANGED Hook!vars
  BY <1>1 DEF Hook!TypeOK, Hook!vars, Hook!query, Hook!card, Hook!history
<1>2. ASSUME NEW j \in jobs, Hook!Perform(j) PROVE Hook!TypeOK'
  <2>1. jobs' \subseteq Hook!Requests
    BY <1>2, HookPerformFacts, HookBounds
  <2>2. DOMAIN hooks' \subseteq Hook!Ids
    <3>1. DOMAIN hooks' \subseteq DOMAIN hooks \cup {j.id}
      <4>1. j.kind \in {"create", "toggle", "remove", "test"}
        BY HookBounds DEF Hook!Requests
      <4> QED
        BY <1>2, <4>1, HookStored
    <3>2. DOMAIN hooks \subseteq Hook!Ids /\ j.id \in Hook!Ids
      BY HookBounds DEF Hook!TypeOK
    <3> QED
      BY <3>1, <3>2
  <2>3. hooks' \in [DOMAIN hooks' -> BOOLEAN]
    <3>0. \A id \in DOMAIN hooks : hooks[id] \in BOOLEAN
      BY DEF Hook!TypeOK
    <3>1. CASE j.kind = "create"
      <4>1. hooks' = [id \in DOMAIN hooks \cup {j.id} |-> IF id = j.id THEN TRUE ELSE hooks[id]]
        BY <1>2, <3>1 DEF Hook!Perform
      <4> QED
        BY <3>0, <4>1
    <3>2. CASE j.kind = "toggle" /\ j.id \in DOMAIN hooks
      <4>1. hooks' = [hooks EXCEPT ![j.id] = j.enabled] /\ j.enabled \in BOOLEAN
        BY <1>2, <3>2, HookBounds DEF Hook!Perform, Hook!Requests
      <4>2. hooks \in [DOMAIN hooks -> BOOLEAN]
        BY DEF Hook!TypeOK
      <4> QED
        BY <3>2, <4>1, <4>2, Zenon
    <3>3. CASE j.kind = "remove"
      <4>1. hooks' = [id \in DOMAIN hooks \ {j.id} |-> hooks[id]]
        BY <1>2, <3>3 DEF Hook!Perform
      <4> QED
        BY <3>0, <4>1
    <3>4. CASE hooks' = hooks
      BY <3>4 DEF Hook!TypeOK
    <3>5. j.kind \in {"create", "toggle", "remove", "test"}
      BY HookBounds DEF Hook!Requests
    <3> QED
      BY <1>2, <3>1, <3>2, <3>3, <3>4, <3>5, HookStored
  <2>4. UNCHANGED <<list, fetch, creating, secret, testId, result, timers, acts, seen, want, hasty, mixed, lost>>
    BY <1>2 DEF Hook!Perform, Hook!query, Hook!card, Hook!history
  <2> QED
    BY <2>1, <2>2, <2>3, <2>4 DEF Hook!TypeOK
<1>3. ASSUME NEW j \in jobs, Hook!Fail(j) PROVE Hook!TypeOK'
  <2>1. jobs' \subseteq Hook!Requests
    BY <1>3, HookFailFacts, HookBounds
  <2>2. lost' \in BOOLEAN
    BY <1>3 DEF Hook!Fail
  <2>3. hasty' \subseteq Hook!Ids /\ acts' \in 0..MaxActs
    <3>1. hasty \subseteq Hook!Ids
      BY DEF Hook!TypeOK
    <3> QED
      BY <1>3, <3>1, HookBounds DEF Hook!Fail
  <2>4. UNCHANGED <<hooks, list, fetch, creating, secret, testId, result, timers, seen, want, mixed>>
    BY <1>3 DEF Hook!Fail, Hook!query, Hook!card
  <2> QED
    BY <2>1, <2>2, <2>3, <2>4 DEF Hook!TypeOK
<1>4. ASSUME Hook!Serve PROVE Hook!TypeOK'
  BY <1>4 DEF Hook!Serve, Hook!TypeOK, Hook!card, Hook!history
<1>5. ASSUME Hook!Create PROVE Hook!TypeOK'
  <2>1. Hook!Act /\ acts' \in Hook!Ids /\ acts' \in 0..MaxActs
    BY <1>5, HookBounds DEF Hook!Create
  <2>2. jobs' \subseteq Hook!Requests
    <3>1. jobs' = jobs \cup {HookAsking("create", acts', TRUE)}
      BY <1>5 DEF Hook!Create, Hook!Ask, HookAsking
    <3>2. HookAsking("create", acts', TRUE) \in Hook!Requests
      BY <2>1, HookAsked
    <3> QED
      BY <3>1, <3>2 DEF Hook!TypeOK
  <2> QED
    BY <1>5, <2>1, <2>2 DEF Hook!Create, Hook!TypeOK, Hook!query, Hook!history
<1>6. ASSUME NEW id \in Hook!Ids, Hook!Toggle(id) PROVE Hook!TypeOK'
  <2>0. (~list[id]) \in BOOLEAN
    OBVIOUS
  <2>1. Hook!Act /\ acts' \in 0..MaxActs
    BY <1>6, HookBounds DEF Hook!Toggle
  <2>2. jobs' \subseteq Hook!Requests
    <3>1. jobs' = jobs \cup {HookAsking("toggle", id, ~list[id])}
      BY <1>6 DEF Hook!Toggle, Hook!Ask, HookAsking
    <3>2. HookAsking("toggle", id, ~list[id]) \in Hook!Requests
      BY <2>0, <2>1, HookAsked
    <3> QED
      BY <3>1, <3>2 DEF Hook!TypeOK
  <2>3. want' \in [Hook!Ids -> BOOLEAN]
    <3>1. want \in [Hook!Ids -> BOOLEAN] /\ want' = [want EXCEPT ![id] = ~list[id]]
      BY <1>6 DEF Hook!Toggle, Hook!TypeOK
    <3> QED
      BY <2>0, <3>1, Zenon
  <2>4. hasty' \subseteq Hook!Ids
    BY <1>6 DEF Hook!Toggle, Hook!TypeOK
  <2>5. UNCHANGED <<hooks, list, fetch, creating, secret, testId, result, timers, seen, mixed, lost>>
    BY <1>6 DEF Hook!Toggle, Hook!query, Hook!card
  <2> QED
    BY <2>1, <2>2, <2>3, <2>4, <2>5 DEF Hook!TypeOK
<1>7. ASSUME NEW id \in Hook!Ids, Hook!Remove(id) PROVE Hook!TypeOK'
  <2>1. Hook!Act /\ acts' \in 0..MaxActs
    BY <1>7, HookBounds DEF Hook!Remove
  <2>2. jobs' \subseteq Hook!Requests
    <3>1. jobs' = jobs \cup {HookAsking("remove", id, FALSE)}
      BY <1>7 DEF Hook!Remove, Hook!Ask, HookAsking
    <3>2. HookAsking("remove", id, FALSE) \in Hook!Requests
      BY <2>1, HookAsked
    <3> QED
      BY <3>1, <3>2 DEF Hook!TypeOK
  <2>4. hasty' \subseteq Hook!Ids
    BY <1>7 DEF Hook!Remove, Hook!TypeOK
  <2> QED
    BY <1>7, <2>1, <2>2, <2>4 DEF Hook!TypeOK, Hook!Remove, Hook!query, Hook!card
<1>8. ASSUME NEW id \in Hook!Ids, Hook!Test(id) PROVE Hook!TypeOK'
  <2>1. Hook!Act /\ acts' \in 0..MaxActs
    BY <1>8, HookBounds DEF Hook!Test
  <2>2. jobs' \subseteq Hook!Requests
    <3>1. jobs' = jobs \cup {HookAsking("test", id, FALSE)}
      BY <1>8 DEF Hook!Test, Hook!Ask, HookAsking
    <3>2. HookAsking("test", id, FALSE) \in Hook!Requests
      BY <2>1, HookAsked
    <3> QED
      BY <3>1, <3>2 DEF Hook!TypeOK
  <2>3. mixed' \in BOOLEAN
    BY <1>8 DEF Hook!Test
  <2>4. testId' \in Hook!Ids \cup {Hook!None}
        /\ result' \in [of : Hook!Ids \cup {Hook!None}, says : {"", "ok", "error"}]
    BY <1>8 DEF Hook!Test, Hook!NoResult
  <2>5. UNCHANGED <<hooks, list, fetch, creating, secret, timers, seen, want, hasty, lost>>
    BY <1>8 DEF Hook!Test, Hook!query
  <2> QED
    BY <2>1, <2>2, <2>3, <2>4, <2>5 DEF Hook!TypeOK
<1>9. ASSUME NEW j \in jobs, Hook!Tested(j) PROVE Hook!TypeOK'
  <2>1. result' \in [of : Hook!Ids \cup {Hook!None}, says : {"", "ok", "error"}]
    BY <1>9, HookBounds DEF Hook!Tested
  <2>2. timers' \subseteq Hook!Ids
    BY <1>9, HookBounds DEF Hook!Tested, Hook!TypeOK
  <2> QED
    BY <1>9, <2>1, <2>2 DEF Hook!Tested, Hook!TypeOK, Hook!query, Hook!history
<1>10. ASSUME NEW n \in timers, Hook!TimerEnds(n) PROVE Hook!TypeOK'
  <2>1. result' \in [of : Hook!Ids \cup {Hook!None}, says : {"", "ok", "error"}]
        /\ testId' \in Hook!Ids \cup {Hook!None}
    BY <1>10 DEF Hook!TimerEnds, Hook!NoResult
  <2> QED
    BY <1>10, <2>1 DEF Hook!TimerEnds, Hook!TypeOK, Hook!query, Hook!history
<1>11. ASSUME NEW j \in jobs, Hook!Answered(j) PROVE Hook!TypeOK'
  <2>1. jobs' \subseteq Hook!Requests
    BY <1>11, HookAnsweredFacts DEF HookRests
  <2>2. lost' \in BOOLEAN
    BY <1>11 DEF Hook!Answered
  <2>3. secret' \in Hook!Ids \cup {Hook!None} /\ seen' \subseteq Hook!Ids
    BY <1>11, HookBounds DEF Hook!Answered, Hook!TypeOK
  <2>4. UNCHANGED <<hooks, list, creating, testId, result, timers, acts, want, hasty, mixed>>
    BY <1>11 DEF Hook!Answered
  <2> QED
    BY <2>1, <2>2, <2>3, <2>4 DEF Hook!TypeOK
<1>12. ASSUME NEW j \in jobs, Hook!Finish(j) PROVE Hook!TypeOK'
  <2>1. creating' \in BOOLEAN
    BY <1>12 DEF Hook!Finish
  <2>2. jobs' \subseteq Hook!Requests
    BY <1>12 DEF Hook!Finish, Hook!TypeOK
  <2>3. UNCHANGED <<hooks, list, fetch, secret, testId, result, timers, acts, seen, want, hasty, mixed, lost>>
    BY <1>12 DEF Hook!Finish, Hook!query, Hook!history
  <2> QED
    BY <2>1, <2>2, <2>3 DEF Hook!TypeOK
<1>13. ASSUME Hook!Fetched PROVE Hook!TypeOK'
  <2>1. jobs' \subseteq Hook!Requests
    BY <1>13, HookFetchedFacts DEF HookRests
  <2> QED
    BY <1>13, <2>1 DEF Hook!Fetched, Hook!TypeOK, Hook!card, Hook!history
<1> QED
  BY <1>1, <1>2, <1>3, <1>4, <1>5, <1>6, <1>7, <1>8, <1>9, <1>10, <1>11, <1>12, <1>13 DEF Hook!Next

-----------------------------------------------------------------------------

\* A step that changes each request by T and adds the requests in New.
LEMMA HookFreshKept ==
    ASSUME Hook!WebhooksAssumption, Hook!TypeOK, Hook!FreshInv, NEW T, NEW New,
           s10' \in Nat, s10 <= s10',
           s2' \subseteq {T[k] : k \in s2} \cup New,
           \A k \in s2 : T[k].id = k.id /\ (Hook!Pending(T[k]) => Hook!Pending(k)),
           \A r \in New : /\ r.id <= s10' /\ r.id \in Hook!Ids
                          /\ Hook!Pending(r) => r.id = s10 + 1 /\ s10' = s10 + 1 /\ New = {r}
                          /\ ~Hook!Pending(r) => r.id \in Hook!Known,
           \A x \in Hook!Known' : x \in Hook!Known \/ x = 0 \/ \E k \in s2 : x = k.id
           /\ ~Hook!Pending(T[k]),
           \A id \in Hook!Ids : s12'[id] = s12[id] \/ id \in Hook!Known
    PROVE  Hook!FreshInv'
<1> DEFINE jobs == s2  acts == s10  want == s12
<1>1. /\ \A k \in jobs : k.id \in 1..acts
      /\ \A x \in Hook!Known : x \in 0..acts
      /\ acts \in Nat
  BY HookBounds DEF Hook!FreshInv, Hook!Ids
<1>2. Hook!Known' \subseteq 0..acts'
  BY <1>1
<1>3. \A j \in jobs' : j.id <= acts'
  BY <1>1
<1>4. ASSUME NEW id \in Hook!Ids, id > acts' PROVE want'[id] = TRUE
  <2>1. id > acts /\ id \notin Hook!Known
    BY <1>1, <1>4 DEF Hook!Ids
  <2> QED
    BY <2>1 DEF Hook!FreshInv
<1>5. ASSUME NEW j \in jobs', Hook!Pending(j)
      PROVE  j.id \notin Hook!Known' /\ want'[j.id] = TRUE /\ \A k \in jobs' : k.id = j.id
             => k = j
  <2>1. CASE j \in New
    <3>1. j.id = acts + 1 /\ New = {j} /\ acts' = acts + 1
      BY <1>5, <2>1
    <3>2. j.id \notin Hook!Known /\ j.id # 0 /\ j.id > acts /\ \A k \in jobs : k.id # j.id
      BY <1>1, <3>1
    <3>3. want'[j.id] = TRUE
      BY <2>1, <3>2 DEF Hook!FreshInv
    <3> QED
      BY <3>1, <3>2, <3>3
  <2>2. CASE j \notin New
    <3>1. PICK p \in jobs : j = T[p]
      BY <2>2
    <3>2. Hook!Pending(p) /\ p.id = j.id
      BY <1>5, <3>1
    <3>3. /\ j.id \notin Hook!Known /\ want[j.id] = TRUE /\ j.id # 0 /\ j.id \in Hook!Ids
          /\ \A k \in jobs : k.id = j.id => k = p
      BY <1>1, <3>2, HookBounds DEF Hook!FreshInv
    <3>4. j.id \notin Hook!Known'
      BY <1>5, <3>1, <3>3
    <3>5. want'[j.id] = TRUE
      BY <3>3
    <3>6. ASSUME NEW k \in jobs', k.id = j.id PROVE k = j
      <4>1. CASE k \in New
        <5>1. CASE Hook!Pending(k)
          BY <1>1, <3>2, <3>6, <4>1, <5>1
        <5>2. CASE ~Hook!Pending(k)
          BY <3>3, <3>6, <4>1, <5>2
        <5> QED
          BY <5>1, <5>2
      <4>2. CASE k \notin New
        BY <3>1, <3>3, <3>6, <4>2
      <4> QED
        BY <4>1, <4>2
    <3> QED
      BY <3>4, <3>5, <3>6
  <2> QED
    BY <2>1, <2>2
<1>6. \A j \in jobs' : Hook!Pending(j)' <=> Hook!Pending(j)
  BY DEF Hook!Pending
<1> QED
  BY <1>2, <1>3, <1>4, <1>5, <1>6 DEF Hook!FreshInv

\* Every step keeps FreshInv.
LEMMA HookNextFreshInv ==
    ASSUME Hook!WebhooksAssumption, Hook!TypeOK, Hook!FreshInv, [Hook!Next]_(Hook!vars)
    PROVE  Hook!FreshInv'
<1> DEFINE hooks == s1  jobs == s2  list == s3  fetch == s4  timers == s9  acts == s10
           want == s12
<1>a. acts \in Nat
  BY HookBounds
<1>b. acts' = acts => acts' \in Nat /\ acts <= acts'
  BY <1>a
<1>c. acts' = acts + 1 => acts' \in Nat /\ acts <= acts' /\ acts' <= acts'
  BY <1>a
<1>d. \A id \in Hook!Ids : want' = want => want'[id] = want[id]
  OBVIOUS
<1>1. CASE UNCHANGED Hook!vars
  BY <1>1 DEF Hook!FreshInv, Hook!Known, Hook!Pending, Hook!vars, Hook!query, Hook!card,
    Hook!history
\* One request is answered.
<1>2. ASSUME NEW j \in jobs, NEW e, jobs' = (jobs \ {j}) \cup {e}, e.id = j.id, e.phase = "done",
             acts' \in Nat, acts <= acts', want' = want,
             \A x \in Hook!Known' : x \in Hook!Known \/ x = j.id
      PROVE  Hook!FreshInv'
  <2> DEFINE T == [k \in jobs |-> IF k = j THEN e ELSE k]
             New == {}
  <2>1. /\ jobs' \subseteq {T[k] : k \in jobs} \cup New
        /\ \A k \in jobs : T[k].id = k.id /\ (Hook!Pending(T[k]) => Hook!Pending(k))
        /\ ~Hook!Pending(T[j])
        /\ \A r : r \notin New
    BY <1>2 DEF Hook!Pending
  <2> HIDE DEF T, New
  <2>2. \A x \in Hook!Known' : x \in Hook!Known \/ x = 0 \/ \E k \in jobs : x = k.id
        /\ ~Hook!Pending(T[k])
    BY <1>2, <2>1
  <2> QED
    BY <1>2, <1>d, <2>1, <2>2, HookFreshKept
<1>3. ASSUME NEW j \in jobs, Hook!Perform(j) PROVE Hook!FreshInv'
  <2>1. PICK e \in Hook!Requests : jobs' = (jobs \ {j}) \cup {e} /\ e.id = j.id
             /\ e.phase = "done"
    BY <1>3, HookPerformFacts
  <2>2. DOMAIN hooks' \subseteq DOMAIN hooks \cup {j.id}
    <3>1. j.kind \in {"create", "toggle", "remove", "test"}
      BY HookBounds DEF Hook!Requests
    <3> QED
      BY <1>3, <3>1, HookStored
  <2>3. acts' = acts /\ want' = want /\ UNCHANGED <<list, fetch>>
    BY <1>3 DEF Hook!Perform, Hook!query, Hook!history
  <2>4. \A x \in Hook!Known' : x \in Hook!Known \/ x = j.id
    BY <2>2, <2>3 DEF Hook!Known
  <2> QED
    BY <1>2, <1>b, <2>1, <2>3, <2>4
<1>4. ASSUME NEW j \in jobs, Hook!Fail(j) PROVE Hook!FreshInv'
  <2>1. PICK e \in Hook!Requests : jobs' = (jobs \ {j}) \cup {e} /\ e.id = j.id
             /\ e.phase = "done"
    BY <1>4, HookFailFacts
  <2>2. acts' = acts + 1 /\ want' = want /\ UNCHANGED <<hooks, list, fetch>>
    BY <1>4, HookBounds DEF Hook!Fail, Hook!query
  <2>3. \A x \in Hook!Known' : x \in Hook!Known \/ x = j.id
    BY <2>2 DEF Hook!Known
  <2> QED
    BY <1>2, <1>c, <2>1, <2>2, <2>3
\* The page takes note of answers.
<1>5. ASSUME NEW T, jobs' \subseteq {T[k] : k \in jobs},
             \A k \in jobs : T[k].id = k.id /\ (Hook!Pending(T[k]) => Hook!Pending(k)),
             acts' = acts, want' = want, \A x \in Hook!Known' : x \in Hook!Known \/ x = 0
      PROVE  Hook!FreshInv'
  <2> DEFINE New == {}
  <2>1. jobs' \subseteq {T[k] : k \in jobs} \cup New /\ \A r : r \notin New
    BY <1>5
  <2> HIDE DEF New
  <2> QED
    BY <1>5, <1>b, <1>d, <2>1, HookFreshKept
<1>6. ASSUME jobs' \subseteq jobs, acts' = acts, want' = want,
             \A x \in Hook!Known' : x \in Hook!Known \/ x = 0
      PROVE  Hook!FreshInv'
  <2> DEFINE T == [k \in jobs |-> k]
  <2>1. jobs' \subseteq {T[k] : k \in jobs} /\ \A k \in jobs : T[k].id = k.id
        /\ (Hook!Pending(T[k]) => Hook!Pending(k))
    BY <1>6
  <2> HIDE DEF T
  <2> QED
    BY <1>5, <1>6, <2>1
<1>7. ASSUME NEW T, HookRests(T)
      PROVE  jobs' \subseteq {T[k] : k \in jobs} /\ \A k \in jobs : T[k].id = k.id
             /\ (Hook!Pending(T[k]) => Hook!Pending(k))
  BY <1>7 DEF HookRests, Hook!Pending
<1>8. ASSUME NEW j \in jobs, Hook!Answered(j) PROVE Hook!FreshInv'
  <2>1. PICK T : HookRests(T)
    BY <1>8, HookAnsweredFacts
  <2>2. acts' = acts /\ want' = want /\ UNCHANGED <<hooks, list>>
        /\ (fetch' = fetch \/ fetch' = Hook!Sent)
    BY <1>8 DEF Hook!Answered
  <2>3. \A x \in Hook!Known' : x \in Hook!Known \/ x = 0
    BY <2>2 DEF Hook!Known, Hook!Sent, Hook!NoList, Hook!None
  <2> QED
    BY <1>5, <1>7, <2>1, <2>2, <2>3
<1>9. ASSUME Hook!Fetched PROVE Hook!FreshInv'
  <2>1. PICK T : HookRests(T)
    BY <1>9, HookFetchedFacts
  <2>2. acts' = acts /\ want' = want /\ hooks' = hooks /\ list' = fetch.res /\ fetch' = Hook!Idle
    BY <1>9 DEF Hook!Fetched, Hook!history
  <2>3. \A x \in Hook!Known' : x \in Hook!Known \/ x = 0
    BY <2>2 DEF Hook!Known, Hook!Idle, Hook!NoList, Hook!None
  <2> QED
    BY <1>5, <1>7, <2>1, <2>2, <2>3
<1>10. ASSUME NEW j \in jobs, Hook!Tested(j) \/ Hook!Finish(j) PROVE Hook!FreshInv'
  <2>1. jobs' \subseteq jobs /\ acts' = acts /\ want' = want /\ UNCHANGED <<hooks, list, fetch>>
    BY <1>10 DEF Hook!Tested, Hook!Finish, Hook!query, Hook!history
  <2> QED
    BY <1>6, <2>1 DEF Hook!Known
<1>11. ASSUME (\E n \in timers : Hook!TimerEnds(n)) PROVE Hook!FreshInv'
  <2>1. jobs' = jobs /\ acts' = acts /\ want' = want /\ UNCHANGED <<hooks, list, fetch>>
    BY <1>11 DEF Hook!TimerEnds, Hook!query, Hook!history
  <2> QED
    BY <1>6, <2>1 DEF Hook!Known
<1>12. ASSUME Hook!Serve PROVE Hook!FreshInv'
  <2>1. jobs' = jobs /\ acts' = acts /\ want' = want /\ UNCHANGED <<hooks, list>>
        /\ fetch'.res = hooks
    BY <1>12 DEF Hook!Serve, Hook!history
  <2> QED
    BY <1>6, <2>1 DEF Hook!Known
\* A request is made.
<1>13. ASSUME NEW r, jobs' = jobs \cup {r}, acts' = acts + 1, r.id \in Hook!Ids, r.phase = "sent",
              r.kind = "create" => r.id = acts',
              r.kind # "create" => r.id \in Hook!Known,
              UNCHANGED <<hooks, list, fetch>>,
              \A id \in Hook!Ids : want'[id] = want[id] \/ id \in Hook!Known
       PROVE  Hook!FreshInv'
  <2> DEFINE T == [k \in jobs |-> k]
             New == {r}
  <2>1. /\ jobs' \subseteq {T[k] : k \in jobs} \cup New
        /\ \A k \in jobs : T[k].id = k.id /\ (Hook!Pending(T[k]) => Hook!Pending(k))
    BY <1>13
  <2>2. r.kind # "create" => r.id \in 0..acts
    BY <1>13 DEF Hook!FreshInv
  <2>3. r.id <= acts'
    BY <1>13, <1>a, <1>c, <2>2
  <2>4. \A q \in New : /\ q.id <= acts' /\ q.id \in Hook!Ids
                       /\ Hook!Pending(q) => q.id = acts + 1 /\ acts' = acts + 1 /\ New = {q}
                       /\ ~Hook!Pending(q) => q.id \in Hook!Known
    <3> SUFFICES /\ r.id <= acts' /\ r.id \in Hook!Ids
                 /\ Hook!Pending(r) => r.id = acts + 1 /\ acts' = acts + 1
                 /\ ~Hook!Pending(r) => r.id \in Hook!Known
      OBVIOUS
    <3>1. Hook!Pending(r) <=> r.kind = "create"
      BY <1>13 DEF Hook!Pending
    <3> QED
      BY <1>13, <2>3, <3>1
  <2> HIDE DEF T, New
  <2>5. \A x \in Hook!Known' : x \in Hook!Known \/ x = 0 \/ \E k \in jobs : x = k.id
        /\ ~Hook!Pending(T[k])
    BY <1>13 DEF Hook!Known
  <2>6. acts' \in Nat /\ acts <= acts'
    BY <1>13, <1>c
  <2> QED
    BY <1>13, <2>1, <2>4, <2>5, <2>6, HookFreshKept
<1>14. \A id : Hook!Listed(id) => id \in Hook!Known
  BY DEF Hook!Listed, Hook!Known
<1>15. ASSUME Hook!Create PROVE Hook!FreshInv'
  <2> DEFINE r == HookAsking("create", acts', TRUE)
  <2>1. /\ Hook!Act /\ jobs' = jobs \cup {r} /\ UNCHANGED <<hooks, list, fetch, want>>
        /\ r.kind = "create" /\ r.id = acts' /\ r.phase = "sent"
    BY <1>15 DEF Hook!Create, Hook!Ask, HookAsking, Hook!query, Hook!history
  <2> HIDE DEF r
  <2>2. acts' = acts + 1 /\ acts' \in Hook!Ids
    BY <2>1, HookBounds
  <2> QED
    BY <1>13, <2>1, <2>2
<1>16. ASSUME NEW id \in Hook!Ids, Hook!Toggle(id) PROVE Hook!FreshInv'
  <2> DEFINE r == HookAsking("toggle", id, ~list[id])
  <2>1. /\ Hook!Act /\ Hook!Listed(id) /\ jobs' = jobs \cup {r}
             /\ UNCHANGED <<hooks, list, fetch>>
    BY <1>16 DEF Hook!Toggle, Hook!Ask, HookAsking, Hook!query
  <2>2. r.kind = "toggle" /\ r.id = id /\ r.phase = "sent"
    BY DEF HookAsking
  <2>3. \A i \in Hook!Ids : want'[i] = want[i] \/ i \in Hook!Known
    <3>1. want' = [want EXCEPT ![id] = ~list[id]] /\ DOMAIN want = Hook!Ids
      BY <1>16 DEF Hook!Toggle, Hook!TypeOK
    <3>2. \A i \in Hook!Ids : i # id => want'[i] = want[i]
      BY <3>1
    <3> QED
      BY <1>14, <2>1, <3>2
  <2> HIDE DEF r
  <2>4. acts' = acts + 1
    BY <2>1, HookBounds
  <2> QED
    BY <1>13, <1>14, <2>1, <2>2, <2>3, <2>4
<1>17. ASSUME NEW id \in Hook!Ids, NEW kind \in {"remove", "test"},
              Hook!Remove(id) \/ Hook!Test(id),
              jobs' = jobs \cup {HookAsking(kind, id, FALSE)} PROVE Hook!FreshInv'
  <2> DEFINE r == HookAsking(kind, id, FALSE)
  <2>1. /\ Hook!Act /\ Hook!Listed(id) /\ UNCHANGED <<hooks, list, fetch, want>>
    BY <1>17 DEF Hook!Remove, Hook!Test, Hook!query
  <2>2. r.kind = kind /\ r.id = id /\ r.phase = "sent" /\ jobs' = jobs \cup {r}
    BY <1>17 DEF HookAsking
  <2> HIDE DEF r
  <2>4. acts' = acts + 1
    BY <2>1, HookBounds
  <2> QED
    BY <1>13, <1>14, <1>17, <2>1, <2>2, <2>4
<1>18. ASSUME NEW id \in Hook!Ids, Hook!Remove(id) PROVE Hook!FreshInv'
  BY <1>17, <1>18 DEF Hook!Remove, Hook!Ask, HookAsking
<1>19. ASSUME NEW id \in Hook!Ids, Hook!Test(id) PROVE Hook!FreshInv'
  BY <1>17, <1>19 DEF Hook!Test, Hook!Ask, HookAsking
<1> QED
  BY <1>1, <1>3, <1>4, <1>8, <1>9, <1>10, <1>11, <1>12, <1>15, <1>16, <1>18, <1>19 DEF Hook!Next

-----------------------------------------------------------------------------
\* Every step keeps WantInv.
LEMMA HookNextWantInv ==
    ASSUME Hook!WebhooksAssumption, Hook!TypeOK, Hook!FreshInv, Hook!WantInv,
           [Hook!Next]_(Hook!vars)
    PROVE  Hook!WantInv'
\* The toggles on their way stay, but those of webhooks that were changed hastily.
<1> DEFINE hooks == s1  jobs == s2  list == s3  timers == s9  acts == s10  want == s12
           hasty == s13
<1>1. ASSUME hooks' = hooks, want' = want, hasty \subseteq hasty',
             \A k \in jobs' : k.kind = "toggle" /\ k.phase = "sent" => k \in jobs,
             \A k \in jobs : k.kind = "toggle" /\ k.phase = "sent"
             => k \in jobs' \/ k.id \in hasty'
      PROVE  Hook!WantInv'
  BY <1>1 DEF Hook!WantInv
<1>2. CASE UNCHANGED Hook!vars
  BY <1>1, <1>2 DEF Hook!vars, Hook!query, Hook!card, Hook!history
<1>3. ASSUME NEW j \in jobs, Hook!Perform(j) PROVE Hook!WantInv'
  <2>1. PICK e \in Hook!Requests : /\ jobs' = (jobs \ {j}) \cup {e} /\ e.id = j.id /\ e.kind = j.kind /\ e.phase = "done"
    BY <1>3, HookPerformFacts
  <2>2. j.phase = "sent" /\ want' = want /\ hasty' = hasty
    BY <1>3 DEF Hook!Perform, Hook!history
  <2>3. \A k \in jobs' : k.kind = "toggle" /\ k.phase = "sent" => k \in jobs
    BY <2>1
  <2>4. \A k \in jobs' : k.kind = "toggle" /\ k.phase = "sent" /\ k.id \notin hasty'
        => k.enabled = want'[k.id]
    BY <2>2, <2>3 DEF Hook!WantInv
  <2>5. ASSUME NEW id \in DOMAIN hooks' \ hasty', id \in DOMAIN hooks,
               id # j.id \/ j.kind # "toggle",
               hooks'[id] = hooks[id]
        PROVE  hooks'[id] = want'[id] \/ \E k \in jobs' : k.kind = "toggle" /\ k.phase = "sent"
               /\ k.id = id
    <3>1. hooks[id] = want[id] \/ \E k \in jobs : k.kind = "toggle" /\ k.phase = "sent"
          /\ k.id = id
      BY <2>2, <2>5 DEF Hook!WantInv
    <3> QED
      BY <2>1, <2>2, <2>5, <3>1
  <2>6. ASSUME NEW id \in DOMAIN hooks' \ hasty'
        PROVE  hooks'[id] = want'[id] \/ \E k \in jobs' : k.kind = "toggle" /\ k.phase = "sent"
               /\ k.id = id
    <3>1. CASE j.kind = "create"
      <4>1. CASE id = j.id
        <5>1. hooks'[id] = TRUE
          BY <1>3, <3>1, <4>1, HookStored
        <5>2. want[id] = TRUE
          BY <2>2, <3>1, <4>1 DEF Hook!FreshInv, Hook!Pending
        <5> QED
          BY <2>2, <5>1, <5>2
      <4>2. CASE id # j.id
        <5>1. id \in DOMAIN hooks /\ hooks'[id] = hooks[id]
          BY <1>3, <3>1, <4>2, HookStored
        <5> QED
          BY <2>5, <4>2, <5>1
      <4> QED
        BY <4>1, <4>2
    <3>2. CASE j.kind = "toggle" /\ j.id \in DOMAIN hooks
      <4>1. CASE id = j.id
        <5>1. hooks'[id] = j.enabled
          BY <1>3, <3>2, <4>1, HookStored
        <5>2. j.enabled = want[j.id]
          BY <2>2, <3>2, <4>1 DEF Hook!WantInv
        <5> QED
          BY <2>2, <4>1, <5>1, <5>2
      <4>2. CASE id # j.id
        <5>1. id \in DOMAIN hooks /\ hooks'[id] = hooks[id]
          BY <1>3, <3>2, <4>2, HookStored
        <5> QED
          BY <2>5, <4>2, <5>1
      <4> QED
        BY <4>1, <4>2
    <3>3. CASE j.kind = "toggle" /\ j.id \notin DOMAIN hooks
      <4>1. hooks' = hooks
        BY <1>3, <3>3, HookStored
      <4> QED
        BY <2>5, <3>3, <4>1
    <3>4. CASE j.kind = "remove"
      <4>1. id \in DOMAIN hooks /\ hooks'[id] = hooks[id]
        BY <1>3, <3>4, HookStored
      <4> QED
        BY <2>5, <3>4, <4>1
    <3>5. CASE j.kind = "test"
      <4>1. hooks' = hooks
        BY <1>3, <3>5, HookStored
      <4> QED
        BY <2>5, <3>5, <4>1
    <3>6. j.kind \in {"create", "toggle", "remove", "test"}
      BY HookBounds DEF Hook!Requests
    <3> QED
      BY <3>1, <3>2, <3>3, <3>4, <3>5, <3>6
  <2> QED
    BY <2>4, <2>6 DEF Hook!WantInv
<1>4. ASSUME NEW j \in jobs, Hook!Fail(j) PROVE Hook!WantInv'
  <2>1. PICK e \in Hook!Requests : jobs' = (jobs \ {j}) \cup {e} /\ e.phase = "done"
    BY <1>4, HookFailFacts
  <2>2. hooks' = hooks /\ want' = want /\ hasty' = IF j.kind = "toggle" THEN hasty \cup {j.id} ELSE hasty
    BY <1>4 DEF Hook!Fail
  <2>3. hasty \subseteq hasty' /\ (j.kind = "toggle" => j.id \in hasty')
    BY <2>2
  <2> QED
    BY <1>1, <2>1, <2>2, <2>3
<1>5. ASSUME NEW T, HookRests(T), hooks' = hooks, want' = want, hasty' = hasty PROVE Hook!WantInv'
  <2>1. ASSUME NEW k \in jobs', k.phase = "sent" PROVE k \in jobs
    BY <1>5, <2>1 DEF HookRests
  <2>2. ASSUME NEW k \in jobs, k.phase = "sent" PROVE k \in jobs'
    BY <1>5, <2>2 DEF HookRests
  <2> QED
    BY <1>1, <1>5, <2>1, <2>2
<1>6. ASSUME NEW j \in jobs, Hook!Answered(j) PROVE Hook!WantInv'
  <2>1. PICK T : HookRests(T)
    BY <1>6, HookAnsweredFacts
  <2> QED
    BY <1>5, <1>6, <2>1 DEF Hook!Answered
<1>7. ASSUME Hook!Fetched PROVE Hook!WantInv'
  <2>1. PICK T : HookRests(T)
    BY <1>7, HookFetchedFacts
  <2> QED
    BY <1>5, <1>7, <2>1 DEF Hook!Fetched, Hook!history
<1>8. ASSUME NEW j \in jobs, Hook!Tested(j) \/ Hook!Finish(j) PROVE Hook!WantInv'
  <2>1. hooks' = hooks /\ want' = want /\ hasty' = hasty /\ jobs' = jobs \ {j}
        /\ (j.kind = "toggle" => j.phase # "sent")
    BY <1>8 DEF Hook!Tested, Hook!Finish, Hook!history
  <2> QED
    BY <1>1, <2>1
<1>9. ASSUME Hook!Serve \/ \E n \in timers : Hook!TimerEnds(n) PROVE Hook!WantInv'
  <2>1. hooks' = hooks /\ want' = want /\ hasty' = hasty /\ jobs' = jobs
    BY <1>9 DEF Hook!Serve, Hook!TimerEnds, Hook!history
  <2> QED
    BY <1>1, <2>1
<1>10. ASSUME NEW r, r.kind # "toggle", jobs' = jobs \cup {r}, hooks' = hooks, want' = want,
              hasty \subseteq hasty'
       PROVE  Hook!WantInv'
  BY <1>1, <1>10
<1>11. ASSUME Hook!Create PROVE Hook!WantInv'
  <2> DEFINE r == HookAsking("create", acts', TRUE)
  <2>1. jobs' = jobs \cup {r} /\ r.kind = "create" /\ hooks' = hooks /\ want' = want
        /\ hasty' = hasty
    BY <1>11 DEF Hook!Create, Hook!Ask, HookAsking, Hook!history
  <2> HIDE DEF r
  <2> QED
    BY <1>10, <2>1
<1>12. ASSUME NEW id \in Hook!Ids, Hook!Remove(id) PROVE Hook!WantInv'
  <2> DEFINE r == HookAsking("remove", id, FALSE)
  <2>1. jobs' = jobs \cup {r} /\ r.kind = "remove" /\ hooks' = hooks /\ want' = want
        /\ hasty \subseteq hasty'
    BY <1>12 DEF Hook!Remove, Hook!Ask, HookAsking
  <2> HIDE DEF r
  <2> QED
    BY <1>10, <2>1
<1>13. ASSUME NEW id \in Hook!Ids, Hook!Test(id) PROVE Hook!WantInv'
  <2> DEFINE r == HookAsking("test", id, FALSE)
  <2>1. jobs' = jobs \cup {r} /\ r.kind = "test" /\ hooks' = hooks /\ want' = want
        /\ hasty' = hasty
    BY <1>13 DEF Hook!Test, Hook!Ask, HookAsking
  <2> HIDE DEF r
  <2> QED
    BY <1>10, <2>1
<1>14. ASSUME NEW id \in Hook!Ids, Hook!Toggle(id) PROVE Hook!WantInv'
  <2> DEFINE r == HookAsking("toggle", id, ~list[id])
             w == ~list[id]
  <2>1. jobs' = jobs \cup {r} /\ r.kind = "toggle" /\ r.phase = "sent" /\ r.id = id
        /\ hooks' = hooks
    BY <1>14 DEF Hook!Toggle, Hook!Ask, HookAsking
  <2>2. r.enabled = w /\ want' = [want EXCEPT ![id] = w]
    BY <1>14, Zenon DEF Hook!Toggle, HookAsking
  <2>3. hasty \subseteq hasty' /\ (id \notin hasty' => ~Hook!Changes(id))
    BY <1>14 DEF Hook!Toggle
  <2> HIDE DEF r, w
  <2>4. DOMAIN want = Hook!Ids
    BY DEF Hook!TypeOK
  <2>5. want'[id] = w /\ \A i : i \in Hook!Ids /\ i # id => want'[i] = want[i]
    BY <2>2, <2>4
  <2>6. ASSUME NEW k \in jobs', k.kind = "toggle", k.phase = "sent", k.id \notin hasty'
        PROVE  k.enabled = want'[k.id]
    <3>1. CASE k = r
      BY <2>1, <2>2, <2>5, <3>1
    <3>2. CASE k \in jobs
      <4>1. k.id \in Hook!Ids /\ k.id # id
        BY <2>3, <2>6, <3>2, HookBounds DEF Hook!Changes
      <4> QED
        BY <2>3, <2>5, <2>6, <3>2, <4>1 DEF Hook!WantInv
    <3> QED
      BY <2>1, <3>1, <3>2
  <2>7. ASSUME NEW i \in DOMAIN hooks' \ hasty'
        PROVE  hooks'[i] = want'[i] \/ \E k \in jobs' : k.kind = "toggle" /\ k.phase = "sent"
               /\ k.id = i
    <3>1. CASE i = id
      BY <2>1, <3>1
    <3>2. CASE i # id
      <4>1. i \in DOMAIN hooks \ hasty /\ i \in Hook!Ids
        BY <2>1, <2>3 DEF Hook!TypeOK
      <4>2. hooks[i] = want[i] \/ \E k \in jobs : k.kind = "toggle" /\ k.phase = "sent"
            /\ k.id = i
        BY <4>1 DEF Hook!WantInv
      <4> QED
        BY <2>1, <2>5, <3>2, <4>1, <4>2
    <3> QED
      BY <3>1, <3>2
  <2> QED
    BY <2>6, <2>7 DEF Hook!WantInv
<1> QED
  BY <1>2, <1>3, <1>4, <1>6, <1>7, <1>8, <1>9, <1>11, <1>12, <1>13, <1>14 DEF Hook!Next

-----------------------------------------------------------------------------
\* Every step keeps TestInv.
LEMMA HookNextTestInv ==
    ASSUME Hook!WebhooksAssumption, Hook!TypeOK, s14 \/ Hook!TestInv, [Hook!Next]_(Hook!vars)
    PROVE  s14' \/ Hook!TestInv'
<1> DEFINE jobs == s2  list == s3  testId == s7  result == s8  timers == s9  acts == s10
           mixed == s14
<1>m. mixed => mixed'
  <2>1. ASSUME mixed, UNCHANGED mixed PROVE mixed'
    BY <2>1
  <2>2. CASE UNCHANGED Hook!vars
    BY <2>1, <2>2 DEF Hook!vars, Hook!history
  <2>3. ASSUME mixed, Hook!Next PROVE mixed'
    <3>1. CASE \E id \in Hook!Ids : Hook!Test(id)
      BY <2>3, <3>1 DEF Hook!Test
    <3>2. CASE mixed' = mixed
      BY <2>1, <2>3, <3>2
    <3>3. (\E id \in Hook!Ids : Hook!Test(id)) \/ mixed' = mixed
      BY <2>3 DEF Hook!Next, Hook!Perform, Hook!Fail, Hook!Tested, Hook!Answered, Hook!Finish,
        Hook!Toggle, Hook!Remove, Hook!TimerEnds, Hook!Create, Hook!Serve, Hook!Fetched,
        Hook!history
    <3> QED
      BY <3>1, <3>2, <3>3
  <2> QED
    BY <2>2, <2>3
<1>s. SUFFICES ASSUME ~mixed PROVE mixed' \/ Hook!TestInv'
  BY <1>m
<1>i. Hook!TestInv
  BY <1>s
\* The tests under way stay as they are.
<1>1. ASSUME NEW T, \A k \in jobs : T[k].id = k.id /\ T[k].kind = k.kind,
             \A k \in jobs' : k.kind = "test" => \E p \in jobs : k = T[p],
             UNCHANGED <<testId, result, timers>>
      PROVE  Hook!TestInv'
  <2>1. ASSUME NEW k \in jobs', k.kind = "test"
        PROVE  k.id = testId' /\ timers' = {} /\ \A q \in jobs' : q.kind = "test" => q = k
    <3>1. PICK p \in jobs : k = T[p] /\ p.kind = "test" /\ p.id = k.id
      BY <1>1, <2>1
    <3>2. p.id = testId /\ timers = {} /\ \A q \in jobs : q.kind = "test" => q = p
      BY <1>i, <3>1 DEF Hook!TestInv
    <3> QED
      BY <1>1, <3>1, <3>2
  <2> QED
    BY <1>i, <1>1, <2>1 DEF Hook!TestInv
<1>2. ASSUME \A k \in jobs' : k.kind = "test" => k \in jobs, UNCHANGED <<testId, result, timers>>
      PROVE  Hook!TestInv'
  <2> DEFINE T == [k \in jobs |-> k]
  <2>1. \A k \in jobs : T[k] = k
    OBVIOUS
  <2> HIDE DEF T
  <2> QED
    BY <1>1, <1>2, <2>1
<1>3. ASSUME NEW j \in jobs, NEW e, jobs' = (jobs \ {j}) \cup {e}, e.id = j.id, e.kind = j.kind,
             UNCHANGED <<testId, result, timers>>
      PROVE  Hook!TestInv'
  <2> DEFINE T == [k \in jobs |-> IF k = j THEN e ELSE k]
  <2>1. \A k \in jobs : T[k] = IF k = j THEN e ELSE k
    OBVIOUS
  <2> HIDE DEF T
  <2> QED
    BY <1>1, <1>3, <2>1
<1>4. CASE UNCHANGED Hook!vars
  BY <1>2, <1>4 DEF Hook!vars, Hook!card
<1>5. ASSUME NEW j \in jobs, Hook!Perform(j) PROVE Hook!TestInv'
  BY <1>3, <1>5, HookPerformFacts DEF Hook!Perform, Hook!card
<1>6. ASSUME NEW j \in jobs, Hook!Fail(j) PROVE Hook!TestInv'
  <2>1. PICK e \in Hook!Requests : jobs' = (jobs \ {j}) \cup {e} /\ e.id = j.id /\ e.kind = j.kind
    BY <1>6, HookFailFacts
  <2>2. UNCHANGED <<testId, result, timers>>
    BY <1>6 DEF Hook!Fail, Hook!card
  <2> QED
    BY <1>3, <2>1, <2>2
<1>7. ASSUME NEW T, HookRests(T), UNCHANGED <<testId, result, timers>> PROVE Hook!TestInv'
  BY <1>1, <1>7 DEF HookRests
<1>8. ASSUME NEW j \in jobs, Hook!Answered(j) PROVE Hook!TestInv'
  BY <1>7, <1>8, HookAnsweredFacts DEF Hook!Answered
<1>9. ASSUME Hook!Fetched PROVE Hook!TestInv'
  BY <1>7, <1>9, HookFetchedFacts DEF Hook!Fetched, Hook!card
<1>10. ASSUME NEW j \in jobs, Hook!Finish(j) PROVE Hook!TestInv'
  BY <1>2, <1>10 DEF Hook!Finish
<1>11. ASSUME Hook!Serve PROVE Hook!TestInv'
  BY <1>2, <1>11 DEF Hook!Serve, Hook!card
<1>12. ASSUME NEW j \in jobs, Hook!Tested(j) PROVE Hook!TestInv'
  <2>1. jobs' = jobs \ {j} /\ result'.of = j.id /\ testId' = testId
    BY <1>12 DEF Hook!Tested
  <2>2. j.id = testId /\ \A k \in jobs : k.kind = "test" => k = j
    BY <1>12, <1>i DEF Hook!Tested, Hook!TestInv
  <2> QED
    BY <2>1, <2>2 DEF Hook!TestInv
<1>13. ASSUME NEW n \in timers, Hook!TimerEnds(n) PROVE Hook!TestInv'
  <2>1. jobs' = jobs /\ result' = Hook!NoResult
    BY <1>13 DEF Hook!TimerEnds
  <2>2. \A k \in jobs : k.kind # "test"
    BY <1>13, <1>i DEF Hook!TestInv
  <2> QED
    BY <2>1, <2>2 DEF Hook!TestInv
<1>14. ASSUME NEW r, r.kind # "test", jobs' = jobs \cup {r}, UNCHANGED <<testId, result, timers>>
       PROVE  Hook!TestInv'
  BY <1>2, <1>14
<1>15. ASSUME Hook!Create PROVE Hook!TestInv'
  <2> DEFINE r == HookAsking("create", acts', TRUE)
  <2>1. jobs' = jobs \cup {r} /\ r.kind = "create" /\ UNCHANGED <<testId, result, timers>>
    BY <1>15 DEF Hook!Create, Hook!Ask, HookAsking
  <2> HIDE DEF r
  <2> QED
    BY <1>14, <2>1
<1>16. ASSUME NEW id \in Hook!Ids, Hook!Remove(id) PROVE Hook!TestInv'
  <2> DEFINE r == HookAsking("remove", id, FALSE)
  <2>1. jobs' = jobs \cup {r} /\ r.kind = "remove" /\ UNCHANGED <<testId, result, timers>>
    BY <1>16 DEF Hook!Remove, Hook!Ask, HookAsking, Hook!card
  <2> HIDE DEF r
  <2> QED
    BY <1>14, <2>1
<1>17. ASSUME NEW id \in Hook!Ids, Hook!Toggle(id) PROVE Hook!TestInv'
  <2> DEFINE r == HookAsking("toggle", id, ~list[id])
  <2>1. jobs' = jobs \cup {r} /\ r.kind = "toggle" /\ UNCHANGED <<testId, result, timers>>
    BY <1>17 DEF Hook!Toggle, Hook!Ask, HookAsking, Hook!card
  <2> HIDE DEF r
  <2> QED
    BY <1>14, <2>1
<1>18. ASSUME NEW id \in Hook!Ids, Hook!Test(id) PROVE mixed' \/ Hook!TestInv'
  <2> DEFINE r == HookAsking("test", id, FALSE)
  <2>1. jobs' = jobs \cup {r} /\ r.id = id /\ testId' = id /\ result' = Hook!NoResult
        /\ timers' = timers
    BY <1>18 DEF Hook!Test, Hook!Ask, HookAsking
  <2>2. ASSUME timers = {}, \A j \in jobs : j.kind # "test" PROVE Hook!TestInv'
    <3> HIDE DEF r
    <3> QED
      BY <2>1, <2>2 DEF Hook!TestInv
  <2>3. timers # {} \/ (\E j \in jobs : j.kind = "test") => mixed'
    BY <1>18 DEF Hook!Test
  <2> QED
    BY <2>2, <2>3
<1> QED
  BY <1>4, <1>5, <1>6, <1>8, <1>9, <1>10, <1>11, <1>12, <1>13, <1>15, <1>16, <1>17, <1>18
    DEF Hook!Next

-----------------------------------------------------------------------------
\* Every step keeps ListInv.
LEMMA HookNextListInv ==
    ASSUME Hook!WebhooksAssumption, Hook!TypeOK, Hook!ListInv, [Hook!Next]_(Hook!vars)
    PROVE  Hook!ListInv'
<1> DEFINE hooks == s1  jobs == s2  list == s3  fetch == s4  timers == s9  seen == s11
           lost == s15
<1> DEFINE Tells(j) == j.kind # "test" /\ j.phase = "done" /\ j.ok
\* The answers that will refetch are still to come.
<1>1. ASSUME lost' = lost, \A j \in jobs : Tells(j) => j \in jobs',
             UNCHANGED <<hooks, list, fetch, seen>>
      PROVE  Hook!ListInv'
  BY <1>1 DEF Hook!ListInv, Hook!Unsaid, Hook!Unshown
<1>2. CASE UNCHANGED Hook!vars
  BY <1>1, <1>2 DEF Hook!vars, Hook!query, Hook!history
<1>3. ASSUME NEW j \in jobs, Hook!Perform(j) PROVE Hook!ListInv'
  <2>1. PICK e \in Hook!Requests :
          /\ jobs' = (jobs \ {j}) \cup {e}
          /\ e.id = j.id /\ e.kind = j.kind /\ e.phase = "done"
          /\ j.kind = "create" \/ (j.kind \in {"toggle", "remove"} /\ j.id \in DOMAIN hooks)
               => e.ok = TRUE
    BY <1>3, HookPerformFacts
  <2>2. j.phase = "sent" /\ lost' = lost /\ UNCHANGED <<list, fetch, seen>>
    BY <1>3 DEF Hook!Perform, Hook!query, Hook!history
  <2>3. \A k \in jobs : Tells(k) => k \in jobs'
    BY <2>1, <2>2
  <2>4. CASE hooks' = hooks
    BY <1>1, <2>2, <2>3, <2>4
  <2>5. CASE hooks' # hooks
    <3>1. j.kind = "create" \/ (j.kind \in {"toggle", "remove"} /\ j.id \in DOMAIN hooks)
      <4>1. j.kind \in {"create", "toggle", "remove", "test"}
        BY HookBounds DEF Hook!Requests
      <4> QED
        BY <1>3, <2>5, <4>1, HookStored
    <3>2. e \in jobs' /\ e.kind # "test" /\ e.phase = "done" /\ e.ok
      BY <2>1, <3>1
    <3>3. Hook!Unsaid'
      BY <3>2 DEF Hook!Unsaid
    <3>4. DOMAIN hooks' \subseteq DOMAIN hooks
          \/ (j.kind = "create" /\ DOMAIN hooks' = DOMAIN hooks \cup {j.id})
      BY <1>3, <3>1, HookStored
    <3>5. ASSUME ~lost', NEW id \in DOMAIN hooks' PROVE (id \in seen \/ Hook!Unshown(id))'
      <4>1. CASE id \in DOMAIN hooks
        <5>1. id \in seen \/ Hook!Unshown(id)
          BY <2>2, <3>5, <4>1 DEF Hook!ListInv
        <5> QED
          BY <2>2, <2>3, <5>1 DEF Hook!Unshown
      <4>2. CASE id \notin DOMAIN hooks
        <5>1. j.kind = "create" /\ id = j.id
          BY <3>4, <3>5, <4>2
        <5> QED
          BY <2>1, <3>2, <5>1 DEF Hook!Unshown
      <4> QED
        BY <4>1, <4>2
    <3>6. (fetch \in {Hook!Idle, Hook!Sent} \/ fetch.phase = "served")'
      BY <2>2 DEF Hook!ListInv
    <3> QED
      BY <3>3, <3>5, <3>6 DEF Hook!ListInv
  <2> QED
    BY <2>4, <2>5
<1>4. ASSUME NEW j \in jobs, Hook!Fail(j) PROVE Hook!ListInv'
  <2>1. PICK e \in Hook!Requests : jobs' = (jobs \ {j}) \cup {e} /\ e.phase = "done"
    BY <1>4, HookFailFacts
  <2>2. UNCHANGED <<hooks, list, fetch, seen>> /\ (j.phase = "done" => lost')
        /\ (j.phase # "done" /\ lost' => lost)
        /\ (lost => lost')
    BY <1>4 DEF Hook!Fail, Hook!query
  <2>3. CASE lost'
    BY <2>2, <2>3 DEF Hook!ListInv
  <2>4. CASE ~lost'
    <3>1. j.phase # "done" /\ ~lost
      BY <2>2, <2>4
    <3>2. \A k \in jobs : Tells(k) => k \in jobs'
      BY <2>1, <3>1
    <3> QED
      BY <2>2, <2>4, <3>1, <3>2 DEF Hook!ListInv, Hook!Unsaid, Hook!Unshown
  <2> QED
    BY <2>3, <2>4
<1>5. ASSUME Hook!Serve PROVE Hook!ListInv'
  <2>1. fetch' = [phase |-> "served", res |-> hooks]
        /\ UNCHANGED <<hooks, jobs, list, seen, lost>>
    BY <1>5 DEF Hook!Serve, Hook!history
  <2>2. fetch'.phase = "served" /\ fetch'.res = hooks' /\ fetch' # Hook!Idle
    BY <2>1 DEF Hook!Idle
  <2> QED
    BY <2>1, <2>2 DEF Hook!ListInv, Hook!Unshown
<1>6. ASSUME NEW r, jobs' = jobs \cup {r}, UNCHANGED <<hooks, list, fetch, seen, lost>>
      PROVE  Hook!ListInv'
  BY <1>1, <1>6
<1>7. ASSUME Hook!Create PROVE Hook!ListInv'
  BY <1>6, <1>7 DEF Hook!Create, Hook!Ask, Hook!query, Hook!history
<1>8. ASSUME NEW id \in Hook!Ids, Hook!Toggle(id) PROVE Hook!ListInv'
  BY <1>6, <1>8 DEF Hook!Toggle, Hook!Ask, Hook!query
<1>9. ASSUME NEW id \in Hook!Ids, Hook!Remove(id) PROVE Hook!ListInv'
  BY <1>6, <1>9 DEF Hook!Remove, Hook!Ask, Hook!query
<1>10. ASSUME NEW id \in Hook!Ids, Hook!Test(id) PROVE Hook!ListInv'
  BY <1>6, <1>10 DEF Hook!Test, Hook!Ask, Hook!query
<1>11. ASSUME NEW j \in jobs, Hook!Tested(j) \/ Hook!Finish(j) PROVE Hook!ListInv'
  <2>1. jobs' = jobs \ {j} /\ ~Tells(j) /\ UNCHANGED <<hooks, list, fetch, seen, lost>>
    BY <1>11 DEF Hook!Tested, Hook!Finish, Hook!query, Hook!history
  <2> QED
    BY <1>1, <2>1
<1>12. ASSUME NEW n \in timers, Hook!TimerEnds(n) PROVE Hook!ListInv'
  BY <1>1, <1>12 DEF Hook!TimerEnds, Hook!query, Hook!history
<1>13. ASSUME NEW j \in jobs, Hook!Answered(j) PROVE Hook!ListInv'
  <2>1. PICK T : HookRests(T) /\ \A k \in jobs : k # j /\ k.phase = "done" => T[k] = k
    BY <1>13, HookAnsweredFacts
  <2>2. /\ hooks' = hooks /\ list' = list
        /\ fetch' = Hook!Sent \/ (fetch' = fetch /\ list = Hook!NoList /\ fetch # Hook!Idle)
        /\ list = Hook!NoList /\ fetch.phase = "served" => lost'
        /\ lost => lost'
        /\ seen \subseteq seen' /\ (j.kind = "create" => j.id \in seen')
    BY <1>13 DEF Hook!Answered
  <2>3. (fetch \in {Hook!Idle, Hook!Sent} \/ fetch.phase = "served")'
    BY <2>2 DEF Hook!ListInv
  <2>4. ASSUME ~lost' PROVE fetch' = Hook!Sent
    BY <2>2, <2>4 DEF Hook!ListInv
  <2>5. Hook!Sent.phase # "served" /\ Hook!Sent # Hook!Idle
    BY DEF Hook!Sent, Hook!Idle
  <2>6. ASSUME ~lost', NEW id \in DOMAIN hooks' PROVE (id \in seen \/ Hook!Unshown(id))'
    <3>1. id \in seen \/ Hook!Unshown(id)
      BY <2>2, <2>6 DEF Hook!ListInv
    <3>2. CASE id \in seen
      BY <2>2, <3>2
    <3>3. CASE Hook!Unshown(id)
      <4>1. PICK k \in jobs : k.kind = "create" /\ k.phase = "done" /\ k.ok /\ k.id = id
        BY <3>3 DEF Hook!Unshown
      <4>2. CASE k = j
        BY <2>2, <4>1, <4>2
      <4>3. CASE k # j
        <5>1. k \in jobs'
          BY <2>1, <4>1, <4>3 DEF HookRests
        <5> QED
          BY <4>1, <5>1 DEF Hook!Unshown
      <4> QED
        BY <4>2, <4>3
    <3> QED
      BY <3>1, <3>2, <3>3
  <2> QED
    BY <2>3, <2>4, <2>5, <2>6 DEF Hook!ListInv
<1>14. ASSUME Hook!Fetched PROVE Hook!ListInv'
  <2>1. PICK T : HookRests(T) /\ \A k \in jobs : k.phase = "done" => T[k] = k
    BY <1>14, HookFetchedFacts
  <2>2. fetch.phase = "served" /\ fetch' = Hook!Idle /\ list' = fetch.res
        /\ UNCHANGED <<hooks, seen, lost>>
    BY <1>14 DEF Hook!Fetched, Hook!history
  <2>3. \A k \in jobs : Tells(k) => k \in jobs'
    BY <2>1 DEF HookRests
  <2>4. Hook!Idle.phase # "served"
    BY DEF Hook!Idle
  <2> QED
    BY <2>2, <2>3, <2>4 DEF Hook!ListInv, Hook!Unsaid, Hook!Unshown
<1> QED
  BY <1>2, <1>3, <1>4, <1>5, <1>7, <1>8, <1>9, <1>10, <1>11, <1>12, <1>13, <1>14 DEF Hook!Next

\* Every step keeps the invariant.
LEMMA HookNextIInv ==
    ASSUME Hook!WebhooksAssumption, Hook!IInv, [Hook!Next]_(Hook!vars)
    PROVE  Hook!IInv'
  BY HookNextTypeOK, HookNextFreshInv, HookNextWantInv, HookNextTestInv, HookNextListInv
    DEF Hook!IInv

\* The invariant implies what is promised.
LEMMA HookIInvFollows ==
    ASSUME Hook!IInv
    PROVE  Hook!WebhooksFollow
<1> DEFINE hooks == s1  jobs == s2  list == s3  fetch == s4  testId == s7  result == s8
           seen == s11  want == s12  hasty == s13  mixed == s14  lost == s15
<1>1. ASSUME result # Hook!NoResult, ~mixed PROVE result.of = testId
  BY <1>1 DEF Hook!IInv, Hook!TestInv
<1>2. ASSUME jobs = {}, fetch = Hook!Idle, ~lost
      PROVE  list = hooks /\ DOMAIN hooks \subseteq seen
             /\ \A id \in DOMAIN hooks \ hasty : hooks[id] = want[id]
  BY <1>2 DEF Hook!IInv, Hook!ListInv, Hook!WantInv, Hook!Unsaid, Hook!Unshown
<1> QED
  BY <1>1, <1>2 DEF Hook!WebhooksFollow
=============================================================================
