---------------------------- MODULE SenderProofs ----------------------------
(***************************************************************************)
(* Proofs about Senders: what a player pays for what he sees, and what a   *)
(* later protocol version adds, for every set of protocol versions, every  *)
(* scene and every bound on the count of opportunities.                    *)
(***************************************************************************)
EXTENDS Senders, WellFoundedInduction, TLAPS

------------------------------------------------------------------------------
(* The rhythm of the see messages.                                          *)

\* The views a player can have: width, quality and timing determine angle and
\* interval, and synch_see leaves only the high quality.
IsView(v) ==
    /\ v \in [width : Widths, high : BOOLEAN, synch : BOOLEAN, gauss : BOOLEAN,
              angle : Nat, interval : Nat]
    /\ v.synch => v.high
    /\ v.angle = Angle(v.width, v.synch)
    /\ v.interval = IF v.high THEN Interval(v.width, v.synch)
                    ELSE Interval(v.width, v.synch) \div 2

\* The angles and the intervals of the three widths.
LEMMA WidthCost ==
    ASSUME NEW w \in Widths
    PROVE  /\ Interval(w, TRUE) \in 1..3 /\ Angle(w, TRUE) \in Nat
           /\ Interval(w, TRUE) * 8 = Angle(w, TRUE)
           /\ Interval(w, FALSE) \in 2..8 /\ Angle(w, FALSE) \in Nat
           /\ Interval(w, FALSE) \div 2 \in 1..4
           /\ Interval(w, FALSE) * 3 = Angle(w, FALSE)
           /\ (Interval(w, FALSE) \div 2) * 6 = Angle(w, FALSE)
<1>1. CASE w = "narrow"
  BY <1>1 DEF Interval, Angle
<1>2. CASE w = "normal"
  BY <1>2 DEF Interval, Angle
<1>3. CASE w = "wide"
  BY <1>3 DEF Interval, Angle
<1> QED  BY <1>1, <1>2, <1>3 DEF Widths

\* What change_view makes is a view.
LEMMA ViewingIsView ==
    ASSUME NEW w \in Widths, NEW high \in BOOLEAN, NEW synch \in BOOLEAN,
           NEW gauss \in BOOLEAN, synch => high
    PROVE  IsView(Viewing(w, high, synch, gauss))
<1> DEFINE a == Angle(w, synch)
           n == IF high THEN Interval(w, synch) ELSE Interval(w, synch) \div 2
           v == [width |-> w, high |-> high, synch |-> synch, gauss |-> gauss,
                 angle |-> a, interval |-> n]
<1>1. a \in Nat /\ n \in Nat
  <2>1. \A i : i \in 1..3 \/ i \in 2..8 \/ i \in 1..4 => i \in Nat
    OBVIOUS
  <2>2. CASE synch = TRUE /\ high = TRUE
    BY <2>1, <2>2, WidthCost, Zenon
  <2>3. CASE synch = FALSE
    BY <2>1, <2>3, WidthCost, Zenon
  <2> QED  BY <2>2, <2>3, Zenon
<1>2. Viewing(w, high, synch, gauss) = v
  BY DEF Viewing
<1> HIDE DEF a, n
<1>3. /\ v \in [width : Widths, high : BOOLEAN, synch : BOOLEAN, gauss : BOOLEAN,
                angle : Nat, interval : Nat]
      /\ v.width = w /\ v.high = high /\ v.synch = synch
      /\ v.angle = a /\ v.interval = n
  BY <1>1
<1> HIDE DEF v
<1>4. v.synch => v.high
  BY <1>3
<1>5. v.angle = Angle(v.width, v.synch)
  BY <1>3, Zenon DEF a
<1>6. v.interval = IF v.high THEN Interval(v.width, v.synch)
                   ELSE Interval(v.width, v.synch) \div 2
  BY <1>3, Zenon DEF n
<1>7. IsView(v)
  BY <1>3, <1>4, <1>5, <1>6, Zenon DEF IsView
<1> QED  BY <1>2, <1>7, Zenon

\* A view costs at least one opportunity and at most eight, and these are worth
\* its angle.
LEMMA ViewCost ==
    ASSUME NEW v, IsView(v)
    PROVE  /\ v.interval \in 1..8 /\ v.angle \in Nat /\ Worth(v) \in {3, 6, 8}
           /\ v.interval * Worth(v) >= v.angle
<1>1. /\ v.width \in Widths /\ v.high \in BOOLEAN /\ v.synch \in BOOLEAN
      /\ v.synch => v.high
  BY DEF IsView
<1>2. CASE v.synch = TRUE
  <2>1. v.high = TRUE
    BY <1>1, <1>2
  <2>2. v.interval = Interval(v.width, TRUE) /\ v.angle = Angle(v.width, TRUE)
    BY <1>2, <2>1, Zenon DEF IsView
  <2>3. Worth(v) = 8
    BY <1>2, Zenon DEF Worth
  <2>4. v.interval \in 1..3 /\ v.angle \in Nat /\ v.interval * 8 = v.angle
    BY <1>1, <2>2, WidthCost, Zenon
  <2> QED  BY <2>3, <2>4
<1>3. CASE v.synch = FALSE /\ v.high = TRUE
  <2>1. v.interval = Interval(v.width, FALSE) /\ v.angle = Angle(v.width, FALSE)
    BY <1>3, Zenon DEF IsView
  <2>2. Worth(v) = 3
    BY <1>3, Zenon DEF Worth
  <2>3. v.interval \in 2..8 /\ v.angle \in Nat /\ v.interval * 3 = v.angle
    BY <1>1, <2>1, WidthCost, Zenon
  <2> QED  BY <2>2, <2>3
<1>4. CASE v.synch = FALSE /\ v.high = FALSE
  <2>1. /\ v.interval = Interval(v.width, FALSE) \div 2
        /\ v.angle = Angle(v.width, FALSE)
    BY <1>4, Zenon DEF IsView
  <2>2. Worth(v) = 6
    BY <1>4, Zenon DEF Worth
  <2>3. v.interval \in 1..4 /\ v.angle \in Nat /\ v.interval * 6 = v.angle
    BY <1>1, <2>1, WidthCost, Zenon
  <2> QED  BY <2>2, <2>3
<1> QED  BY <1>1, <1>2, <1>3, <1>4

\* synch_see and gaussian_see lead from a view to a view.
LEMMA ViewChanges ==
    ASSUME NEW v, IsView(v)
    PROVE  IsView(synchView(v)) /\ IsView([v EXCEPT !.gauss = TRUE])
<1>1. v.width \in Widths /\ v.gauss \in BOOLEAN
  BY DEF IsView
<1>2. IsView(synchView(v))
  BY <1>1, ViewingIsView DEF synchView
<1>3. IsView([v EXCEPT !.gauss = TRUE])
  BY DEF IsView
<1> QED  BY <1>2, <1>3


\* The counter of the sender never runs ahead of the opportunities that have
\* really passed: a reconnect starts the one anew and not the other, a change of
\* view neither.
SeeInv ==
    /\ IsView(view)
    /\ sendcnt \in 0..7 /\ since \in 0..MaxGap /\ sendcnt <= since
    /\ SeePays

\* Every step keeps the rhythm.
LEMMA SeeStep == SeeInv /\ [SendersNext]_nvars => SeeInv'
<1> SUFFICES ASSUME SeeInv, [SendersNext]_nvars PROVE SeeInv'
  OBVIOUS
<1>a. /\ IsView(view) /\ sendcnt \in 0..7 /\ since \in 0..MaxGap
      /\ sendcnt <= since
  BY DEF SeeInv
<1>b. MaxGap \in Nat /\ MaxGap >= 8
  BY SendersAssumption
\* A message that is no see, or none.
<1>c. ASSUME UNCHANGED <<sendcnt, since>>, IsView(view'), last'.kind # "see"
      PROVE  SeeInv'
  BY <1>a, <1>c DEF SeeInv, SeePays
<1>n. Nothing.kind # "see"
  BY DEF Nothing
<1>m. \A kind, scene, score, gap : Message(kind, scene, score, gap).kind = kind
  BY DEF Message
\* A message that goes out of order.
<1>d. ASSUME NEW kind, NEW scene, NEW score, kind # "see",
             Send(Message(kind, scene, score, 0))
      PROVE  SeeInv'
  <2>1. last'.kind = kind
    BY <1>d, <1>m, Zenon DEF Send
  <2>2. UNCHANGED <<view, sendcnt, since>>
    BY <1>d DEF Send
  <2> QED  BY <1>a, <1>c, <1>d, <2>1, <2>2
<1>1. CASE Join
  <2>1. IsView(view')
    BY <1>1, <1>a, ViewChanges DEF Join
  <2>2. last'.kind = "init"
    BY <1>1, <1>m, Zenon DEF Join
  <2>3. sendcnt' = 0 /\ since' = since
    BY <1>1 DEF Join
  <2> QED  BY <1>a, <2>1, <2>2, <2>3 DEF SeeInv, SeePays
<1>2. CASE Leave
  BY <1>2, <1>a, <1>c, <1>n DEF Leave
<1>3. ASSUME NEW w \in Widths, NEW high \in BOOLEAN, change_view(w, high)
      PROVE  SeeInv'
  <2>1. view.synch \in BOOLEAN /\ view.gauss \in BOOLEAN
    BY <1>a DEF IsView
  <2>2. IsView(Viewing(w, high, view.synch, view.gauss))
    BY <1>3, <2>1, ViewingIsView, Zenon DEF change_view
  <2> QED  BY <1>3, <2>2, <1>c, <1>n DEF change_view, Turns
<1>4. CASE synch_see \/ gaussian_see
  <2>1. IsView(view') /\ last' = Nothing
    BY <1>4, <1>a, ViewChanges, Zenon DEF synch_see, gaussian_see, Turns
  <2> QED  BY <1>4, <2>1, <1>c, <1>n DEF synch_see, gaussian_see, Turns
<1>5. ASSUME NEW scene \in Scenes, sendVisual(scene) PROVE SeeInv'
  <2> DEFINE n == sendcnt + 1
             gap == IF since < MaxGap THEN since + 1 ELSE since
  <2>1. /\ n \in 1..8 /\ gap \in 0..MaxGap /\ n <= gap
    BY <1>a, <1>b
  <2>2. view' = view
    BY <1>5 DEF sendVisual
  <2>3. /\ view.interval \in 1..8 /\ view.angle \in Nat /\ Worth(view) \in {3, 6, 8}
        /\ view.interval * Worth(view) >= view.angle
    BY <1>a, ViewCost
  <2>4. CASE DueNow(n)
    <3>1. sendcnt' = 0 /\ since' = 0 /\ last' = Message("see", scene, <<>>, gap)
      BY <1>5, <2>4, Zenon DEF sendVisual
    <3>2. last'.gap = gap
      BY <3>1, Zenon DEF Message
    <3>3. gap >= view.interval
      BY <2>1, <2>3, <2>4 DEF DueNow
    <3> HIDE DEF gap, n
    <3>4. gap * Worth(view) >= view.angle
      <4>1. CASE Worth(view) = 3
        BY <2>1, <2>3, <3>3, <4>1
      <4>2. CASE Worth(view) = 6
        BY <2>1, <2>3, <3>3, <4>2
      <4>3. CASE Worth(view) = 8
        BY <2>1, <2>3, <3>3, <4>3
      <4> QED  BY <2>3, <4>1, <4>2, <4>3
    <3>5. SeePays'
      <4>1. Worth(view)' = Worth(view)
        BY <2>2 DEF Worth
      <4> QED  BY <2>2, <3>2, <3>4, <4>1 DEF SeePays
    <3> QED  BY <1>a, <1>b, <2>2, <3>1, <3>5 DEF SeeInv
  <2>5. CASE ~ DueNow(n)
    <3>1. sendcnt' = n /\ since' = gap /\ last' = Nothing
      BY <1>5, <2>5, Zenon DEF sendVisual
    <3>2. n <= 7
      BY <2>1, <2>3, <2>5 DEF DueNow
    <3>3. SeePays'
      BY <3>1, <1>n DEF SeePays
    <3> QED  BY <1>a, <2>1, <2>2, <3>1, <3>2, <3>3 DEF SeeInv
  <2> QED  BY <2>4, <2>5
<1>6. CASE sendBody \/ sendScore
  BY <1>6, <1>d, Zenon DEF sendBody, sendScore
<1>7. ASSUME NEW from \in Voices, sendAudio(from) PROVE SeeInv'
  <2>1. from # "see"
    BY DEF Voices
  <2> QED  BY <1>7, <1>d, <2>1, Zenon DEF sendAudio
<1>8. ASSUME NEW scene \in Scenes,
             sendFullState(scene) \/ send_visual_info(scene) \/ look(scene)
      PROVE  SeeInv'
  BY <1>8, <1>d, Zenon DEF sendFullState, send_visual_info, look
<1>9. CASE UNCHANGED nvars
  <2>1. UNCHANGED <<view, sendcnt, since, last>>
    BY <1>9 DEF nvars
  <2> QED  BY <2>1 DEF SeeInv, SeePays, Worth
<1> QED
  BY <1>1, <1>2, <1>3, <1>4, <1>5, <1>6, <1>7, <1>8, <1>9 DEF SendersNext

\* The first see message is still to come.
LEMMA SeeInit == SendersInit => SeeInv
<1> SUFFICES ASSUME SendersInit PROVE SeeInv
  OBVIOUS
<1>1. IsView(Viewing("normal", TRUE, FALSE, FALSE))
  BY ViewingIsView, "normal" \in Widths DEF Widths
<1>2. IsView(view)
  BY <1>1, Zenon DEF SendersInit
<1>3. sendcnt = 0 /\ since = 0 /\ last = Nothing /\ MaxGap \in Nat
  BY SendersAssumption DEF SendersInit
<1> QED  BY <1>2, <1>3 DEF SeeInv, SeePays, Nothing

\* The angle of every see message is paid for by the opportunities that passed
\* since the last one, at the rate of the mode it is sent in: no order of
\* change_view, synch_see, gaussian_see and reconnecting lets a player see more.
THEOREM SeePaysHolds == SendersSpec => []SeePays
<1>1. SeeInv => SeePays
  BY DEF SeeInv
<1> QED  BY <1>1, SeeInit, SeeStep, PTL DEF SendersSpec


------------------------------------------------------------------------------
(* Protocol versions.                                                       *)

\* A set of numbers up to v has a greatest one.
LEMMA Greatest ==
    ASSUME NEW S \in SUBSET Nat, NEW v \in Nat, S # {}, \A c \in S : c <= v
    PROVE  Max(S) \in S /\ \A c \in S : c <= Max(S)
<1> DEFINE T == {v - c : c \in S}
<1>1. T \subseteq Nat /\ T # {}
  <2>1. \A c \in S : v - c \in Nat
    OBVIOUS
  <2>2. PICK c \in S : TRUE
    OBVIOUS
  <2>3. v - c \in T
    OBVIOUS
  <2> QED  BY <2>1, <2>3
<1> HIDE DEF T
<1>2. PICK x \in T : \A y \in T : ~ (<<y, x>> \in OpToRel(<, Nat))
  BY <1>1, WFMin, NatLessThanWellFounded, Zenon
<1>3. \A y \in T : x <= y
  <2>1. ASSUME NEW a \in Nat, NEW b \in Nat, a < b
        PROVE  <<a, b>> \in OpToRel(<, Nat)
    BY <2>1, Zenon DEF OpToRel
  <2>2. \A y \in T : y \in Nat /\ x \in Nat /\ ~ (y < x)
    BY <1>1, <1>2, <2>1, Zenon
  <2> QED  BY <2>2
<1>4. PICK m \in S : x = v - m
  BY DEF T
<1>5. \A c \in S : m >= c
  <2>1. \A c \in S : v - c \in T
    BY DEF T
  <2> QED  BY <1>3, <1>4, <2>1
<1>6. \E m2 \in S : \A c \in S : m2 >= c
  BY <1>5
<1>7. Max(S) \in S /\ \A c \in S : Max(S) >= c
  BY <1>6, Zenon DEF Max
<1> QED  BY <1>7


\* The factory of a kind of sender gives a later version the same class or a
\* later one, and never a class that is newer than the client.
LEMMA Creator ==
    ASSUME NEW C \in SUBSET Nat, 1 \in C, NEW v \in 1..19, NEW w \in v..19
    PROVE  /\ getCreator(C, v) \in Nat /\ getCreator(C, w) \in Nat
           /\ getCreator(C, v) <= getCreator(C, w)
           /\ \A c \in C : c <= v => c <= getCreator(C, v)
<1> DEFINE S(x) == {c \in C : c <= x}
<1>1. ASSUME NEW x \in 1..19
      PROVE  Max(S(x)) \in S(x) /\ \A c \in S(x) : c <= Max(S(x))
  BY 1 \in S(x), Greatest
<1>2. w \in 1..19 /\ v <= w
  OBVIOUS
<1>3. getCreator(C, v) = Max(S(v)) /\ getCreator(C, w) = Max(S(w))
  BY DEF getCreator
<1>4. PICK m : m = getCreator(C, v) /\ m \in S(v) /\ \A c \in S(v) : c <= m
  BY <1>1, <1>3, Zenon
<1>5. PICK n : n = getCreator(C, w) /\ n \in S(w) /\ \A c \in S(w) : c <= n
  BY <1>1, <1>2, <1>3, Zenon
<1>6. m \in Nat /\ n \in Nat /\ m <= v
  BY <1>4, <1>5
<1>7. m \in S(w)
  BY <1>2, <1>4, <1>6
<1>8. m <= n /\ \A c \in C : c <= v => c <= m
  BY <1>4, <1>5, <1>7
<1> QED  BY <1>4, <1>5, <1>6, <1>8, Zenon

\* What a class adds, a later class keeps.
LEMMA FromGrows ==
    ASSUME NEW a \in Nat, NEW b \in Nat, a <= b, NEW n \in Nat,
           NEW F, NEW G, F \subseteq G
    PROVE  From(a, n, F) \subseteq From(b, n, G)
  BY DEF From

\* All factories start with the class of version 1.
LEMMA Classes ==
    ASSUME NEW C \in {BodyClasses, VisualClasses, FullStateClasses, InitClasses,
                      PlayerSerializers, CoachVisuals, CoachSerializers, OnlineInits},
           NEW v \in 1..19, NEW w \in v..19
    PROVE  /\ getCreator(C, v) \in Nat /\ getCreator(C, w) \in Nat
           /\ getCreator(C, v) <= getCreator(C, w)
<1>1. C \in SUBSET Nat /\ 1 \in C
  BY DEF BodyClasses, VisualClasses, FullStateClasses, InitClasses,
         PlayerSerializers, CoachVisuals, CoachSerializers, OnlineInits
<1> QED  BY <1>1, Creator

\* sense_body.
LEMMA SenseBodyGrows ==
    ASSUME NEW v \in 1..19, NEW w \in v..19
    PROVE  SenseBody(v) \subseteq SenseBody(w)
<1> DEFINE c == getCreator(BodyClasses, v)         d == getCreator(BodyClasses, w)
           z == getCreator(PlayerSerializers, v)   y == getCreator(PlayerSerializers, w)
<1>1. c \in Nat /\ d \in Nat /\ c <= d
  BY Classes
<1>2. z \in Nat /\ y \in Nat /\ z <= y
  BY Classes
<1> HIDE DEF c, d, z, y
<1>3. BodyData(c) \subseteq BodyData(d)
  BY <1>1 DEF BodyData, BodyDataV1, From
<1>4. BodyCounts(z) \subseteq BodyCounts(y) /\ BodyStamina(z) \subseteq BodyStamina(y)
  BY <1>2 DEF BodyCounts, BodyStamina, From
<1>5. /\ SenseBody(v) = BodyData(c) \cup BodyCounts(z) \cup BodyStamina(z)
      /\ SenseBody(w) = BodyData(d) \cup BodyCounts(y) \cup BodyStamina(y)
  BY Zenon DEF SenseBody, c, d, z, y
<1> QED  BY <1>3, <1>4, <1>5, Zenon

\* What the serializers tell of a player's acts.
LEMMA VisualActsGrow ==
    ASSUME NEW z \in Nat, NEW y \in Nat, z <= y, NEW does
    PROVE  VisualActs(z, does) \subseteq VisualActs(y, does)
  BY DEF VisualActs, From

\* see.
LEMMA VisualGrows ==
    ASSUME NEW v \in 1..19, NEW w \in v..19, NEW high \in BOOLEAN,
           NEW scene, scene.known \in Knowledge
    PROVE  Visual(v, high, scene) \subseteq Visual(w, high, scene)
<1> DEFINE c == getCreator(VisualClasses, v)         d == getCreator(VisualClasses, w)
           z == getCreator(PlayerSerializers, v)   y == getCreator(PlayerSerializers, w)
<1>1. c \in Nat /\ d \in Nat /\ c <= d
  BY Classes
<1>2. z \in Nat /\ y \in Nat /\ z <= y
  BY Classes
<1> HIDE DEF c, d, z, y
<1>3. /\ serializePlayerV4(c) \subseteq serializePlayerV4(d)
      /\ serializePlayerV5(c) \subseteq serializePlayerV5(d)
  BY <1>1 DEF serializePlayerV4, serializePlayerV5, From
<1>4. \A does : serializePlayer(c, z, does) \subseteq serializePlayer(d, y, does)
  BY <1>1, <1>2, VisualActsGrow, FromGrows DEF serializePlayer
<1>5. ASSUME NEW F, NEW G, F \subseteq G PROVE Low(high, F) \subseteq Low(high, G)
  BY <1>5 DEF Low
<1>6. sendPlayer(c, z, high, scene) \subseteq sendPlayer(d, y, high, scene)
  <2>1. CASE scene.known \in {"unseen", "noteam", "close"}
    BY <2>1 DEF sendPlayer
  <2>2. CASE scene.known = "nounum"
    BY <2>2, <1>4 DEF sendPlayer, Low
  <2>3. CASE scene.known = "all"
    BY <2>3, <1>3, <1>4 DEF sendPlayer, Low
  <2> QED  BY <2>1, <2>2, <2>3 DEF Knowledge
<1>7. /\ Visual(v, high, scene) = sendPlayer(c, z, high, scene)
                                    \cup sendBall(high, scene) \cup sendLine(high, scene)
      /\ Visual(w, high, scene) = sendPlayer(d, y, high, scene)
                                    \cup sendBall(high, scene) \cup sendLine(high, scene)
  BY Zenon DEF Visual, c, d, z, y
<1> QED  BY <1>6, <1>7, Zenon


\* fullstate.
LEMMA FullStateGrows ==
    ASSUME NEW v \in 1..19, NEW w \in v..19, NEW does
    PROVE  FullState(v, does) \subseteq FullState(w, does)
<1> DEFINE c == getCreator(FullStateClasses, v)    d == getCreator(FullStateClasses, w)
           z == getCreator(PlayerSerializers, v)   y == getCreator(PlayerSerializers, w)
<1>1. c \in Nat /\ d \in Nat /\ c <= d
  BY Classes
<1>2. z \in Nat /\ y \in Nat /\ z <= y
  BY Classes
<1> HIDE DEF c, d, z, y
<1>3. FSBegin(z, does) \subseteq FSBegin(y, does)
  BY <1>2 DEF FSBegin, FSBeginV8, FSBeginV14, From
<1>4. FSStamina(z) \subseteq FSStamina(y)
  BY <1>2 DEF FSStamina, From
<1>5. FSState(z, does) \subseteq FSState(y, does)
  <2>1. From(z, 14, FSStateV14(does)) \subseteq From(y, 14, FSStateV14(does))
    BY <1>2, FromGrows
  <2> QED  BY <1>2, <2>1, VisualActsGrow DEF FSState
<1>6. From(c, 13, FSState(z, does)) \subseteq From(d, 13, FSState(y, does))
  BY <1>1, <1>5, FromGrows
<1>7. /\ From(c, 8, does \cap {"point"}) \subseteq From(d, 8, does \cap {"point"})
      /\ From(c, 18, {"focus_point"}) \subseteq From(d, 18, {"focus_point"})
  BY <1>1, FromGrows
<1>8. FSPlayer(c, z, does) \subseteq FSPlayer(d, y, does)
  BY <1>3, <1>4, <1>6, <1>7, Zenon DEF FSPlayer
<1>9. FSSelf(c, z) \subseteq FSSelf(d, y)
  BY <1>1, <1>2 DEF FSSelf, From
<1> DEFINE All(a, b) == {"pmode", "vmode", "score", "ball"} \cup FSSelf(a, b)
                           \cup FSPlayer(a, b, does)
<1>10. /\ FullState(v, does) = IF c < 5 THEN {} ELSE All(c, z)
       /\ FullState(w, does) = IF d < 5 THEN {} ELSE All(d, y)
  BY Zenon DEF FullState, c, d, z, y
<1>11. All(c, z) \subseteq All(d, y)
  BY <1>8, <1>9, Zenon
<1> HIDE DEF All
<1> QED  BY <1>1, <1>10, <1>11

\* see_global and look.
LEMMA CoachVisualGrows ==
    ASSUME NEW v \in 1..19, NEW w \in v..19, NEW does
    PROVE  /\ GlobalVisual(v, does) \subseteq GlobalVisual(w, does)
           /\ Look(v, does) \subseteq Look(w, does)
<1> DEFINE c == getCreator(CoachVisuals, v)       d == getCreator(CoachVisuals, w)
           z == getCreator(CoachSerializers, v)   y == getCreator(CoachSerializers, w)
<1>1. c \in Nat /\ d \in Nat /\ c <= d
  BY Classes
<1>2. z \in Nat /\ y \in Nat /\ z <= y
  BY Classes
<1> HIDE DEF c, d, z, y
<1>3. From(z, 14, CoachActsV14(does)) \subseteq From(y, 14, CoachActsV14(does))
  BY <1>2, FromGrows
<1> DEFINE Acted(x) == CoachActsV13(does) \cup From(x, 14, CoachActsV14(does))
<1>4. Acted(z) \subseteq Acted(y)
  BY <1>3, Zenon
<1> HIDE DEF Acted
<1>5. From(c, 13, Acted(z)) \subseteq From(d, 13, Acted(y))
  BY <1>1, <1>4, FromGrows
<1>6. \A n \in {8, 13} : From(c, n, CoachObjectV8(does)) \subseteq From(d, n, CoachObjectV8(does))
  BY <1>1, FromGrows
<1>7. CoachPlayer(c, z, does) \subseteq CoachPlayer(d, y, does)
  BY <1>5, <1>6, Zenon DEF CoachPlayer, Acted
<1>8. /\ GlobalVisual(v, does) = {"goals", "ball"} \cup CoachPlayer(c, z, does)
      /\ GlobalVisual(w, does) = {"goals", "ball"} \cup CoachPlayer(d, y, does)
  BY Zenon DEF GlobalVisual, c, d, z, y
<1>9. /\ Look(v, does) = {"goals", "ball"} \cup CoachObjectV1
                            \cup From(c, 13, CoachObjectV8(does))
      /\ Look(w, does) = {"goals", "ball"} \cup CoachObjectV1
                            \cup From(d, 13, CoachObjectV8(does))
  BY Zenon DEF Look, c, d
<1> QED  BY <1>6, <1>7, <1>8, <1>9, Zenon

\* hear.
LEMMA HearsGrows ==
    ASSUME NEW v \in 1..19, NEW w \in v..19, NEW r, NEW from
    PROVE  Hears(r, v, from) \subseteq Hears(r, w, from)
<1> DEFINE c == getCreator(CoachSerializers, v)    d == getCreator(CoachSerializers, w)
           z == getCreator(PlayerSerializers, v)   y == getCreator(PlayerSerializers, w)
<1>1. c \in Nat /\ d \in Nat /\ c <= d
  BY Classes
<1>2. z \in Nat /\ y \in Nat /\ z <= y
  BY Classes
<1> HIDE DEF c, d, z, y
<1>3. /\ From(z, 7, HearV7(from)) \subseteq From(y, 7, HearV7(from))
      /\ From(z, 8, HearV8(from)) \subseteq From(y, 8, HearV8(from))
      /\ From(c, 7, CoachHearsV7(r, from)) \subseteq From(d, 7, CoachHearsV7(r, from))
  BY <1>1, <1>2, FromGrows
<1>4. CASE r = "player"
  <2>1. /\ Hears(r, v, from) = HearV1(from) \cup From(z, 7, HearV7(from))
                                  \cup From(z, 8, HearV8(from))
        /\ Hears(r, w, from) = HearV1(from) \cup From(y, 7, HearV7(from))
                                  \cup From(y, 8, HearV8(from))
    BY <1>4, Zenon DEF Hears, z, y
  <2> QED  BY <1>3, <2>1, Zenon
<1>5. CASE r # "player"
  <2>1. /\ Hears(r, v, from) = CoachHearsV1 \cup From(c, 7, CoachHearsV7(r, from))
        /\ Hears(r, w, from) = CoachHearsV1 \cup From(d, 7, CoachHearsV7(r, from))
    BY <1>5, Zenon DEF Hears, c, d
  <2> QED  BY <1>3, <2>1, Zenon
<1> QED  BY <1>4, <1>5

\* init.
LEMMA InitGrows ==
    ASSUME NEW v \in 1..19, NEW w \in v..19
    PROVE  /\ InitPlayer(v) \subseteq InitPlayer(w)
           /\ InitTrainer(v) \subseteq InitTrainer(w)
           /\ InitOnline(v) \subseteq InitOnline(w)
<1> DEFINE c == getCreator(InitClasses, v)   d == getCreator(InitClasses, w)
           z == getCreator(OnlineInits, v)   y == getCreator(OnlineInits, w)
<1>1. c \in Nat /\ d \in Nat /\ c <= d
  BY Classes
<1>2. z \in Nat /\ y \in Nat /\ z <= y
  BY Classes
<1> HIDE DEF c, d, z, y
<1>3. Params(c) \subseteq Params(d) /\ Params(z) \subseteq Params(y)
  BY <1>1, <1>2 DEF Params, From
<1>4. /\ From(c, 7, {"changed_players"}) \subseteq From(d, 7, {"changed_players"})
      /\ From(z, 6, {"side"}) \subseteq From(y, 6, {"side"})
      /\ From(z, 7, {"changed_players"}) \subseteq From(y, 7, {"changed_players"})
      /\ From(z, 8, {"clang_ver"}) \subseteq From(y, 8, {"clang_ver"})
  BY <1>1, <1>2, FromGrows
<1>5. /\ InitPlayer(v) = {"side", "mode"} \cup Params(c) \cup From(c, 7, {"changed_players"})
      /\ InitPlayer(w) = {"side", "mode"} \cup Params(d) \cup From(d, 7, {"changed_players"})
      /\ InitTrainer(v) = {"ok"} \cup Params(c) /\ InitTrainer(w) = {"ok"} \cup Params(d)
  BY Zenon DEF InitPlayer, InitTrainer, c, d
<1>6. /\ InitOnline(v) = {"ok"} \cup Params(z) \cup From(z, 6, {"side"})
              \cup From(z, 7, {"changed_players"}) \cup From(z, 8, {"clang_ver"})
      /\ InitOnline(w) = {"ok"} \cup Params(y) \cup From(y, 6, {"side"})
              \cup From(y, 7, {"changed_players"}) \cup From(y, 8, {"clang_ver"})
  BY Zenon DEF InitOnline, z, y
<1> QED  BY <1>3, <1>4, <1>5, <1>6, Zenon


Roles == {"player", "online", "trainer"}
MessageKinds ==
    {"sense_body", "see", "fullstate", "score", "see_global", "look", "init"} \cup Voices

\* Of every message, a later version is told more.
LEMMA SaysMore ==
    ASSUME NEW v \in 1..19, NEW w \in v..19, NEW r \in Roles, NEW kind \in MessageKinds,
           NEW high \in BOOLEAN, NEW scene, scene.known \in Knowledge
    PROVE  Says(r, kind, v, high, scene) \subseteq Says(r, kind, w, high, scene)
<1>1. CASE kind = "sense_body"
  <2>1. /\ Says(r, kind, v, high, scene) = SenseBody(v)
        /\ Says(r, kind, w, high, scene) = SenseBody(w)
    BY <1>1, Zenon DEF Says, Voices
  <2>2. SenseBody(v) \subseteq SenseBody(w)
    BY SenseBodyGrows
  <2> QED  BY <2>1, <2>2, Zenon
<1>2. CASE kind = "see"
  <2>1. /\ Says(r, kind, v, high, scene) = Visual(v, high, scene)
        /\ Says(r, kind, w, high, scene) = Visual(w, high, scene)
    BY <1>2, Zenon DEF Says, Voices
  <2>2. Visual(v, high, scene) \subseteq Visual(w, high, scene)
    BY VisualGrows
  <2> QED  BY <2>1, <2>2, Zenon
<1>3. CASE kind = "fullstate"
  <2>1. /\ Says(r, kind, v, high, scene) = FullState(v, scene.does)
        /\ Says(r, kind, w, high, scene) = FullState(w, scene.does)
    BY <1>3, Zenon DEF Says, Voices
  <2>2. FullState(v, scene.does) \subseteq FullState(w, scene.does)
    BY FullStateGrows
  <2> QED  BY <2>1, <2>2, Zenon
<1>4. CASE kind = "score"
  <2>1. /\ Says(r, kind, v, high, scene) = {"score"}
        /\ Says(r, kind, w, high, scene) = {"score"}
    BY <1>4, Zenon DEF Says, Voices
  <2> QED  BY <2>1, Zenon
<1>5. CASE kind = "see_global"
  <2>1. /\ Says(r, kind, v, high, scene) = GlobalVisual(v, scene.does)
        /\ Says(r, kind, w, high, scene) = GlobalVisual(w, scene.does)
    BY <1>5, Zenon DEF Says, Voices
  <2>2. GlobalVisual(v, scene.does) \subseteq GlobalVisual(w, scene.does)
    BY CoachVisualGrows
  <2> QED  BY <2>1, <2>2, Zenon
<1>6. CASE kind = "look"
  <2>1. /\ Says(r, kind, v, high, scene) = Look(v, scene.does)
        /\ Says(r, kind, w, high, scene) = Look(w, scene.does)
    BY <1>6, Zenon DEF Says, Voices
  <2>2. Look(v, scene.does) \subseteq Look(w, scene.does)
    BY CoachVisualGrows
  <2> QED  BY <2>1, <2>2, Zenon
<1>7. CASE kind \in Voices
  <2>1. /\ Says(r, kind, v, high, scene) = Hears(r, v, kind)
        /\ Says(r, kind, w, high, scene) = Hears(r, w, kind)
    BY <1>7, Zenon DEF Says, Voices
  <2>2. Hears(r, v, kind) \subseteq Hears(r, w, kind)
    BY HearsGrows
  <2> QED  BY <2>1, <2>2, Zenon
<1>8. CASE kind = "init" /\ r = "player"
  <2>1. /\ Says(r, kind, v, high, scene) = InitPlayer(v)
        /\ Says(r, kind, w, high, scene) = InitPlayer(w)
    BY <1>8, Zenon DEF Says, Voices
  <2>2. InitPlayer(v) \subseteq InitPlayer(w)
    BY InitGrows
  <2> QED  BY <2>1, <2>2, Zenon
<1>9. CASE kind = "init" /\ r = "online"
  <2>1. /\ Says(r, kind, v, high, scene) = InitOnline(v)
        /\ Says(r, kind, w, high, scene) = InitOnline(w)
    BY <1>9, Zenon DEF Says, Voices
  <2>2. InitOnline(v) \subseteq InitOnline(w)
    BY InitGrows
  <2> QED  BY <2>1, <2>2, Zenon
<1>10. CASE kind = "init" /\ r = "trainer"
  <2>1. /\ Says(r, kind, v, high, scene) = InitTrainer(v)
        /\ Says(r, kind, w, high, scene) = InitTrainer(w)
    BY <1>10, Zenon DEF Says, Voices
  <2>2. InitTrainer(v) \subseteq InitTrainer(w)
    BY InitGrows
  <2> QED  BY <2>1, <2>2, Zenon
<1> QED
  BY <1>1, <1>2, <1>3, <1>4, <1>5, <1>6, <1>7, <1>8, <1>9, <1>10
  DEF MessageKinds, Roles

VersionInv == ver \in 1..19 /\ role \in Roles /\ NewerKnowsMore

\* Every step sends what a later version would be told too.
LEMMA VersionStep == SeeInv /\ VersionInv /\ [SendersNext]_nvars => VersionInv'
<1> SUFFICES ASSUME SeeInv, VersionInv, [SendersNext]_nvars PROVE VersionInv'
  OBVIOUS
<1>a. ver \in 1..19 /\ role \in Roles
  BY DEF VersionInv
<1>h. view.high \in BOOLEAN
  BY DEF SeeInv, IsView
<1>s. NoScene.known \in Knowledge /\ \A scene \in Scenes : scene.known \in Knowledge
  BY DEF NoScene, Scenes, Knowledge
\* A step that sends nothing.
<1>n. ASSUME UNCHANGED <<role, ver>>, last' = Nothing PROVE VersionInv'
  BY <1>a, <1>n DEF VersionInv, NewerKnowsMore, Nothing
\* A step that sends a message; of a fullstate the score is right.
<1>m. ASSUME NEW kind \in MessageKinds, NEW scene, scene.known \in Knowledge,
             NEW score, NEW gap, last' = Message(kind, scene, score, gap),
             UNCHANGED <<role, ver, goals>>,
             kind = "fullstate" /\ ver >= 8 => score = Score
      PROVE  VersionInv'
  <2>1. /\ last'.kind = kind /\ last'.scene = scene /\ last'.score = score
        /\ last'.high = view.high
        /\ last'.says = Says(role, kind, ver, view.high, scene)
    BY <1>m, Zenon DEF Message
  <2>2. \A v \in ver .. 19 : Says(role, kind, ver, view.high, scene)
                               \subseteq Says(role, kind, v, view.high, scene)
    BY <1>a, <1>h, <1>m, SaysMore, Zenon
  <2>3. \A v \in ver' .. 19 :
           last'.says \subseteq Says(role', last'.kind, v, last'.high, last'.scene)
    BY <1>m, <2>1, <2>2, Zenon
  <2>4. Score' = Score
    BY <1>m DEF Score
  <2>5. last'.kind = "fullstate" /\ ver' >= 8 => last'.score = Score'
    BY <1>m, <2>1, <2>4, Zenon
  <2>6. NewerKnowsMore'
    BY <2>3, <2>5, Zenon DEF NewerKnowsMore
  <2> QED  BY <1>a, <1>m, <2>6 DEF VersionInv
<1>d. ASSUME NEW kind \in MessageKinds, NEW scene, scene.known \in Knowledge,
             NEW score, Send(Message(kind, scene, score, 0)),
             kind = "fullstate" /\ ver >= 8 => score = Score
      PROVE  VersionInv'
  BY <1>d, <1>m, Zenon DEF Send
<1>k. {"sense_body", "see", "fullstate", "score", "see_global", "look", "init"}
         \subseteq MessageKinds /\ Voices \subseteq MessageKinds
  BY DEF MessageKinds
<1>1. CASE Join
  BY <1>1, <1>k, <1>m, <1>s, Zenon DEF Join
<1>2. CASE Leave
  BY <1>2, <1>n DEF Leave
<1>3. ASSUME NEW w \in Widths, NEW high \in BOOLEAN, change_view(w, high)
      PROVE  VersionInv'
  BY <1>3, <1>n, Zenon DEF change_view, Turns
<1>4. CASE synch_see \/ gaussian_see
  BY <1>4, <1>n, Zenon DEF synch_see, gaussian_see, Turns
<1>5. ASSUME NEW scene \in Scenes, sendVisual(scene) PROVE VersionInv'
  <2>1. UNCHANGED <<role, ver, goals>>
    BY <1>5 DEF sendVisual
  <2>2. last' = Nothing \/ \E gap : last' = Message("see", scene, <<>>, gap)
    BY <1>5, Zenon DEF sendVisual
  <2>3. "see" \in MessageKinds /\ scene.known \in Knowledge /\ "see" # "fullstate"
    BY <1>k, <1>s
  <2> QED  BY <1>m, <1>n, <2>1, <2>2, <2>3, Zenon
<1>6. CASE sendBody
  BY <1>6, <1>d, <1>k, <1>s, Zenon DEF sendBody
<1>7. CASE sendScore
  BY <1>7, <1>d, <1>k, <1>s, Zenon DEF sendScore
<1>8. ASSUME NEW from \in Voices, sendAudio(from) PROVE VersionInv'
  <2>1. from # "fullstate"
    BY DEF Voices
  <2> QED  BY <1>8, <1>d, <1>k, <1>s, <2>1, Zenon DEF sendAudio
<1>9. ASSUME NEW scene \in Scenes, send_visual_info(scene) \/ look(scene)
      PROVE  VersionInv'
  BY <1>9, <1>d, <1>k, <1>s, Zenon DEF send_visual_info, look
<1>10. ASSUME NEW scene \in Scenes, sendFullState(scene) PROVE VersionInv'
  <2>1. ASSUME ver >= 8 PROVE FSScore(ver) = Score
    <3>1. FullStateClasses \in SUBSET Nat /\ 1 \in FullStateClasses /\ 8 \in FullStateClasses
      BY DEF FullStateClasses
    <3>2. 8 <= getCreator(FullStateClasses, ver) /\ getCreator(FullStateClasses, ver) \in Nat
      BY <1>a, <2>1, <3>1, Creator
    <3> DEFINE class == getCreator(FullStateClasses, ver)
    <3>3. class >= 8
      BY <3>2
    <3> QED  BY <3>3, Zenon DEF FSScore, FSScoreV8, Score
  <2> QED  BY <1>10, <1>d, <1>k, <1>s, <2>1, Zenon DEF sendFullState
<1>11. CASE UNCHANGED nvars
  <2>1. UNCHANGED <<role, ver, goals, last>>
    BY <1>11 DEF nvars
  <2> QED  BY <2>1, Zenon DEF VersionInv, NewerKnowsMore, Score
<1> QED
  BY <1>1, <1>2, <1>3, <1>4, <1>5, <1>6, <1>7, <1>8, <1>9, <1>10, <1>11
  DEF SendersNext

\* A later protocol version is told, in every message and every situation,
\* everything an earlier one is told; and from version 8 on the fullstate tells
\* the score that (score) tells.
THEOREM NewerKnowsMoreHolds == SendersSpec => []NewerKnowsMore
<1>1. SendersInit => SeeInv /\ VersionInv
  <2> SUFFICES ASSUME SendersInit PROVE SeeInv /\ VersionInv
    OBVIOUS
  <2>1. ver \in 1..19 /\ role \in Roles /\ last = Nothing
    BY SendersAssumption DEF SendersInit, Roles
  <2>2. NewerKnowsMore
    BY <2>1 DEF NewerKnowsMore, Nothing
  <2> QED  BY <2>1, <2>2, SeeInit DEF VersionInv
<1>2. VersionInv => NewerKnowsMore
  BY DEF VersionInv
<1> QED  BY <1>1, <1>2, SeeStep, VersionStep, PTL DEF SendersSpec
=============================================================================
