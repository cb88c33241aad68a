------------------------- MODULE RefereeMemoryProofs -------------------------
(***************************************************************************)
(* Proofs about what the field referees remember of the players and sides  *)
(* that played the ball, against what really happened to it.               *)
(*                                                                         *)
(* Each of OffsideRef, TouchRef, CatchRef and IllegalDefenseRef keeps a    *)
(* memory of its own, with a test of its own for "in this cycle" and its   *)
(* own reasons to forget.  The invariant relates each of them to the       *)
(* history of the ball.                                                    *)
(***************************************************************************)
EXTENDS SetPlayProofs

------------------------------------------------------------------------------
(* The invariant.                                                           *)

\* As long as OffsideRef knows the last kicker's side, its candidates are
\* team-mates of the player that played the ball last, and he did not play it in
\* a mode without offside.
CandidatesKnown(s, h) ==
    /\ ~ UseOffside => s.cands = {}
    /\ s.kicker # Neutral => s.cands \subseteq Mates(h.last) /\ (s.cands = {} \/ ~ h.free)

\* A call that TouchRef makes after a player's touch was noted.
CalledFirst == {"OffSide", "Free_Kick_Fault"}

\* The side that TouchRef remembers played the ball in the last cycle with a play.
\* A hard kick of an earlier cycle may overrule a touch only where the clock
\* stands, and then no side is remembered.
TouchKnown(s, h) ==
    /\ s.mode.kind \notin CalledFirst =>
          /\ s.touch \in h.sides \cup {Neutral}
          /\ s.strength = "hard" /\ (~ h.now \/ ~ IsLive(s.mode)) => s.touch = Neutral
    /\ s.mode.kind = "AfterGoal" => s.touch = Neutral

\* The side of the last back passer is the only one that kicked the ball in the
\* last cycle with a kick; CatchRef has noted all sides that kicked in this one.
PasserKnown(s, h) ==
    /\ s.passer # NoOne => h.kickSides = {Side(s.passer)}
    /\ h.kickNow => h.kickSides \subseteq s.touched

\* Nobody but the attacker kicked the ball in the last cycle with a kick.
AttackerKnown(s, h) ==
    UseIllegalDefense =>
        /\ h.kickNow => s.attackNow
        /\ s.attacker # Neutral => h.kickSides \subseteq {s.attacker}

Memory(s, h) ==
    CandidatesKnown(s, h) /\ TouchKnown(s, h) /\ PasserKnown(s, h) /\ AttackerKnown(s, h)

------------------------------------------------------------------------------
(* What the referees note when p plays the ball.                            *)

OffsideNoted(s, t, p, marked) ==
    /\ ~ UseOffside => t.cands \subseteq s.cands
    /\ UseOffside /\ t.kicker # Neutral =>
          t.cands = {} \/ (t.cands = marked /\ s.mode.kind \notin NoOffsideKinds)
    /\ t.mode.kind = "OffSide" => s.mode.kind = "OffSide" \/ p \in s.cands

\* A touch counts for TouchRef if nobody kicked the ball hard in this cycle, a
\* kick also if it is the hardest.
TouchNoted(s, t, p, power) ==
    /\ t.mode.kind = "AfterGoal" => s.mode.kind = "AfterGoal" /\ t.touch \in {s.touch, Neutral}
    /\ t.mode.kind # "AfterGoal" =>
          IF s.strength = "hard" /\ power # "most"
          THEN t.strength = "hard" /\ t.touch \in {s.touch, Neutral}
          ELSE t.touch = Side(p) /\ (power = "none" => t.strength = "soft")

PassNoted(s, t, p, kicked) ==
    /\ t.touched = s.touched \cup {Side(p)}
    /\ t.passer # NoOne => t.touched # Sides /\ t.passer = IF kicked THEN p ELSE s.passer

DefenseNoted(s, t, p, kicked) ==
    IF kicked /\ UseIllegalDefense
    THEN /\ t.attackNow /\ t.attacker \in {Neutral, Side(p)}
         /\ s.attackNow /\ t.attacker # Neutral => s.attacker = t.attacker
    ELSE SameDefense(s, t)

\* What a change of the play mode leaves of the memories.
Kept(s, t) ==
    /\ t.cands \in {s.cands, {}} /\ t.kicker = s.kicker
    /\ t.touch \in {s.touch, Neutral} /\ t.strength = s.strength
    /\ t.touched = s.touched /\ t.passer \in {s.passer, NoOne} /\ SameDefense(s, t)

LEMMA OffsideNotes ==
    ASSUME NEW s \in State, NEW p \in Players, NEW hard \in BOOLEAN, NEW marked \in SUBSET Players
    PROVE  LET t == setOffsideMark(s, p, hard, marked) IN
           /\ t \in State /\ OffsideNoted(s, t, p, marked) /\ OffsideOutcome(s, t)
<1> DEFINE x == IF hard THEN Side(p) ELSE s.kicker
           u == [s EXCEPT !.kickNow = TRUE, !.kicker = x]
           t == setOffsideMark(s, p, hard, marked)
           m == IF u.mode.kind \in NoOffsideKinds THEN {} ELSE marked
<1>0. /\ x \in Sides \cup {Neutral} /\ m \in SUBSET Players
      /\ t \in State /\ OffsideOutcome(s, t)
  BY PlayerSides, Fields, OffsideMark DEF OffsideOutcome
<1> HIDE DEF x
<1>1. CASE ~ UseOffside
  <2>1. t = s
    BY <1>1 DEF setOffsideMark
  <2>2. OffsideNoted(s, t, p, marked)
    BY <1>1, <2>1 DEF OffsideNoted
  <2> QED  BY <1>0, <2>2
<1>2. CASE UseOffside /\ s.kickNow
  <2>1. t = [s EXCEPT !.kicker = Neutral, !.cands = {}]
    BY <1>2 DEF setOffsideMark
  <2>2. t.kicker = Neutral /\ t.mode = s.mode
    BY <2>1, ForgetOffside DEF ButOffside, SamePlay
  <2> HIDE DEF t
  <2>3. OffsideNoted(s, t, p, marked)
    BY <1>2, <2>2 DEF OffsideNoted
  <2> QED  BY <1>0, <2>3 DEF t
<1>3. CASE UseOffside /\ ~ s.kickNow
  <2>1. t = IF p \in u.cands THEN callOffside(u) ELSE [u EXCEPT !.cands = m]
    BY <1>3 DEF setOffsideMark, x
  <2>2. u \in State /\ u.kicker = x /\ u.mode = s.mode /\ u.cands = s.cands
    BY <1>0, KickerUpdate DEF ButOffside, SamePlay
  <2>3. m = IF s.mode.kind \in NoOffsideKinds THEN {} ELSE marked
    BY <2>2
  <2> HIDE DEF u, m
  <2>4. CASE p \in u.cands
    <3>1. t = callOffside(u)
      BY <2>1, <2>4
    <3>2. \/ u.kicker = Neutral /\ t = u
          \/ u.kicker \in Sides /\ CalledAs(u, t, PM("OffSide", u.kicker))
      BY <3>1, <2>2, OffsideCall
    <3> HIDE DEF t
    <3>3. OffsideNoted(s, t, p, marked)
      <4>1. CASE u.kicker = Neutral /\ t = u
        BY <1>3, <2>2, <2>4, <4>1 DEF OffsideNoted
      <4>2. CASE u.kicker \in Sides /\ CalledAs(u, t, PM("OffSide", u.kicker))
        <5>1. PM("OffSide", u.kicker) # PlayOn
          BY <4>2, SidedMode DEF SidedKinds, FaultKinds
        <5>2. t.cands = {}
          BY <4>2, <5>1 DEF CalledAs, ChangedTo
        <5> QED  BY <1>3, <2>2, <2>4, <5>2 DEF OffsideNoted
      <4> QED  BY <3>2, <4>1, <4>2
    <3> QED  BY <1>0, <3>3 DEF t
  <2>5. CASE p \notin u.cands
    <3>1. t = [u EXCEPT !.cands = m]
      BY <2>1, <2>5
    <3>2. t.cands = m /\ t.mode = s.mode
      BY <1>0, <2>2, <3>1, MarkUpdate DEF ButOffside, SamePlay
    <3> HIDE DEF t
    <3>3. OffsideNoted(s, t, p, marked)
      BY <1>3, <2>3, <3>2 DEF OffsideNoted
    <3> QED  BY <1>0, <3>3 DEF t
  <2> QED  BY <2>4, <2>5
<1> QED  BY <1>1, <1>2, <1>3

\* A change of the play mode keeps each memory, or has it forgotten.
LEMMA ChangeKeeps ==
    ASSUME NEW s, NEW t, NEW pm, ChangedTo(s, t, pm), t.kicker = s.kicker
    PROVE  Kept(s, t) /\ t.mode = pm /\ (pm # PlayOn => t.touch = Neutral)
BY DEF ChangedTo, Kept

LEMMA SameKeeps ==
    ASSUME NEW s, NEW t, t.cands = s.cands, t.kicker = s.kicker, SameTouch(s, t),
           SameCatch(s, t), SameDefense(s, t)
    PROVE  Kept(s, t)
BY DEF SameTouch, SameCatch, Kept

\* FreeKickRef comes before TouchRef and CatchRef.
LEMMA FreeKickKeeps ==
    ASSUME NEW s \in State, NEW t \in State, NEW p \in Players,
           FreeKickOutcome(s, t, p) \/ PutsInPlay(s, t)
    PROVE  /\ Kept(s, t)
           /\ t.mode.kind \in {"OffSide", "AfterGoal"} => t.mode.kind = s.mode.kind
<1>1. CASE ButTaker(s, t)
  BY <1>1, SameKeeps DEF ButTaker, SamePlay, SameOffside, SameKicker
<1>2. CASE s.mode.kind = "GoalKick" /\ CalledAs(s, t, s.mode) /\ SameKicker(s, t)
  BY <1>2, ChangeKeeps DEF CalledAs, SameKicker
<1>3. CASE CalledAs(s, t, PM("Free_Kick_Fault", Side(p))) /\ SameKicker(s, t)
  BY <1>3, ChangeKeeps, FaultKind DEF CalledAs, SameKicker
<1>4. CASE PutsInPlay(s, t)
  BY <1>4, SameKeeps, NeutralModes DEF PutsInPlay, SameOffside, SameKicker
<1> QED  BY <1>1, <1>2, <1>3, <1>4 DEF FreeKickOutcome

\* CatchRef notes who touched the ball in this cycle, ...
LEMMA CatchTouchNotes ==
    ASSUME NEW s \in State, NEW p \in Players
    PROVE  PassNoted(s, CatchTouch(s, p), p, FALSE)
<1> DEFINE both == s.touched \cup {Side(p)} = Sides
           z == s.touched \cup {Side(p)}
           a == IF both THEN NoOne ELSE s.passer
           b == IF both THEN NoOne ELSE s.passer2
           t == [s EXCEPT !.touched = z, !.passer = a, !.passer2 = b]
<1>1. t = CatchTouch(s, p)
  BY DEF CatchTouch
<1>2. t.touched = z /\ t.passer = a
  BY DEF State
<1> HIDE DEF t
<1> QED  BY <1>1, <1>2 DEF PassNoted

\* ... and who kicked it.
LEMMA CatchKickNotes ==
    ASSUME NEW s \in State, NEW p \in Players
    PROVE  PassNoted(s, CatchKick(s, p), p, TRUE)
<1> DEFINE u == CatchTouch(s, p)
           b == IF u.passer = p THEN u.passer2 ELSE u.passer
           t == [u EXCEPT !.passNow = TRUE, !.passer2 = b, !.passer = p]
<1>1. u \in State /\ PassNoted(s, u, p, FALSE)
  BY CatchTouchResult, CatchTouchNotes
<1>2. CatchKick(s, p) = IF u.touched = Sides THEN u ELSE t
  BY DEF CatchKick
<1> HIDE DEF u, b
<1>3. t.touched = u.touched /\ t.passer = p
  BY <1>1 DEF State
<1> HIDE DEF t
<1> QED  BY <1>1, <1>2, <1>3 DEF PassNoted

LEMMA DefenseNotes ==
    ASSUME NEW s \in State, NEW p \in Players
    PROVE  DefenseNoted(s, IllegalDefenseKick(s, p), p, TRUE)
<1> DEFINE u == [s EXCEPT !.attacker = Neutral]
           t == [s EXCEPT !.attackNow = TRUE, !.attacker = Side(p)]
<1>1. IllegalDefenseKick(s, p) = IF ~ UseIllegalDefense THEN s
                                 ELSE IF s.attackNow /\ Side(p) # s.attacker THEN u ELSE t
  BY DEF IllegalDefenseKick
<1>2. u.attackNow = s.attackNow /\ u.attacker = Neutral
  BY DEF State
<1>3. t.attackNow = TRUE /\ t.attacker = Side(p)
  BY DEF State
<1> HIDE DEF u, t
<1> QED  BY <1>1, <1>2, <1>3 DEF DefenseNoted, SameDefense

\* TouchRef comes after the referees that may call an offence of p.
LEMMA TouchNotes ==
    ASSUME NEW s \in State, NEW b \in State, NEW p \in Players, NEW power \in {"none", "less", "most"},
           b.strength = s.strength, b.touch \in {s.touch, Neutral},
           b.mode.kind = "AfterGoal" => s.mode.kind = "AfterGoal"
    PROVE  TouchNoted(s, TouchTouch(b, p, power), p, power)
<1> DEFINE t == TouchTouch(b, p, power)
<1>1. /\ t \in State /\ ButTouch(b, t)
      /\ b.mode.kind # "AfterGoal" =>
           /\ t.touch = (IF b.strength # "hard" \/ power = "most" THEN Side(p) ELSE b.touch)
           /\ t.strength = (IF ~ (b.strength # "hard" \/ power = "most") THEN b.strength
                            ELSE IF power = "none" THEN "soft" ELSE "hard")
  BY TouchResult
<1>2. b.mode.kind = "AfterGoal" => t = b
  BY DEF TouchTouch
<1> HIDE DEF t
<1>3. t.mode = b.mode
  BY <1>1 DEF ButTouch, SamePlay
<1>4. CASE b.mode.kind = "AfterGoal"
  BY <1>2, <1>4 DEF TouchNoted, t
<1>5. CASE b.mode.kind # "AfterGoal"
  BY <1>1, <1>3, <1>5 DEF TouchNoted, t
<1> QED  BY <1>4, <1>5

\* OffsideRef and FreeKickRef together, which come first.
LEMMA FirstTwo ==
    ASSUME NEW s \in State, NEW a \in State, NEW b \in State, NEW p \in Players,
           NEW marked, OffsideNoted(s, a, p, marked), OffsideOutcome(s, a),
           FreeKickOutcome(a, b, p) \/ PutsInPlay(a, b)
    PROVE  /\ OffsideNoted(s, b, p, marked)
           /\ b.touch \in {s.touch, Neutral} /\ b.strength = s.strength
           /\ b.touched = s.touched /\ b.passer \in {s.passer, NoOne} /\ SameDefense(s, b)
           /\ b.mode.kind = "AfterGoal" => s.mode.kind = "AfterGoal"
<1>1. /\ Kept(a, b)
      /\ b.mode.kind \in {"OffSide", "AfterGoal"} => b.mode.kind = a.mode.kind
  BY FreeKickKeeps
<1>2. /\ a.touch \in {s.touch, Neutral} /\ a.strength = s.strength
      /\ a.touched = s.touched /\ a.passer \in {s.passer, NoOne} /\ SameDefense(s, a)
      /\ a.mode.kind = "AfterGoal" => s.mode.kind = "AfterGoal"
  <2>1. CASE ButOffside(s, a)
    BY <2>1 DEF ButOffside, SamePlay, SameTouch, SameCatch
  <2>2. CASE a.kicker \in Sides /\ CalledAs(s, a, PM("OffSide", a.kicker))
    <3>1. PM("OffSide", a.kicker).kind = "OffSide"
      BY <2>2, SidedMode DEF SidedKinds, FaultKinds
    <3> QED  BY <2>2, <3>1 DEF CalledAs, ChangedTo
  <2> QED  BY <2>1, <2>2 DEF OffsideOutcome
<1>3. OffsideNoted(s, b, p, marked)
  BY <1>1 DEF OffsideNoted, Kept
<1> QED  BY <1>1, <1>2, <1>3 DEF Kept, SameDefense

\* All referees, in turn.
Noted(s, t, p, marked, power, kicked) ==
    /\ OffsideNoted(s, t, p, marked) /\ TouchNoted(s, t, p, power)
    /\ PassNoted(s, t, p, kicked) /\ DefenseNoted(s, t, p, kicked)

LEMMA TouchedNotes ==
    ASSUME NEW s \in State, NEW p \in Players, NEW marked \in SUBSET Players
    PROVE  Noted(s, ballTouched(s, p, marked), p, marked, "none", FALSE)
<1> DEFINE a == setOffsideMark(s, p, FALSE, marked)
           b == FreeKickTouch(a, p)
           c == TouchTouch(b, p, "none")
           u == CatchTouch(c, p)
           m == u.moving \/ u.mode = PlayOn
           t == [u EXCEPT !.moving = m]
<1>1. a \in State /\ OffsideNoted(s, a, p, marked) /\ OffsideOutcome(s, a)
  BY OffsideNotes
<1>2. t = ballTouched(s, p, marked)
  BY DEF ballTouched
<1> HIDE DEF a
<1>3. b \in State /\ FreeKickOutcome(a, b, p)
  BY <1>1, TouchedResult
<1> HIDE DEF b
<1>4. /\ OffsideNoted(s, b, p, marked)
      /\ b.touch \in {s.touch, Neutral} /\ b.strength = s.strength
      /\ b.touched = s.touched /\ b.passer \in {s.passer, NoOne} /\ SameDefense(s, b)
      /\ b.mode.kind = "AfterGoal" => s.mode.kind = "AfterGoal"
  BY <1>1, <1>3, FirstTwo
<1>5. c \in State /\ ButTouch(b, c) /\ TouchNoted(s, c, p, "none")
  BY <1>3, <1>4, TouchResult, TouchNotes
<1> HIDE DEF c
<1>6. u \in State /\ ButCatch(c, u) /\ PassNoted(c, u, p, FALSE)
  BY <1>5, CatchTouchResult, CatchTouchNotes
<1> HIDE DEF u
<1>7. m \in BOOLEAN
  BY <1>6, Fields
<1> HIDE DEF m
<1>8. /\ t \in State /\ t.mode = u.mode /\ SameOffside(u, t) /\ SameTouch(u, t)
      /\ SameCatch(u, t) /\ SameDefense(u, t)
  BY <1>6, <1>7, MoveUpdate
<1> HIDE DEF t
<1>9. OffsideNoted(s, t, p, marked)
  BY <1>4, <1>5, <1>6, <1>8 DEF OffsideNoted, ButTouch, ButCatch, SamePlay, SameOffside, SameKicker
<1>10. TouchNoted(s, t, p, "none")
  BY <1>5, <1>6, <1>8 DEF TouchNoted, ButCatch, SamePlay, SameTouch
<1>11. PassNoted(s, t, p, FALSE)
  BY <1>4, <1>5, <1>6, <1>8 DEF PassNoted, ButTouch, SameCatch
<1>12. DefenseNoted(s, t, p, FALSE)
  <2>1. SameDefense(s, t)
    BY <1>4, <1>5, <1>6, <1>8 DEF ButTouch, ButCatch, SameDefense
  <2> QED  BY <2>1 DEF DefenseNoted
<1> QED  BY <1>2, <1>9, <1>10, <1>11, <1>12 DEF Noted

LEMMA KickedNotes ==
    ASSUME NEW s \in State, NEW p \in Players, NEW marked \in SUBSET Players,
           NEW power \in {"none", "less", "most"}
    PROVE  Noted(s, kickTaken(s, p, power, marked), p, marked, power, TRUE)
<1> DEFINE m == s.moving \/ power # "none"
           r == [s EXCEPT !.catcher = NoOne]
           u == [r EXCEPT !.moving = m]
           hard == (power = "most")
           a == setOffsideMark(u, p, hard, marked)
           b == FreeKickKick(a, p)
           c == TouchTouch(b, p, power)
           d == CatchKick(c, p)
           t == IllegalDefenseKick(d, p)
<1>0. m \in BOOLEAN /\ hard \in BOOLEAN
  BY Fields
<1>1. r \in State /\ r.mode = s.mode /\ r.moving = s.moving
      /\ SameOffside(s, r) /\ SameTouch(s, r) /\ SameCatch(s, r) /\ SameDefense(s, r)
  BY HoldUpdate
<1>2. t = kickTaken(s, p, power, marked)
  BY <1>1 DEF kickTaken
<1> HIDE DEF r, m
<1>3. u \in State /\ u.mode = r.mode
      /\ SameOffside(r, u) /\ SameTouch(r, u) /\ SameCatch(r, u) /\ SameDefense(r, u)
  BY <1>0, <1>1, MoveUpdate
<1> HIDE DEF u, hard
<1>4. a \in State /\ OffsideNoted(u, a, p, marked) /\ OffsideOutcome(u, a)
  BY <1>0, <1>3, OffsideNotes
<1> HIDE DEF a
<1>5. b \in State /\ (FreeKickOutcome(a, b, p) \/ PutsInPlay(a, b))
  BY <1>4, KickResult
<1> HIDE DEF b
<1>6. /\ OffsideNoted(u, b, p, marked)
      /\ b.touch \in {u.touch, Neutral} /\ b.strength = u.strength
      /\ b.touched = u.touched /\ b.passer \in {u.passer, NoOne} /\ SameDefense(u, b)
      /\ b.mode.kind = "AfterGoal" => u.mode.kind = "AfterGoal"
  BY <1>3, <1>4, <1>5, FirstTwo
<1>7. c \in State /\ ButTouch(b, c) /\ TouchNoted(u, c, p, power)
  <2>1. c \in State /\ ButTouch(b, c)
    BY <1>5, TouchResult
  <2>2. TouchNoted(u, c, p, power)
    BY <1>3, <1>5, <1>6, TouchNotes
  <2> QED  BY <2>1, <2>2
<1> HIDE DEF c
<1>8. d \in State /\ ButCatch(c, d) /\ PassNoted(c, d, p, TRUE)
  BY <1>7, CatchKickResult, CatchKickNotes
<1> HIDE DEF d
<1>9. t \in State /\ ButDefense(d, t) /\ DefenseNoted(d, t, p, TRUE)
  BY <1>8, DefenseKickResult, DefenseNotes
<1> HIDE DEF t
<1>10. OffsideNoted(s, t, p, marked)
  <2>1. OffsideNoted(s, b, p, marked)
    BY <1>1, <1>3, <1>6 DEF OffsideNoted, SameOffside
  <2> QED
    BY <2>1, <1>7, <1>8, <1>9
    DEF OffsideNoted, ButTouch, ButCatch, ButDefense, SamePlay, SameOffside, SameKicker
<1>11. TouchNoted(s, t, p, power)
  <2>1. TouchNoted(s, c, p, power)
    BY <1>1, <1>3, <1>7 DEF TouchNoted, SameTouch
  <2> QED
    BY <2>1, <1>8, <1>9 DEF TouchNoted, ButCatch, ButDefense, SamePlay, SameTouch
<1>12. PassNoted(s, t, p, TRUE)
  <2>1. c.touched = s.touched
    BY <1>1, <1>3, <1>6, <1>7 DEF ButTouch, SameCatch
  <2> QED  BY <2>1, <1>8, <1>9 DEF PassNoted, ButDefense, SameCatch
<1>13. DefenseNoted(s, t, p, TRUE)
  <2>1. SameDefense(s, d)
    BY <1>1, <1>3, <1>6, <1>7, <1>8 DEF ButTouch, ButCatch, SameDefense
  <2> QED  BY <2>1, <1>9 DEF DefenseNoted, SameDefense
<1> QED  BY <1>2, <1>10, <1>11, <1>12, <1>13 DEF Noted

------------------------------------------------------------------------------
(* A play of the ball keeps the memories in line with the history.          *)

\* What Play records of a play by p.
Recorded(h, g, p, kicked, free) ==
    /\ g.last = p /\ (g.free <=> free) /\ g.now
    /\ g.sides = (IF h.now THEN h.sides ELSE {}) \cup {Side(p)}
    /\ g.kickSides = IF kicked THEN (IF h.kickNow THEN h.kickSides ELSE {}) \cup {Side(p)}
                     ELSE h.kickSides
    /\ g.kickNow <=> h.kickNow \/ kicked

LEMMA PlayRecords ==
    ASSUME NEW h \in History, NEW p \in Players, NEW kicked \in BOOLEAN
    PROVE  /\ Play(h, p, kicked) \in History
           /\ Recorded(h, Play(h, p, kicked), p, kicked, st.mode.kind \in NoOffsideKinds)
<1>0. Play(h, p, kicked) \in History
  BY PlayResult
<1>1. PICK f \in BOOLEAN : f <=> (st.mode.kind \in NoOffsideKinds)
  OBVIOUS
<1>2. PICK sides : sides = If(h.now, h.sides) \cup {Side(p)}
  OBVIOUS
<1>3. PICK kickSides :
        kickSides = IF kicked THEN If(h.kickNow, h.kickSides) \cup {Side(p)} ELSE h.kickSides
  OBVIOUS
<1>4. PICK k \in BOOLEAN : k = (h.kickNow \/ kicked)
  OBVIOUS
<1>5. PICK o : o = (h.open /\ ~ Closed /\ h.first \in {NoOne, p})
  OBVIOUS
<1>6. PICK first : first = IF h.open /\ ~ Closed THEN p ELSE NoOne
  OBVIOUS
<1>7. PICK n : n = IF st'.mode = st.mode THEN h.waited ELSE 0
  OBVIOUS
<1> DEFINE g == [h EXCEPT !.last = p, !.free = f, !.sides = sides, !.now = TRUE,
                          !.kickSides = kickSides, !.kickNow = k, !.open = o,
                          !.first = first, !.waited = n]
<1>8. Play(h, p, kicked) = g
  BY <1>1, <1>2, <1>3, <1>4, <1>5, <1>6, <1>7 DEF Play, History
<1>9. g.last = p /\ g.free = f /\ g.now = TRUE /\ g.sides = sides
  BY DEF History
<1>10. g.kickSides = kickSides /\ g.kickNow = k
  BY DEF History
<1> HIDE DEF g
<1> QED  BY <1>0, <1>1, <1>2, <1>3, <1>4, <1>8, <1>9, <1>10 DEF Recorded, If

LEMMA MarksAreMates ==
    ASSUME NEW p, NEW marked \in Marks(p)
    PROVE  marked \subseteq Mates(p) /\ (~ UseOffside => marked = {})
BY DEF Marks

\* The mode after a play, unless an offence was called before TouchRef's turn: it
\* is the same, or play is on; a kick leaves play on or the goal kick waiting.
ModePlayed(s, t, kicked) ==
    t.mode.kind \notin CalledFirst =>
        /\ t.mode = s.mode \/ (t.mode = PlayOn /\ s.mode.kind \notin CalledFirst)
        /\ kicked => IsLive(t.mode)

LEMMA PlayKeepsMemory ==
    ASSUME NEW s \in State, NEW t \in State, NEW h \in History, NEW g, NEW p \in Players,
           NEW kicked \in BOOLEAN, NEW power \in {"none", "less", "most"},
           NEW marked \in SUBSET Mates(p), Memory(s, h),
           Noted(s, t, p, marked, power, kicked), ModePlayed(s, t, kicked),
           Recorded(h, g, p, kicked, s.mode.kind \in NoOffsideKinds),
           ~ kicked => power = "none"
    PROVE  Memory(t, g)
<1>0. /\ Side(p) \in Sides /\ p # NoOne /\ Neutral \notin Sides /\ PlayOn.kind = "PlayOn"
      /\ s.touched \subseteq Sides /\ h.kickSides \subseteq Sides /\ h.sides \subseteq Sides
      /\ IsLive(PlayOn) /\ s.attacker \in Sides \cup {Neutral} /\ UseOffside \in BOOLEAN
  BY PlayerSides, Opponents, NeutralModes, Fields, HistoryFields, Constants DEF IsLive
<1>1. CandidatesKnown(t, g)
  <2>1. CASE UseOffside
    BY <2>1 DEF Memory, CandidatesKnown, Noted, OffsideNoted, Recorded
  <2>2. CASE ~ UseOffside
    BY <2>2 DEF Memory, CandidatesKnown, Noted, OffsideNoted
  <2> QED  BY <2>1, <2>2
<1>2. TouchKnown(t, g)
  <2>1. t.mode.kind = "AfterGoal" => t.touch = Neutral
    BY DEF Memory, TouchKnown, Noted, TouchNoted
  <2>2. SUFFICES ASSUME t.mode.kind \notin CalledFirst
                 PROVE  /\ t.touch \in g.sides \cup {Neutral}
                        /\ t.strength = "hard" /\ ~ IsLive(t.mode) => t.touch = Neutral
    BY <2>1 DEF TouchKnown, Recorded
  <2>3. CASE t.mode.kind = "AfterGoal"
    BY <2>1, <2>3
  <2>4. CASE t.mode.kind # "AfterGoal" /\ ~ (s.strength = "hard" /\ power # "most")
    <3>1. t.touch = Side(p) /\ (power = "none" => t.strength = "soft")
      BY <2>4 DEF Noted, TouchNoted
    <3>2. ~ IsLive(t.mode) => power = "none"
      BY <2>2 DEF ModePlayed
    <3> QED  BY <3>1, <3>2 DEF Recorded
  <2>5. CASE t.mode.kind # "AfterGoal" /\ s.strength = "hard" /\ power # "most"
    <3>1. t.touch \in {s.touch, Neutral} /\ s.mode.kind \notin CalledFirst
      BY <2>2, <2>5 DEF Noted, TouchNoted, ModePlayed
    <3>2. /\ s.touch \in h.sides \cup {Neutral}
          /\ ~ h.now \/ ~ IsLive(s.mode) => s.touch = Neutral
      BY <2>5, <3>1 DEF Memory, TouchKnown
    <3>3. ~ IsLive(t.mode) => t.mode = s.mode
      BY <1>0, <2>2 DEF ModePlayed
    <3> QED  BY <3>1, <3>2, <3>3 DEF Recorded
  <2> QED  BY <2>3, <2>4, <2>5
<1>3. PasserKnown(t, g)
  <2>1. t.touched = s.touched \cup {Side(p)}
    BY DEF Noted, PassNoted
  <2>2. g.kickNow => g.kickSides \subseteq t.touched
    BY <2>1 DEF Memory, PasserKnown, Recorded
  <2>3. ASSUME t.passer # NoOne PROVE g.kickSides = {Side(t.passer)}
    <3>1. t.touched # Sides /\ t.passer = IF kicked THEN p ELSE s.passer
      BY <2>3 DEF Noted, PassNoted
    <3>2. CASE kicked
      <4>1. t.touched = {Side(p)} /\ t.passer = p
        BY <1>0, <2>1, <3>1, <3>2 DEF Sides
      <4> QED  BY <2>2, <3>2, <4>1 DEF Recorded
    <3>3. CASE ~ kicked
      BY <2>3, <3>1, <3>3 DEF Memory, PasserKnown, Recorded
    <3> QED  BY <3>2, <3>3
  <2> QED  BY <2>2, <2>3 DEF PasserKnown
<1>4. AttackerKnown(t, g)
  <2>0. SUFFICES ASSUME UseIllegalDefense
                 PROVE  /\ g.kickNow => t.attackNow
                        /\ t.attacker # Neutral => g.kickSides \subseteq {t.attacker}
    BY DEF AttackerKnown
  <2>1. CASE kicked
    <3>1. /\ t.attackNow /\ t.attacker \in {Neutral, Side(p)}
          /\ s.attackNow /\ t.attacker # Neutral => s.attacker = t.attacker
      BY <2>0, <2>1 DEF Noted, DefenseNoted
    <3> QED  BY <2>0, <2>1, <3>1 DEF Memory, AttackerKnown, Recorded
  <2>2. CASE ~ kicked
    <3>1. SameDefense(s, t)
      BY <2>2 DEF Noted, DefenseNoted
    <3> QED  BY <2>0, <2>2, <3>1 DEF Memory, AttackerKnown, Recorded, SameDefense
  <2> QED  BY <2>1, <2>2
<1> QED  BY <1>1, <1>2, <1>3, <1>4 DEF Memory


\* Where nothing is remembered, there is nothing to be wrong about.
LEMMA StopKeepsMemory ==
    ASSUME NEW s, NEW t, NEW h, NEW g, Memory(s, h), t.cands = {}, t.touch = Neutral,
           t.passer = NoOne, s.touched \subseteq t.touched, SameDefense(s, t),
           g.kickSides = h.kickSides, g.kickNow = h.kickNow
    PROVE  Memory(t, g)
<1>1. CandidatesKnown(t, g)
  BY DEF CandidatesKnown
<1>2. TouchKnown(t, g)
  BY DEF TouchKnown
<1>3. PasserKnown(t, g)
  BY DEF PasserKnown, Memory
<1>4. AttackerKnown(t, g)
  BY DEF AttackerKnown, SameDefense, Memory
<1> QED  BY <1>1, <1>2, <1>3, <1>4 DEF Memory

\* The calls that a play of p leads to.
Justified(s, t, h, p) ==
    /\ t.mode.kind \in {"KickIn", "CornerKick", "Illegal_Defense"} => t.mode = s.mode
    /\ t.mode.kind = "Back_Pass" => t.mode = s.mode \/ h.kickSides = {t.mode.side}
    /\ t.mode.kind = "OffSide" => s.mode.kind = "OffSide" \/ p \in s.cands

\* A touch keeps the mode, unless it is an offence.
LEMMA TouchModes ==
    ASSUME NEW s \in State, Core(s), NEW p \in Players, NEW marked \in SUBSET Players
    PROVE  LET t == ballTouched(s, p, marked) IN t.mode = s.mode \/ t.mode.kind \in CalledFirst
<1> DEFINE t == ballTouched(s, p, marked)
<1>1. \E u \in State : PlayOutcome(s, u, p) /\ t.mode = u.mode
  <2>1. s.mode.kind = "OffSide" => s.taker = NoOne
    BY OffsideTaker
  <2> QED  BY <2>1, TouchedOutcome
<1> HIDE DEF t
<1>2. PICK u \in State : PlayOutcome(s, u, p) /\ t.mode = u.mode
  BY <1>1
<1>3. \A x \in Sides : PM("OffSide", x).kind = "OffSide"
  BY SidedMode DEF SidedKinds, FaultKinds
<1>4. PM("Free_Kick_Fault", Side(p)).kind = "Free_Kick_Fault"
  BY FaultKind
<1>5. t.mode = s.mode \/ t.mode.kind \in CalledFirst
  BY <1>2, <1>3, <1>4 DEF PlayOutcome, SamePlay, CalledFirst
<1> QED  BY <1>5 DEF t

LEMMA KickModes ==
    ASSUME NEW s \in State, Core(s), NEW p \in Players, NEW marked \in SUBSET Players,
           NEW power \in {"none", "less", "most"},
           IsLive(s.mode) \/ s.mode.kind = "CatchFault"
    PROVE  LET t == kickTaken(s, p, power, marked) IN
           /\ t \in State /\ t.mode.kind \in {"GoalKick", "OffSide", "PlayOn", "Free_Kick_Fault"}
           /\ ModePlayed(s, t, TRUE)
<1> DEFINE t == kickTaken(s, p, power, marked)
<1>1. /\ t \in State /\ t.mode.kind \in {"GoalKick", "OffSide", "PlayOn", "Free_Kick_Fault"}
      /\ \E u \in State : u.mode = s.mode /\ (PlayOutcome(u, t, p) \/ InPlayOutcome(u, t, p))
  <2>1. s.mode.kind = "OffSide" => s.taker = NoOne
    BY OffsideTaker
  <2> QED  BY <2>1, KickedOutcome
<1> HIDE DEF t
<1>2. PICK u \in State : u.mode = s.mode /\ (PlayOutcome(u, t, p) \/ InPlayOutcome(u, t, p))
  BY <1>1
<1>3. \A x \in Sides : PM("OffSide", x).kind = "OffSide"
  BY SidedMode DEF SidedKinds, FaultKinds
<1>4. PM("Free_Kick_Fault", Side(p)).kind = "Free_Kick_Fault"
  BY FaultKind
<1>5. t.mode.kind \in CalledFirst \/ t.mode = s.mode \/ t.mode = PlayOn
  BY <1>2, <1>3, <1>4 DEF PlayOutcome, InPlayOutcome, SamePlay, CalledFirst
<1>6. s.mode.kind \notin CalledFirst
  BY DEF IsLive, CalledFirst, RestartKinds, FreeKickKinds
<1>7. t.mode.kind \notin CalledFirst => IsLive(t.mode)
  BY <1>1 DEF CalledFirst, IsLive, RestartKinds
<1>8. ModePlayed(s, t, TRUE)
  BY <1>5, <1>6, <1>7 DEF ModePlayed
<1> QED  BY <1>1, <1>8 DEF t

\* A collision, a kick and a tackle.
LEMMA TouchKeepsMemory ==
    ASSUME TypeOK, Core(st), Memory(st, hist), NEW p \in Players, NEW marked \in Marks(p),
           st' = ballTouched(st, p, marked), hist' = Play(hist, p, FALSE)
    PROVE  Memory(st', hist') /\ Justified(st, st', hist, p)
<1>0. st \in State /\ hist \in History /\ marked \in SUBSET Mates(p) /\ marked \in SUBSET Players
  BY MarksAreMates DEF TypeOK, Mates
<1> DEFINE free == st.mode.kind \in NoOffsideKinds
<1>1. Recorded(hist, hist', p, FALSE, free)
  BY <1>0, PlayRecords
<1>2. st' \in State
  BY <1>0, TouchSound DEF Sound
<1>3. Noted(st, st', p, marked, "none", FALSE)
  BY <1>0, TouchedNotes
<1>4. st'.mode = st.mode \/ st'.mode.kind \in CalledFirst
  BY <1>0, TouchModes
<1>5. ModePlayed(st, st', FALSE)
  BY <1>4 DEF ModePlayed
<1>6. Memory(st', hist')
  BY <1>0, <1>1, <1>2, <1>3, <1>5, PlayKeepsMemory
<1>7. Justified(st, st', hist, p)
  BY <1>3, <1>4 DEF Justified, CalledFirst, Noted, OffsideNoted
<1> QED  BY <1>6, <1>7

LEMMA KickKeepsMemory ==
    ASSUME TypeOK, Core(st), Memory(st, hist), NEW p \in Players, NEW marked \in Marks(p),
           NEW power \in {"none", "less", "most"}, NEW charge \in BOOLEAN,
           IsLive(st.mode) \/ st.mode.kind = "CatchFault",
           st' = tackleTaken(st, p, power, marked, charge), hist' = Play(hist, p, TRUE)
    PROVE  Memory(st', hist') /\ Justified(st, st', hist, p)
<1>0. st \in State /\ hist \in History /\ marked \in SUBSET Mates(p) /\ marked \in SUBSET Players
  BY MarksAreMates DEF TypeOK, Mates
<1> DEFINE free == st.mode.kind \in NoOffsideKinds
           u == kickTaken(st, p, power, marked)
           c == Call(u, PM("Foul_Charge", Side(p)))
<1>1. Recorded(hist, hist', p, TRUE, free)
  BY <1>0, PlayRecords
<1>2. /\ u \in State /\ u.mode.kind \in {"GoalKick", "OffSide", "PlayOn", "Free_Kick_Fault"}
      /\ ModePlayed(st, u, TRUE)
  BY <1>0, KickModes
<1>3. Noted(st, u, p, marked, power, TRUE)
  BY <1>0, KickedNotes
<1>4. st' = IF charge THEN c ELSE u
  BY DEF tackleTaken
<1> HIDE DEF u
<1>5. Memory(u, hist')
  BY <1>0, <1>1, <1>2, <1>3, PlayKeepsMemory
<1>6. CASE ~ charge
  <2>1. Justified(st, u, hist, p)
    BY <1>2, <1>3 DEF Justified, Noted, OffsideNoted
  <2> QED  BY <1>4, <1>5, <1>6, <2>1
<1>7. CASE charge
  <2>1. /\ PM("Foul_Charge", Side(p)) \in PlayMode /\ PM("Foul_Charge", Side(p)) # PlayOn
        /\ PM("Foul_Charge", Side(p)).kind = "Foul_Charge"
    BY PlayerSides, SidedMode DEF SidedKinds, FaultKinds
  <2>2. CalledAs(u, c, PM("Foul_Charge", Side(p)))
    BY <1>2, <2>1, CallResult
  <2> HIDE DEF c
  <2>3. Memory(c, hist')
    BY <1>5, <2>1, <2>2, StopKeepsMemory DEF CalledAs, ChangedTo
  <2>4. Justified(st, c, hist, p)
    BY <2>1, <2>2 DEF Justified, CalledAs, ChangedTo
  <2> QED  BY <1>4, <1>7, <2>3, <2>4
<1> QED  BY <1>6, <1>7

------------------------------------------------------------------------------
(* The goalie's catch.                                                      *)

\* The ball is stopped, by a call or for the goalie's free kick.
CatchCalls(s, t, p) ==
    /\ t.mode \in {PM(k, Side(p)) : k \in {"CatchFault", "Back_Pass", "FreeKick"}}
    /\ t.cands = {} /\ t.touch = Neutral /\ t.passer = NoOne /\ t.touched = s.touched
    /\ SameDefense(s, t)
    /\ t.mode.kind = "Back_Pass" => PassedBack(s, p)

LEMMA StopCalls ==
    ASSUME NEW s \in State, NEW t, NEW p \in Players, NEW k \in {"CatchFault", "Back_Pass", "FreeKick"},
           ChangedTo(s, t, PM(k, Side(p))), k = "Back_Pass" => PassedBack(s, p)
    PROVE  CatchCalls(s, t, p)
<1>1. PM(k, Side(p)) # PlayOn /\ PM(k, Side(p)).kind = k
  BY PlayerSides, SidedMode DEF SidedKinds, FaultKinds, RestartKinds, FreeKickKinds
<1> QED  BY <1>1 DEF ChangedTo, CatchCalls

LEMMA CaughtCalls ==
    ASSUME NEW s \in State, NEW p \in Players, NEW inside \in BOOLEAN
    PROVE  CatchCalls(s, CatchCaught(s, p, inside), p)
<1> DEFINE a == Call(s, PM("CatchFault", Side(p)))
           b == Call(s, PM("Back_Pass", Side(p)))
           c == placeBall(s, PM("FreeKick", Side(p)))
<1>1. \A k \in {"CatchFault", "Back_Pass", "FreeKick"} : PM(k, Side(p)) \in PlayMode
  BY PlayerSides, SidedMode DEF SidedKinds, FaultKinds, RestartKinds, FreeKickKinds
<1>2. /\ ChangedTo(s, a, PM("CatchFault", Side(p))) /\ ChangedTo(s, b, PM("Back_Pass", Side(p)))
      /\ ChangedTo(s, c, PM("FreeKick", Side(p)))
  BY <1>1, CallResult, PlaceResult DEF CalledAs
<1>3. \/ CatchCaught(s, p, inside) \in {a, c}
      \/ CatchCaught(s, p, inside) = b /\ PassedBack(s, p)
  BY DEF CatchCaught, callCatchFault, awardFreeKick
<1> HIDE DEF a, b, c
<1>4. CatchCalls(s, a, p) /\ CatchCalls(s, c, p)
  BY <1>2, StopCalls
<1>5. PassedBack(s, p) => CatchCalls(s, b, p)
  BY <1>2, StopCalls
<1> QED  BY <1>3, <1>4, <1>5

\* In a catch the ball may touch another player q before it touches the goalie.
LEMMA CatchKeepsMemory ==
    ASSUME TypeOK, Core(st), Memory(st, hist), NEW p \in Goalies, NEW marked \in Marks(p),
           NEW inArea \in BOOLEAN, NEW q \in Players \cup {NoOne},
           st' = ballCaught(st, p, marked, inArea, q),
           hist' = Play(IF q = NoOne THEN hist ELSE Play(hist, q, FALSE), p, FALSE)
    PROVE  Memory(st', hist') /\ Justified(st, st', hist, p)
<1> DEFINE a == IF q = NoOne THEN st ELSE ballTouched(st, q, {})
           u == ballTouched(a, p, marked)
           called == u.mode # a.mode \/ (a.mode # st.mode /\ Side(q) = Side(p))
           inside == inArea /\ ~ called
           v == CatchCaught(u, p, inside)
           w == [v EXCEPT !.catcher = p]
           h == IF q = NoOne THEN hist ELSE Play(hist, q, FALSE)
<1>0. /\ p \in Players /\ p \in Goalies \cup {NoOne} /\ {} \in SUBSET Players /\ Side(p) \in Sides
      /\ st \in State /\ hist \in History /\ marked \in SUBSET Players
  BY PlayerSides, Constants, MarksArePlayers DEF TypeOK
<1>1. a \in State /\ Core(a)
  BY <1>0, TouchSound DEF Sound
<1>2. /\ st.touched \subseteq a.touched /\ a.passer \in {st.passer, NoOne} /\ SameDefense(st, a)
  <2>1. CASE q = NoOne
    BY <2>1 DEF SameDefense
  <2>2. CASE q # NoOne
    <3>1. Noted(st, ballTouched(st, q, {}), q, {}, "none", FALSE)
      BY <1>0, <2>2, TouchedNotes
    <3> QED  BY <2>2, <3>1 DEF Noted, PassNoted, DefenseNoted
  <2> QED  BY <2>1, <2>2
<1>3. h \in History /\ h.kickSides = hist.kickSides /\ h.kickNow = hist.kickNow
  <2>1. CASE q = NoOne
    BY <1>0, <2>1
  <2>2. CASE q # NoOne
    <3>1. /\ Play(hist, q, FALSE) \in History
          /\ Recorded(hist, Play(hist, q, FALSE), q, FALSE, st.mode.kind \in NoOffsideKinds)
      BY <1>0, <2>2, PlayRecords
    <3>2. Play(hist, q, FALSE).kickNow \in BOOLEAN /\ hist.kickNow \in BOOLEAN
      BY <1>0, <3>1, HistoryFields
    <3> QED  BY <2>2, <3>1, <3>2 DEF Recorded
  <2> QED  BY <2>1, <2>2
<1>4. st' = IF v.mode.kind = "FreeKick" THEN w ELSE v
  BY DEF ballCaught
<1>5. hist' = Play(h, p, FALSE)
  OBVIOUS
<1> HIDE DEF a, h
<1>6. hist'.kickSides = hist.kickSides /\ hist'.kickNow = hist.kickNow
  <2>1. hist' \in History /\ Recorded(h, hist', p, FALSE, st.mode.kind \in NoOffsideKinds)
    BY <1>0, <1>3, <1>5, PlayRecords
  <2>2. hist'.kickNow \in BOOLEAN /\ hist.kickNow \in BOOLEAN
    BY <1>0, <2>1, HistoryFields
  <2> QED  BY <1>3, <2>1, <2>2 DEF Recorded
<1>7. u \in State
  BY <1>0, <1>1, TouchSound DEF Sound
<1>8. Noted(a, u, p, marked, "none", FALSE)
  BY <1>0, <1>1, TouchedNotes
<1>9. inside \in BOOLEAN
  OBVIOUS
<1> HIDE DEF u, inside
<1>10. st.touched \subseteq u.touched /\ u.passer \in {st.passer, NoOne} /\ SameDefense(st, u)
  BY <1>2, <1>8 DEF Noted, PassNoted, DefenseNoted, SameDefense
<1>11. v \in State /\ CatchCalls(u, v, p)
  BY <1>0, <1>7, <1>9, CaughtResult, CaughtCalls
<1> HIDE DEF v
<1>12. CatchCalls(u, st', p)
  <2>1. w.mode = v.mode /\ SameOffside(v, w) /\ SameTouch(v, w) /\ SameCatch(v, w) /\ SameDefense(v, w)
    BY <1>0, <1>11, HoldUpdate
  <2> HIDE DEF w
  <2>2. CatchCalls(u, w, p)
    BY <1>11, <2>1 DEF CatchCalls, SameOffside, SameTouch, SameCatch, SameDefense
  <2> QED  BY <1>4, <1>11, <2>2
<1>13. Memory(st', hist')
  BY <1>6, <1>10, <1>12, StopKeepsMemory DEF CatchCalls, SameDefense
<1>14. Justified(st, st', hist, p)
  <2>1. PICK k \in {"CatchFault", "Back_Pass", "FreeKick"} : st'.mode = PM(k, Side(p))
    BY <1>12 DEF CatchCalls
  <2>2. st'.mode.kind = k /\ st'.mode.side = Side(p)
    BY <1>0, <2>1, SidedMode DEF SidedKinds, FaultKinds, RestartKinds, FreeKickKinds
  <2>3. k = "Back_Pass" => hist.kickSides = {Side(p)}
    BY <1>10, <1>12, <2>2 DEF CatchCalls, PassedBack, Memory, PasserKnown
  <2> QED  BY <2>2, <2>3 DEF Justified
<1> QED  BY <1>13, <1>14

\* A ball that bounces off the goalie.
LEMMA PunchKeepsMemory ==
    ASSUME TypeOK, Core(st), Memory(st, hist), NEW p \in Goalies, NEW marked \in Marks(p),
           NEW inArea \in BOOLEAN, st.mode = PlayOn,
           st' = ballPunched(st, p, marked, inArea), hist' = Play(hist, p, FALSE)
    PROVE  Memory(st', hist') /\ Justified(st, st', hist, p)
<1> DEFINE u == ballTouched(st, p, marked)
           inside == inArea /\ u.mode = st.mode
           a == Call(u, PM("CatchFault", Side(p)))
           b == Call(u, PM("Back_Pass", Side(p)))
           c == [u EXCEPT !.passer = NoOne, !.passer2 = NoOne]
<1>0. /\ p \in Players /\ Side(p) \in Sides /\ st \in State /\ hist \in History
      /\ marked \in SUBSET Mates(p) /\ marked \in SUBSET Players
  BY PlayerSides, Constants, MarksAreMates, MarksArePlayers DEF TypeOK
<1>1. u \in State
  BY <1>0, TouchSound DEF Sound
<1>2. Noted(st, u, p, marked, "none", FALSE)
  BY <1>0, TouchedNotes
<1>3. u.mode = st.mode \/ u.mode.kind \in CalledFirst
  BY <1>0, TouchModes
<1>4. Recorded(hist, hist', p, FALSE, st.mode.kind \in NoOffsideKinds)
  BY <1>0, PlayRecords
<1>5. \/ st' = a
      \/ st' = b /\ PassedBack(u, p)
      \/ st' \in {c, u} /\ u.mode = st.mode
  BY DEF ballPunched, CatchPunched, callCatchFault
<1> HIDE DEF u
<1>6. hist'.kickSides = hist.kickSides /\ hist'.kickNow = hist.kickNow
  <2>1. hist' \in History
    BY <1>0, PlayRecords
  <2>2. hist'.kickNow \in BOOLEAN /\ hist.kickNow \in BOOLEAN
    BY <1>0, <2>1, HistoryFields
  <2> QED  BY <1>4, <2>2 DEF Recorded
<1>7. /\ st.touched \subseteq u.touched /\ u.passer \in {st.passer, NoOne} /\ SameDefense(st, u)
  BY <1>2 DEF Noted, PassNoted, DefenseNoted
<1>8. Memory(u, hist')
  <2>1. ModePlayed(st, u, FALSE)
    BY <1>3 DEF ModePlayed
  <2> QED  BY <1>0, <1>1, <1>2, <1>4, <2>1, PlayKeepsMemory
<1>9. ASSUME NEW t, CatchCalls(u, t, p)
      PROVE  Memory(t, hist') /\ Justified(st, t, hist, p)
  <2>1. Memory(t, hist')
    BY <1>6, <1>7, <1>9, StopKeepsMemory DEF CatchCalls, SameDefense
  <2>2. PICK k \in {"CatchFault", "Back_Pass", "FreeKick"} : t.mode = PM(k, Side(p))
    BY <1>9 DEF CatchCalls
  <2>3. t.mode.kind = k /\ t.mode.side = Side(p)
    BY <1>0, <2>2, SidedMode DEF SidedKinds, FaultKinds, RestartKinds, FreeKickKinds
  <2>4. k = "Back_Pass" => hist.kickSides = {Side(p)}
    BY <1>7, <1>9, <2>3 DEF CatchCalls, PassedBack, Memory, PasserKnown
  <2>5. Justified(st, t, hist, p)
    BY <2>3, <2>4 DEF Justified
  <2> QED  BY <2>1, <2>5
<1>10. PM("CatchFault", Side(p)) \in PlayMode /\ PM("Back_Pass", Side(p)) \in PlayMode
  BY <1>0, SidedMode DEF SidedKinds, FaultKinds
<1>11. CASE st' = a
  <2>1. ChangedTo(u, a, PM("CatchFault", Side(p)))
    BY <1>1, <1>10, CallResult DEF CalledAs
  <2> HIDE DEF a
  <2> QED  BY <1>0, <1>1, <1>9, <1>11, <2>1, StopCalls
<1>12. CASE st' = b /\ PassedBack(u, p)
  <2>1. ChangedTo(u, b, PM("Back_Pass", Side(p)))
    BY <1>1, <1>10, CallResult DEF CalledAs
  <2> HIDE DEF b
  <2> QED  BY <1>0, <1>1, <1>9, <1>12, <2>1, StopCalls
<1>13. CASE st' \in {c, u} /\ u.mode = st.mode
  <2>1. c \in State /\ ButCatch(u, c) /\ c.touched = u.touched /\ c.passer = NoOne
    <3>1. c \in State /\ ButCatch(u, c)
      BY <1>1, PasserUpdate, Zenon
    <3>2. ASSUME NEW r \in State
          PROVE  LET t == [r EXCEPT !.passer = NoOne, !.passer2 = NoOne] IN
                 t.touched = r.touched /\ t.passer = NoOne
      BY DEF State
    <3>3. c.touched = u.touched /\ c.passer = NoOne
      BY <1>1, <3>2, Zenon
    <3> QED  BY <3>1, <3>3, Zenon
  <2> HIDE DEF c
  <2>2. Memory(c, hist')
    BY <1>8, <2>1
    DEF Memory, CandidatesKnown, TouchKnown, PasserKnown, AttackerKnown, ButCatch, SamePlay,
        SameOffside, SameKicker, SameTouch, SameDefense
  <2>3. c.mode = u.mode
    BY <2>1 DEF ButCatch, SamePlay
  <2>4. Justified(st, st', hist, p)
    BY <1>13, <2>3, NeutralModes DEF Justified
  <2> QED  BY <1>8, <1>13, <2>2, <2>4
<1> QED  BY <1>5, <1>11, <1>12, <1>13

------------------------------------------------------------------------------
(* The steps that do not play the ball.                                     *)

LEMMA SameMemory ==
    ASSUME NEW s, NEW t, NEW h, NEW g, Memory(s, h), t.mode = s.mode,
           t.cands = s.cands, t.kicker = s.kicker, SameTouch(s, t), SameCatch(s, t), SameDefense(s, t),
           g.last = h.last, g.free = h.free, g.sides = h.sides, g.now = h.now,
           g.kickSides = h.kickSides, g.kickNow = h.kickNow
    PROVE  Memory(t, g)
<1>1. CandidatesKnown(t, g)
  BY DEF Memory, CandidatesKnown
<1>2. TouchKnown(t, g)
  BY DEF Memory, TouchKnown, SameTouch
<1>3. PasserKnown(t, g)
  BY DEF Memory, PasserKnown, SameCatch
<1>4. AttackerKnown(t, g)
  BY DEF Memory, AttackerKnown, SameDefense
<1> QED  BY <1>1, <1>2, <1>3, <1>4 DEF Memory

\* A call or an award that is no play keeps the record of the plays.
LEMMA UnplayedRecord ==
    ASSUME NEW h \in History, NEW o, NEW f, NEW n
    PROVE  LET g == [h EXCEPT !.open = o, !.first = f, !.waited = n] IN
           /\ g.last = h.last /\ g.free = h.free /\ g.sides = h.sides /\ g.now = h.now
           /\ g.kickSides = h.kickSides /\ g.kickNow = h.kickNow
BY DEF History

LEMMA MissKeepsMemory ==
    ASSUME TypeOK, Memory(st, hist), NEW p \in Players, Miss(p)
    PROVE  Memory(st', hist') /\ Justified(st, st', hist, p)
<1>0. st \in State /\ hist \in History
  BY DEF TypeOK
<1>1. PICK o : o = (hist.open /\ ~ Closed)
  OBVIOUS
<1>2. PICK f : f = IF Closed THEN NoOne ELSE hist.first
  OBVIOUS
<1>3. PICK n : n = IF st'.mode = st.mode THEN hist.waited ELSE 0
  OBVIOUS
<1>4. hist' = [hist EXCEPT !.open = o, !.first = f, !.waited = n]
  BY <1>0, <1>1, <1>2, <1>3 DEF Miss, History
<1>5. /\ hist'.last = hist.last /\ hist'.free = hist.free /\ hist'.sides = hist.sides
      /\ hist'.now = hist.now /\ hist'.kickSides = hist.kickSides /\ hist'.kickNow = hist.kickNow
  BY <1>0, <1>4, UnplayedRecord
<1>6. p \in st.cands /\ st' \in {st, callOffside(st)}
  BY DEF Miss, checkIntentionalAction
<1>7. CASE st' = st
  <2>1. Memory(st', hist')
    BY <1>5, <1>7, SameMemory DEF SameTouch, SameCatch, SameDefense
  <2> QED  BY <1>7, <2>1 DEF Justified
<1>8. CASE st' # st
  <2>1. st.kicker \in Sides /\ CalledAs(st, st', PM("OffSide", st.kicker))
    BY <1>0, <1>6, <1>8, OffsideCall
  <2>2. PM("OffSide", st.kicker) # PlayOn /\ PM("OffSide", st.kicker).kind = "OffSide"
    BY <2>1, SidedMode DEF SidedKinds, FaultKinds
  <2>3. Memory(st', hist')
    BY <1>5, <2>1, <2>2, StopKeepsMemory DEF CalledAs, ChangedTo
  <2> QED  BY <1>6, <2>1, <2>2, <2>3 DEF Justified, CalledAs, ChangedTo
<1> QED  BY <1>7, <1>8

LEMMA DashKeepsMemory ==
    ASSUME TypeOK, Memory(st, hist), NEW p \in Players, Dash(p)
    PROVE  Memory(st', hist') /\ st'.mode = st.mode
<1> DEFINE t == [st EXCEPT !.dashed = TRUE]
<1>0. st \in State /\ st' = t /\ hist' = hist
  BY DEF TypeOK, Dash
<1>1. /\ t.mode = st.mode /\ t.cands = st.cands /\ t.kicker = st.kicker
      /\ t.touch = st.touch /\ t.strength = st.strength /\ t.indirect = st.indirect
      /\ t.indKicker = st.indKicker
  BY <1>0 DEF State
<1>2. /\ t.touched = st.touched /\ t.passNow = st.passNow /\ t.passer = st.passer
      /\ t.passer2 = st.passer2 /\ SameDefense(st, t)
  BY <1>0 DEF State, SameDefense
<1> HIDE DEF t
<1> QED  BY <1>0, <1>1, <1>2, SameMemory DEF SameTouch, SameCatch

LEMMA KickOffKeepsMemory ==
    ASSUME TypeOK, Memory(st, hist), NEW x \in Sides, KickOff(x)
    PROVE  Memory(st', hist')
<1>0. st \in State /\ st' = placeBall(st, PM("KickOff", x)) /\ hist' = hist
  BY DEF TypeOK, KickOff
<1>1. PM("KickOff", x) # PlayOn /\ PM("KickOff", x) \in PlayMode
  BY SidedMode DEF SidedKinds, RestartKinds, FreeKickKinds
<1>2. ChangedTo(st, st', PM("KickOff", x))
  BY <1>0, <1>1, PlaceResult
<1> QED  BY <1>0, <1>1, <1>2, StopKeepsMemory DEF ChangedTo

LEMMA DispFoulKeepsMemory ==
    ASSUME TypeOK, Memory(st, hist), NEW x \in Sides \cup {Neutral}, DispFoul(x)
    PROVE  Memory(st', hist')
<1>0. st \in State /\ hist \in History
  BY DEF TypeOK
<1>1. PICK o : o = (hist.open /\ x = Neutral)
  OBVIOUS
<1>2. PICK f : f = IF x = Neutral THEN hist.first ELSE NoOne
  OBVIOUS
<1>3. hist' = [hist EXCEPT !.open = o, !.first = f, !.waited = 0]
  BY <1>0, <1>1, <1>2 DEF DispFoul, History
<1>4. hist'.kickSides = hist.kickSides /\ hist'.kickNow = hist.kickNow
  BY <1>0, <1>3, UnplayedRecord
<1>5. CASE x = Neutral
  <2>1. st' = awardDropBall(st)
    BY <1>5 DEF DispFoul
  <2>2. /\ st'.cands = {} /\ st'.touch = Neutral /\ st'.passer = NoOne /\ st'.touched = st.touched
        /\ SameDefense(st, st')
    BY <1>0, <2>1, DropResult
  <2> QED  BY <1>4, <2>2, StopKeepsMemory
<1>6. CASE x \in Sides
  <2>1. st' = Call(st, PM("FreeKick", x))
    BY <1>6, Opponents DEF DispFoul
  <2>2. PM("FreeKick", x) # PlayOn /\ PM("FreeKick", x) \in PlayMode
    BY <1>6, SidedMode DEF SidedKinds, RestartKinds, FreeKickKinds
  <2>3. ChangedTo(st, st', PM("FreeKick", x))
    BY <1>0, <2>1, <2>2, CallResult DEF CalledAs
  <2> QED  BY <1>4, <2>2, <2>3, StopKeepsMemory DEF ChangedTo
<1> QED  BY <1>5, <1>6

------------------------------------------------------------------------------
(* The analysis of a cycle: the referees forget, and call what they know.   *)

SameMind(x, y) ==
    /\ y.mode = x.mode /\ y.cands = x.cands /\ y.kicker = x.kicker /\ y.touch = x.touch
    /\ y.strength = x.strength /\ y.passer = x.passer /\ y.attacker = x.attacker

\* The calls of an analysis that need a memory, and what it must say.
Warranted(x, y) ==
    \/ y.mode = x.mode
    \/ y.mode.kind \notin {"OffSide", "Back_Pass", "KickIn", "CornerKick", "Illegal_Defense"}
    \/ /\ y.mode.kind \in {"KickIn", "CornerKick"}
       /\ x.touch \in Sides /\ Opp(y.mode.side) = x.touch
    \/ /\ y.mode.kind = "Illegal_Defense" /\ UseIllegalDefense
       /\ x.attacker \in Sides /\ Opp(y.mode.side) = x.attacker

\* The side that touched the ball last is remembered only while the play goes on.
Forgets(x, y) ==
    /\ y.cands \subseteq x.cands /\ y.kicker = x.kicker /\ y.strength = x.strength
    /\ y.passer \in {x.passer, NoOne} /\ y.attacker = x.attacker
    /\ y.touch # Neutral =>
         /\ y.touch = x.touch
         /\ y.mode = x.mode \/ (y.mode = PlayOn /\ IsLive(x.mode))
    /\ Warranted(x, y)

LEMMA SameForgets ==
    ASSUME NEW x, NEW y, SameMind(x, y)
    PROVE  Forgets(x, y)
BY DEF SameMind, Forgets, Warranted

LEMMA ForgetsTrans ==
    ASSUME NEW x, NEW y, NEW z, Forgets(x, y), Forgets(y, z)
    PROVE  Forgets(x, z)
<1>1. Neutral \notin Sides /\ IsLive(PlayOn)
  BY Opponents, NeutralModes DEF IsLive
<1>2. Warranted(x, z)
  BY <1>1 DEF Forgets, Warranted
<1>3. /\ z.cands \subseteq x.cands /\ z.kicker = x.kicker /\ z.strength = x.strength
      /\ z.passer \in {x.passer, NoOne} /\ z.attacker = x.attacker
  BY DEF Forgets
<1>4. z.touch # Neutral => /\ z.touch = x.touch
                           /\ z.mode = x.mode \/ (z.mode = PlayOn /\ IsLive(x.mode))
  BY <1>1 DEF Forgets
<1> QED  BY <1>2, <1>3, <1>4 DEF Forgets

\* The fields that no memory is about.
LEMMA MindUpdates ==
    ASSUME NEW x \in State, NEW n
    PROVE  /\ SameMind(x, [x EXCEPT !.catcher = n]) /\ SameMind(x, [x EXCEPT !.after = n])
           /\ SameMind(x, [x EXCEPT !.stuck = n]) /\ SameMind(x, [x EXCEPT !.timer = n])
           /\ SameMind(x, [x EXCEPT !.touched = n]) /\ SameMind(x, [x EXCEPT !.illegal = n])
<1>1. SameMind(x, [x EXCEPT !.catcher = n]) /\ SameMind(x, [x EXCEPT !.after = n])
  BY DEF SameMind, State
<1>2. SameMind(x, [x EXCEPT !.stuck = n]) /\ SameMind(x, [x EXCEPT !.timer = n])
  BY DEF SameMind, State
<1>3. SameMind(x, [x EXCEPT !.touched = n]) /\ SameMind(x, [x EXCEPT !.illegal = n])
  BY DEF SameMind, State
<1> QED  BY <1>1, <1>2, <1>3

LEMMA ChangeForgets ==
    ASSUME NEW x, NEW y, NEW pm, ChangedTo(x, y, pm), y.kicker = x.kicker,
           pm = PlayOn => IsLive(x.mode), Warranted(x, y)
    PROVE  Forgets(x, y)
BY DEF ChangedTo, Forgets, SameDefense

LEMMA DropForgets ==
    ASSUME NEW x \in State
    PROVE  awardDropBall(x) \in State /\ Forgets(x, awardDropBall(x))
<1> DEFINE y == awardDropBall(x)
<1>1. /\ y \in State /\ y.mode = PlayOn /\ y.cands = {} /\ SameKicker(x, y)
      /\ y.touch = Neutral /\ y.strength = x.strength /\ y.passer = NoOne /\ SameDefense(x, y)
  BY DropResult
<1> HIDE DEF y
<1>2. Warranted(x, y)
  BY <1>1, NeutralModes DEF Warranted
<1>3. Forgets(x, y)
  BY <1>1, <1>2 DEF Forgets, SameKicker, SameDefense
<1> QED  BY <1>1, <1>3 DEF y

\* A restart that follows from the play mode.
LEMMA RestartForgets ==
    ASSUME NEW x \in State, NEW k \in {"FreeKick", "IndFreeKick", "GoalKick", "KickOff",
                                       "AfterGoal", "CatchFault"}, NEW z \in Sides
    PROVE  /\ changePlayMode(x, PM(k, z)) \in State /\ Forgets(x, changePlayMode(x, PM(k, z)))
           /\ placeBall(x, PM(k, z)) \in State /\ Forgets(x, placeBall(x, PM(k, z)))
           /\ Call(x, PM(k, z)) \in State /\ Forgets(x, Call(x, PM(k, z)))
<1>1. PM(k, z) \in PlayMode /\ PM(k, z).kind = k /\ PM(k, z) # PlayOn
  BY SidedMode DEF SidedKinds, FaultKinds, RestartKinds, FreeKickKinds
<1>2. ASSUME NEW y, ChangedTo(x, y, PM(k, z)), SameKicker(x, y)
      PROVE  y \in State /\ Forgets(x, y)
  <2>1. y \in State /\ y.mode = PM(k, z)
    BY <1>2 DEF ChangedTo
  <2>2. Warranted(x, y)
    BY <1>1, <2>1 DEF Warranted
  <2> QED  BY <1>1, <1>2, <2>1, <2>2, ChangeForgets DEF SameKicker
<1>3. LET y == changePlayMode(x, PM(k, z)) IN ChangedTo(x, y, PM(k, z)) /\ SameKicker(x, y)
  BY <1>1, ChangeResult
<1>4. LET y == placeBall(x, PM(k, z)) IN ChangedTo(x, y, PM(k, z)) /\ SameKicker(x, y)
  BY <1>1, PlaceResult
<1>5. LET y == Call(x, PM(k, z)) IN ChangedTo(x, y, PM(k, z)) /\ SameKicker(x, y)
  BY <1>1, CallResult DEF CalledAs
<1> QED  BY <1>2, <1>3, <1>4, <1>5

LEMMA PlayOnForgets ==
    ASSUME NEW x \in State, IsLive(x.mode)
    PROVE  /\ changePlayMode(x, PlayOn) \in State /\ Forgets(x, changePlayMode(x, PlayOn))
           /\ changePlayMode(x, PlayOn).mode = PlayOn
<1> DEFINE y == changePlayMode(x, PlayOn)
<1>1. ChangedTo(x, y, PlayOn) /\ SameKicker(x, y)
  BY NeutralModes, ChangeResult
<1> HIDE DEF y
<1>2. y \in State /\ y.mode = PlayOn
  BY <1>1 DEF ChangedTo
<1>3. Warranted(x, y)
  BY <1>2, NeutralModes DEF Warranted
<1> QED  BY <1>1, <1>2, <1>3, ChangeForgets DEF SameKicker, y

LEMMA WaitForgets ==
    ASSUME NEW x \in State, NEW k \in {"FreeKick", "IndFreeKick"}, NEW z \in Sides
    PROVE  WaitThen(x, PM(k, z)) \in State /\ Forgets(x, WaitThen(x, PM(k, z)))
<1> DEFINE n == x.after + 1
           a == changePlayMode(x, PM(k, z))
           b == [x EXCEPT !.after = n]
<1>1. WaitThen(x, PM(k, z)) = IF n > Wait THEN a ELSE b
  BY DEF WaitThen
<1>2. a \in State /\ Forgets(x, a)
  BY RestartForgets
<1>3. ~ (n > Wait) => n \in 0..Wait
  BY Fields, Constants
<1> HIDE DEF a, n
<1>4. n \in 0..Wait => b \in State
  BY AfterUpdate
<1>5. Forgets(x, b)
  BY MindUpdates, SameForgets
<1> QED  BY <1>1, <1>2, <1>3, <1>4, <1>5

\* One referee after the other.
LEMMA TimeForgets ==
    ASSUME NEW x \in State, NEW half
    PROVE  LET y == TimeAnalyse(x, half) IN
           y \in State /\ Forgets(x, y) /\ (half # "no" => y.touch = Neutral)
<1> DEFINE y == Call(x, BeforeKickOff)
<1>1. ChangedTo(x, y, BeforeKickOff) /\ SameKicker(x, y)
  BY NeutralModes, CallResult DEF CalledAs
<1>2. TimeAnalyse(x, half) = IF half = "no" THEN x ELSE y
  BY DEF TimeAnalyse
<1> HIDE DEF y
<1>3. y \in State /\ y.mode = BeforeKickOff /\ y.touch = Neutral
  BY <1>1, NeutralModes DEF ChangedTo
<1>4. Warranted(x, y)
  BY <1>3, NeutralModes DEF Warranted
<1>5. Forgets(x, y)
  BY <1>1, <1>4, NeutralModes, ChangeForgets DEF SameKicker
<1>6. Forgets(x, x)
  BY SameForgets DEF SameMind
<1> QED  BY <1>2, <1>3, <1>5, <1>6

LEMMA StuckForgets ==
    ASSUME NEW x \in State, NEW near \in BOOLEAN
    PROVE  LET y == BallStuckAnalyse(x, near) IN y \in State /\ Forgets(x, y)
<1> DEFINE y == BallStuckAnalyse(x, near)
           n == x.stuck + 1
           a == [x EXCEPT !.stuck = 0]
           b == awardDropBall(a)
           c == [x EXCEPT !.stuck = n]
<1>1. y = IF x.mode # PlayOn \/ ~ near THEN a ELSE IF n >= DropTime THEN b ELSE c
  BY DEF BallStuckAnalyse
<1>2. 0 \in 0 .. DropTime - 1 /\ (~ (n >= DropTime) => n \in 0 .. DropTime - 1)
  BY Fields, Constants
<1> HIDE DEF n
<1>3. a \in State /\ Forgets(x, a) /\ Forgets(x, c)
  BY <1>2, StuckUpdate, MindUpdates, SameForgets
<1>4. ~ (n >= DropTime) => c \in State
  BY <1>2, StuckUpdate
<1> HIDE DEF a, c
<1>5. b \in State /\ Forgets(a, b)
  BY <1>3, DropForgets
<1> HIDE DEF b
<1>6. Forgets(x, b)
  BY <1>3, <1>5, ForgetsTrans
<1> QED  BY <1>1, <1>3, <1>4, <1>5, <1>6

LEMMA OffsideForgets ==
    ASSUME NEW x \in State
    PROVE  LET y == OffsideAnalyse(x) IN y \in State /\ Forgets(x, y)
<1> DEFINE y == OffsideAnalyse(x)
           w == WaitThen(x, PM("FreeKick", Opp(x.mode.side)))
           c == [x EXCEPT !.cands = {}]
<1>1. \/ y = x
      \/ x.mode.kind = "OffSide" /\ y = w
      \/ y = c
  BY DEF OffsideAnalyse
<1>2. Forgets(x, x)
  BY SameForgets DEF SameMind
<1>3. ASSUME x.mode.kind = "OffSide" PROVE w \in State /\ Forgets(x, w)
  <2>1. Opp(x.mode.side) \in Sides
    BY <1>3, Fields, ModeFields, Opponents DEF SidedKinds, FaultKinds
  <2> QED  BY <2>1, WaitForgets
<1>4. c \in State /\ Forgets(x, c)
  <2>1. c \in State /\ ButOffside(x, c) /\ SameKicker(x, c) /\ c.cands = {}
    BY MarkUpdate
  <2> HIDE DEF c
  <2>2. Warranted(x, c)
    BY <2>1 DEF Warranted, ButOffside, SamePlay
  <2> QED  BY <2>1, <2>2 DEF Forgets, ButOffside, SamePlay, SameKicker, SameTouch, SameCatch, SameDefense
<1> QED  BY <1>1, <1>2, <1>3, <1>4

LEMMA CountForgets ==
    ASSUME NEW x \in State
    PROVE  LET y == CountDown(x) IN y \in State /\ Forgets(x, y)
<1> DEFINE n == IF x.timer > -1 THEN x.timer - 1 ELSE x.timer
           a == [x EXCEPT !.timer = n]
           b == awardDropBall(a)
<1>1. CountDown(x) = IF a.timer = 0 THEN b ELSE a
  BY DEF CountDown
<1>2. n \in -1..DropTime
  BY Fields, Constants
<1> HIDE DEF n
<1>3. a \in State
  BY <1>2 DEF State
<1>4. Forgets(x, a)
  BY MindUpdates, SameForgets
<1> HIDE DEF a
<1>5. b \in State /\ Forgets(a, b)
  BY <1>3, DropForgets
<1> HIDE DEF b
<1>6. Forgets(x, b)
  BY <1>4, <1>5, ForgetsTrans
<1> QED  BY <1>1, <1>3, <1>4, <1>5, <1>6

LEMMA FreeKickForgets ==
    ASSUME NEW x \in State, NEW inArea \in BOOLEAN, NEW rests \in BOOLEAN
    PROVE  LET y == FreeKickAnalyse(x, inArea, rests) IN y \in State /\ Forgets(x, y)
<1> DEFINE y == FreeKickAnalyse(x, inArea, rests)
           w == WaitThen(x, PM("FreeKick", Opp(x.mode.side)))
           o == changePlayMode(x, PlayOn)
           g == GoalKickFailed(x)
<1>1. \/ y = x
      \/ x.mode.kind = "Free_Kick_Fault" /\ y = w
      \/ IsLive(x.mode) /\ y \in {o, CountDown(x), CountDown(o)}
      \/ x.taker # NoOne /\ y = g
  BY DEF FreeKickAnalyse, IsLive, RestartKinds
<1>2. Forgets(x, x)
  BY SameForgets DEF SameMind
<1>3. ASSUME x.mode.kind = "Free_Kick_Fault" PROVE w \in State /\ Forgets(x, w)
  <2>1. Opp(x.mode.side) \in Sides
    BY <1>3, Fields, ModeFields, Opponents DEF SidedKinds, FaultKinds
  <2> QED  BY <2>1, WaitForgets
<1>4. ASSUME IsLive(x.mode)
      PROVE  /\ o \in State /\ Forgets(x, o)
             /\ CountDown(x) \in State /\ Forgets(x, CountDown(x))
             /\ CountDown(o) \in State /\ Forgets(x, CountDown(o))
  <2>1. o \in State /\ Forgets(x, o)
    BY <1>4, PlayOnForgets
  <2> HIDE DEF o
  <2>2. CountDown(x) \in State /\ Forgets(x, CountDown(x))
    BY CountForgets
  <2>3. CountDown(o) \in State /\ Forgets(o, CountDown(o))
    BY <2>1, CountForgets
  <2> QED  BY <2>1, <2>2, <2>3, ForgetsTrans
<1>5. ASSUME x.taker # NoOne PROVE g \in State /\ Forgets(x, g)
  <2>1. Side(x.taker) \in Sides /\ Opp(Side(x.taker)) \in Sides
    BY <1>5, Fields, PlayerSides, Opponents
  <2> QED  BY <2>1, RestartForgets DEF GoalKickFailed, awardFreeKick
<1> HIDE DEF y, w, o, g
<1>6. y \in State /\ Forgets(x, y)
  BY <1>1, <1>2, <1>3, <1>4, <1>5
<1> QED  BY <1>6 DEF y

\* A kick-in and a corner kick go against the side that TouchRef remembers.
LEMMA TouchForgets ==
    ASSUME NEW x \in State, NEW seen \in {OnPitch} \cup Outs
    PROVE  LET y == TouchAnalyse(x, seen) IN y \in State /\ Forgets(x, y)
<1> DEFINE y == TouchAnalyse(x, seen)
           out == IF x.moving \/ x.catcher # NoOne THEN seen ELSE OnPitch
           e == out.end
           n == x.after + 1
           kickOff == placeBall(x, PM("KickOff", Opp(x.mode.side)))
           after == [x EXCEPT !.after = n]
           goal == placeBall(x, PM("AfterGoal", Opp(e)))
           corner == Call(x, PM("CornerKick", Opp(e)))
           goalKick == Call(x, PM("GoalKick", e))
           drop == awardDropBall(x)
           kickIn == Call(x, PM("KickIn", Opp(x.touch)))
<1>0. out.place \in {"goal", "behind"} => e \in Sides /\ Opp(e) \in Sides
  <2>1. seen = OnPitch \/ seen = [place |-> "beside", end |-> Neutral]
          \/ seen \in [place : {"goal", "behind"}, end : Sides]
    BY DEF Outs
  <2>2. OnPitch.place = "pitch"
    BY DEF OnPitch
  <2>3. seen \in [place : {"goal", "behind"}, end : Sides] =>
          seen.place \in {"goal", "behind"} /\ seen.end \in Sides
    OBVIOUS
  <2> QED  BY <2>1, <2>2, <2>3, Opponents
<1>1. \/ y = x
      \/ x.mode.kind = "AfterGoal" /\ y = kickOff
      \/ ~ (n > Wait) /\ y = after
      \/ out.place \in {"goal", "behind"} /\ y \in {goal, goalKick}
      \/ out.place \in {"goal", "behind"} /\ x.touch = e /\ y = corner
      \/ y = drop
      \/ x.touch # Neutral /\ y = kickIn
  BY DEF TouchAnalyse, Goal
<1>2. Forgets(x, x)
  BY SameForgets DEF SameMind
<1>3. ~ (n > Wait) => n \in 0..Wait
  BY Fields, Constants
<1> HIDE DEF out, y, n
<1>4. ASSUME x.mode.kind = "AfterGoal" PROVE kickOff \in State /\ Forgets(x, kickOff)
  <2>1. Opp(x.mode.side) \in Sides
    BY <1>4, Fields, ModeFields, Opponents DEF SidedKinds
  <2> QED  BY <2>1, RestartForgets
<1>5. Forgets(x, after) /\ (n \in 0..Wait => after \in State)
  BY AfterUpdate, MindUpdates, SameForgets
<1>6. ASSUME out.place \in {"goal", "behind"}
      PROVE  goal \in State /\ Forgets(x, goal) /\ goalKick \in State /\ Forgets(x, goalKick)
  BY <1>0, <1>6, RestartForgets
<1>7. drop \in State /\ Forgets(x, drop)
  BY DropForgets
<1>8. ASSUME NEW k \in {"CornerKick", "KickIn"}, x.touch \in Sides
      PROVE  LET c == Call(x, PM(k, Opp(x.touch))) IN c \in State /\ Forgets(x, c)
  <2> DEFINE pm == PM(k, Opp(x.touch))
             c == Call(x, pm)
  <2>1. Opp(x.touch) \in Sides /\ Opp(Opp(x.touch)) = x.touch
    BY <1>8, Opponents
  <2>2. pm \in PlayMode /\ pm.kind = k /\ pm.side = Opp(x.touch) /\ pm # PlayOn
    BY <2>1, SidedMode DEF SidedKinds, RestartKinds, FreeKickKinds
  <2> HIDE DEF pm
  <2>3. ChangedTo(x, c, pm) /\ SameKicker(x, c)
    BY <2>2, CallResult DEF CalledAs
  <2> HIDE DEF c
  <2>4. c \in State /\ c.mode = pm
    BY <2>3 DEF ChangedTo
  <2>5. Warranted(x, c)
    BY <1>8, <2>1, <2>2, <2>4 DEF Warranted
  <2>6. c \in State /\ Forgets(x, c)
    BY <2>2, <2>3, <2>4, <2>5, ChangeForgets DEF SameKicker
  <2> QED  BY <2>6 DEF c, pm
<1>9. ASSUME out.place \in {"goal", "behind"}, x.touch = e
      PROVE  corner \in State /\ Forgets(x, corner)
  <2>1. x.touch \in Sides
    BY <1>0, <1>9
  <2>2. corner = Call(x, PM("CornerKick", Opp(x.touch)))
    BY <1>9
  <2> QED  BY <1>8, <2>1, <2>2
<1>10. ASSUME x.touch # Neutral PROVE kickIn \in State /\ Forgets(x, kickIn)
  <2>1. x.touch \in Sides
    BY <1>10, Fields
  <2> QED  BY <1>8, <2>1
<1> HIDE DEF kickOff, after, goal, corner, goalKick, drop, kickIn
<1>11. y \in State /\ Forgets(x, y)
  BY <1>1, <1>2, <1>3, <1>4, <1>5, <1>6, <1>7, <1>9, <1>10
<1> QED  BY <1>11 DEF y

LEMMA CatchForgets ==
    ASSUME NEW x \in State, NEW carried \in BOOLEAN
    PROVE  LET y == CatchAnalyse(x, carried) IN y \in State /\ Forgets(x, y)
<1> DEFINE y == CatchAnalyse(x, carried)
           u == [x EXCEPT !.touched = {}]
           a == WaitThen(u, PM("IndFreeKick", Opp(x.mode.side)))
           b == WaitThen(u, PM("FreeKick", Opp(x.mode.side)))
           c == Call(u, PM("CatchFault", Side(x.catcher)))
<1>1. \/ x.mode.kind = "Back_Pass" /\ y = a
      \/ x.mode.kind = "CatchFault" /\ y = b
      \/ x.catcher # NoOne /\ y = c
      \/ y = u
  BY DEF CatchAnalyse, callCatchFault
<1>2. u \in State /\ Forgets(x, u)
  BY TouchedUpdate, MindUpdates, SameForgets
<1> HIDE DEF u, y
<1>3. ASSUME x.mode.kind \in {"Back_Pass", "CatchFault"}
      PROVE  a \in State /\ Forgets(u, a) /\ b \in State /\ Forgets(u, b)
  <2>1. Opp(x.mode.side) \in Sides
    BY <1>3, Fields, ModeFields, Opponents DEF SidedKinds, FaultKinds
  <2> QED  BY <1>2, <2>1, WaitForgets
<1>4. ASSUME x.catcher # NoOne PROVE c \in State /\ Forgets(u, c)
  <2>1. Side(x.catcher) \in Sides
    BY <1>4, Fields, Constants, PlayerSides
  <2> QED  BY <1>2, <2>1, RestartForgets
<1> HIDE DEF a, b, c
<1>5. y \in State /\ Forgets(x, y)
  BY <1>1, <1>2, <1>3, <1>4, ForgetsTrans
<1> QED  BY <1>5 DEF y

LEMMA FoulForgets ==
    ASSUME NEW x \in State, NEW inOwnArea \in BOOLEAN
    PROVE  LET y == FoulAnalyse(x, inOwnArea) IN y \in State /\ Forgets(x, y)
<1> DEFINE y == FoulAnalyse(x, inOwnArea)
<1>1. CASE x.mode.kind # "Foul_Charge"
  <2>1. y = x
    BY <1>1 DEF FoulAnalyse
  <2> QED  BY <2>1, SameForgets DEF SameMind
<1>2. CASE x.mode.kind = "Foul_Charge"
  <2>1. \E k \in {"FreeKick", "IndFreeKick"} : y = WaitThen(x, PM(k, Opp(x.mode.side)))
    BY <1>2 DEF FoulAnalyse
  <2>2. Opp(x.mode.side) \in Sides
    BY <1>2, Fields, ModeFields, Opponents DEF SidedKinds, FaultKinds
  <2> QED  BY <2>1, <2>2, WaitForgets
<1> QED  BY <1>1, <1>2

\* Illegal defence goes against the side that does not attack.
LEMMA DefenseForgets ==
    ASSUME NEW x \in State, NEW crowd \in Sides \cup {Neutral}
    PROVE  LET y == IllegalDefenseAnalyse(x, crowd) IN y \in State /\ Forgets(x, y)
<1> DEFINE y == IllegalDefenseAnalyse(x, crowd)
           counter == [w \in Sides |-> IF w = crowd /\ x.attacker = Opp(w)
                                       THEN x.illegal[w] + 1 ELSE 0]
           caught == {w \in Sides : counter[w] >= IllegalDuration}
           none == [w \in Sides |-> 0]
           a == [x EXCEPT !.illegal = counter]
           b == [x EXCEPT !.illegal = none]
           f == WaitThen(x, PM("FreeKick", Opp(x.mode.side)))
           c == Call(b, PM("Illegal_Defense", crowd))
<1>0. IllegalDuration \in Nat \ {0} /\ x.illegal \in [Sides -> 0 .. IllegalDuration - 1]
  BY Constants, Fields
<1>1. \/ y = x
      \/ x.mode.kind = "Illegal_Defense" /\ y = f
      \/ caught = {} /\ y = a
      \/ UseIllegalDefense /\ caught # {} /\ y = c
  BY DEF IllegalDefenseAnalyse
<1>2. caught = {} => counter \in [Sides -> 0 .. IllegalDuration - 1]
  <2>1. \A w \in Sides : x.illegal[w] \in 0 .. IllegalDuration - 1
    BY <1>0
  <2>2. \A w \in Sides : x.illegal[w] \in Nat
    BY <2>1, <1>0
  <2>3. \A w \in Sides : counter[w] \in Nat
    BY <2>2
  <2>4. caught = {} => \A w \in Sides : ~ (counter[w] >= IllegalDuration)
    OBVIOUS
  <2>5. counter = [w \in Sides |-> counter[w]]
    OBVIOUS
  <2> HIDE DEF counter, caught
  <2>6. caught = {} => \A w \in Sides : counter[w] \in 0 .. IllegalDuration - 1
    BY <1>0, <2>3, <2>4
  <2> QED  BY <2>5, <2>6
<1>3. caught # {} => crowd \in Sides /\ x.attacker = Opp(crowd)
  <2>1. \A w \in Sides : ~ (w = crowd /\ x.attacker = Opp(w)) => ~ (counter[w] >= IllegalDuration)
    BY <1>0
  <2> QED  BY <2>1
<1>4. none \in [Sides -> 0 .. IllegalDuration - 1]
  BY <1>0
<1> HIDE DEF counter, caught, none, y
<1>5. Forgets(x, a) /\ Forgets(x, b) /\ b \in State /\ (caught = {} => a \in State)
  BY <1>2, <1>4, DefenseUpdate, MindUpdates, SameForgets
<1>6. b.attacker = x.attacker
  BY <1>5 DEF Forgets
<1> HIDE DEF a, b
<1>7. Forgets(x, x)
  BY SameForgets DEF SameMind
<1>8. ASSUME x.mode.kind = "Illegal_Defense" PROVE f \in State /\ Forgets(x, f)
  <2>1. Opp(x.mode.side) \in Sides
    BY <1>8, Fields, ModeFields, Opponents DEF SidedKinds, FaultKinds
  <2> QED  BY <2>1, WaitForgets
<1>9. ASSUME UseIllegalDefense, caught # {} PROVE c \in State /\ Forgets(x, c)
  <2> DEFINE pm == PM("Illegal_Defense", crowd)
  <2>1. crowd \in Sides /\ x.attacker = Opp(crowd) /\ x.attacker \in Sides
    BY <1>3, <1>9, Opponents
  <2>2. pm \in PlayMode /\ pm.kind = "Illegal_Defense" /\ pm.side = crowd /\ pm # PlayOn
    BY <2>1, SidedMode DEF SidedKinds, FaultKinds
  <2>3. ChangedTo(b, c, pm) /\ SameKicker(b, c)
    BY <1>5, <2>2, CallResult DEF CalledAs
  <2> HIDE DEF pm, c
  <2>4. c \in State /\ c.mode = pm
    BY <2>3 DEF ChangedTo
  <2>5. Warranted(b, c)
    BY <1>6, <1>9, <2>1, <2>2, <2>4 DEF Warranted
  <2>6. Forgets(b, c)
    BY <2>2, <2>3, <2>5, ChangeForgets DEF SameKicker
  <2> QED  BY <1>5, <2>4, <2>6, ForgetsTrans
<1> HIDE DEF c, f
<1>10. y \in State /\ Forgets(x, y)
  BY <1>1, <1>5, <1>7, <1>8, <1>9
<1> QED  BY <1>10 DEF y

LEMMA AnalyseForgets ==
    ASSUME NEW x \in State, NEW v, v.near \in BOOLEAN, v.crowd \in Sides \cup {Neutral},
           v.inArea \in BOOLEAN, v.rests \in BOOLEAN, v.carried \in BOOLEAN,
           v.out \in {OnPitch} \cup Outs
    PROVE  /\ analyse(x, v) \in State /\ Forgets(x, analyse(x, v))
           /\ v.half # "no" => analyse(x, v).touch = Neutral
<1> DEFINE half == v.half
           near == v.near
           crowd == v.crowd
           inArea == v.inArea
           rests == v.rests
           carried == v.carried \/ v.out # OnPitch
           out == v.out
           a == TimeAnalyse(x, half)
           b == BallStuckAnalyse(a, near)
           c == OffsideAnalyse(b)
           d == FreeKickAnalyse(c, inArea, rests)
           e == TouchAnalyse(d, out)
           f == CatchAnalyse(e, carried)
           g == FoulAnalyse(f, inArea)
           y == IllegalDefenseAnalyse(g, crowd)
<1>1. /\ near \in BOOLEAN /\ crowd \in Sides \cup {Neutral} /\ inArea \in BOOLEAN
       /\ rests \in BOOLEAN /\ carried \in BOOLEAN /\ out \in {OnPitch} \cup Outs
  OBVIOUS
<1>2. analyse(x, v) = y
  BY Zenon DEF analyse
<1> HIDE DEF near, crowd, inArea, rests, carried, out
<1>3. a \in State /\ Forgets(x, a) /\ (half # "no" => a.touch = Neutral)
  BY TimeForgets
<1> HIDE DEF a
<1>4. b \in State /\ Forgets(a, b)
  BY <1>3, <1>1, StuckForgets
<1> HIDE DEF b
<1>5. c \in State /\ Forgets(b, c)
  BY <1>4, OffsideForgets
<1> HIDE DEF c
<1>6. d \in State /\ Forgets(c, d)
  BY <1>5, <1>1, FreeKickForgets
<1> HIDE DEF d
<1>7. e \in State /\ Forgets(d, e)
  BY <1>6, <1>1, TouchForgets
<1> HIDE DEF e
<1>8. f \in State /\ Forgets(e, f)
  BY <1>7, <1>1, CatchForgets
<1> HIDE DEF f
<1>9. g \in State /\ Forgets(f, g)
  BY <1>8, <1>1, FoulForgets
<1> HIDE DEF g
<1>10. y \in State /\ Forgets(g, y)
  BY <1>9, <1>1, DefenseForgets
<1> HIDE DEF y
<1>11. Forgets(a, c)
  BY <1>4, <1>5, ForgetsTrans
<1>12. Forgets(a, e)
  <2>1. Forgets(a, d)
    BY <1>6, <1>11, ForgetsTrans
  <2> QED  BY <1>7, <2>1, ForgetsTrans
<1>13. Forgets(a, g)
  <2>1. Forgets(a, f)
    BY <1>8, <1>12, ForgetsTrans
  <2> QED  BY <1>9, <2>1, ForgetsTrans
<1>14. Forgets(a, y)
  BY <1>10, <1>13, ForgetsTrans
<1>15. Forgets(x, y)
  BY <1>3, <1>14, ForgetsTrans
<1>16. half # "no" => y.touch = Neutral
  BY <1>3, <1>14 DEF Forgets
<1>17. y \in State /\ Forgets(x, y) /\ (half # "no" => y.touch = Neutral)
  BY <1>10, <1>15, <1>16
<1> QED  BY <1>17, <1>2

\* The new cycle makes a hard kick an old one if the clock ran.
LEMMA StaleForgets ==
    ASSUME NEW x \in State, NEW clockRan \in BOOLEAN, NEW back \in BOOLEAN
    PROVE  LET y == Stale(x, clockRan, back) IN
           /\ y.mode = x.mode /\ y.cands = x.cands /\ y.kicker = x.kicker /\ y.touch = x.touch
           /\ y.passer = x.passer /\ y.attacker = x.attacker
           /\ y.strength = IF clockRan THEN "none" ELSE x.strength
<1> DEFINE k == x.kickNow /\ back
           a == x.attackNow /\ ~ clockRan
           n == x.passNow /\ ~ clockRan
           r == IF clockRan THEN "none" ELSE x.strength
           y == [x EXCEPT !.kickNow = k, !.attackNow = a, !.passNow = n, !.strength = r]
<1>1. Stale(x, clockRan, back) = y
  BY DEF Stale
<1> HIDE DEF k, a, n
<1>2. y.mode = x.mode /\ y.cands = x.cands /\ y.kicker = x.kicker /\ y.touch = x.touch
  BY DEF State
<1>3. y.passer = x.passer /\ y.attacker = x.attacker /\ y.strength = r
  BY DEF State
<1> QED  BY <1>1, <1>2, <1>3

\* The history of a new cycle.
LEMMA CycledRecord ==
    ASSUME hist \in History, Cycled
    PROVE  /\ hist'.last = hist.last /\ hist'.free = hist.free /\ hist'.sides = hist.sides
           /\ hist'.kickSides = hist.kickSides /\ ~ hist'.kickNow
<1>1. PICK o : o = (Opened \/ (hist.open /\ ~ Closed))
  OBVIOUS
<1>2. PICK f : f = IF Opened \/ Closed THEN NoOne ELSE hist.first
  OBVIOUS
<1>3. PICK n : n = IF st'.mode = st.mode /\ st.mode.kind \in FreeKickKinds
                   THEN hist.waited + 1 ELSE 0
  OBVIOUS
<1> DEFINE g == [hist EXCEPT !.now = FALSE, !.kickNow = FALSE, !.open = o, !.first = f, !.waited = n]
<1>4. hist' = g
  BY <1>1, <1>2, <1>3 DEF Cycled, History
<1>5. /\ g.last = hist.last /\ g.free = hist.free /\ g.sides = hist.sides
      /\ g.kickSides = hist.kickSides /\ g.kickNow = FALSE
  BY DEF History
<1> QED  BY <1>4, <1>5

LEMMA StepKeepsMemory ==
    ASSUME TypeOK, Memory(st, hist), Step
    PROVE  Memory(st', hist') /\ Warranted(st, st')
<1>1. PICK v \in Views(st) :
        LET s == IF IsStopped(st.mode) THEN [st EXCEPT !.catcher = NoOne] ELSE st
            t == analyse(s, v)
            back == v.half = "back"
            clockRan == \/ IsLive(st.mode) /\ ~ back
                        \/ IsStopped(st.mode) /\ t.mode # st.mode
        IN  st' = Stale(t, clockRan, back) /\ Cycled
  BY DEF Step
<1> DEFINE c == [st EXCEPT !.catcher = NoOne]
           s == IF IsStopped(st.mode) THEN c ELSE st
           t == analyse(s, v)
<1>2. PICK back \in BOOLEAN : back = (v.half = "back")
  OBVIOUS
<1>3. PICK clockRan \in BOOLEAN : clockRan = (\/ IsLive(st.mode) /\ ~ back
                                              \/ IsStopped(st.mode) /\ t.mode # st.mode)
  OBVIOUS
<1>4. st' = Stale(t, clockRan, back) /\ Cycled
  BY <1>1, <1>2, <1>3
<1>5. st \in State /\ hist \in History
  BY DEF TypeOK
<1>6. s \in State /\ Forgets(st, s)
  <2>1. c \in State /\ SameMind(st, c)
    BY <1>5, HoldUpdate, MindUpdates
  <2> HIDE DEF c
  <2> QED  BY <1>5, <2>1, SameForgets DEF SameMind
<1>7. /\ v.half \in {"no", "up", "back"} /\ v.near \in BOOLEAN /\ v.crowd \in Sides \cup {Neutral}
      /\ v.inArea \in BOOLEAN /\ v.rests \in BOOLEAN /\ v.carried \in BOOLEAN
      /\ v.out \in {OnPitch} \cup Outs
  BY <1>5, ViewFields
<1> HIDE DEF s
<1>8. t \in State /\ Forgets(s, t) /\ (v.half # "no" => t.touch = Neutral)
  BY <1>6, <1>7, AnalyseForgets
<1> HIDE DEF t
<1>9. Forgets(st, t)
  BY <1>6, <1>8, ForgetsTrans
<1>10. /\ st'.mode = t.mode /\ st'.cands = t.cands /\ st'.kicker = t.kicker /\ st'.touch = t.touch
       /\ st'.passer = t.passer /\ st'.attacker = t.attacker
       /\ st'.strength = IF clockRan THEN "none" ELSE t.strength
  BY <1>4, <1>8, StaleForgets
<1>11. /\ hist'.last = hist.last /\ hist'.free = hist.free /\ hist'.sides = hist.sides
       /\ hist'.kickSides = hist.kickSides /\ ~ hist'.kickNow
  BY <1>4, <1>5, CycledRecord
<1>12. CandidatesKnown(st', hist')
  <2>1. st'.cands \subseteq st.cands /\ st'.kicker = st.kicker
    BY <1>9, <1>10 DEF Forgets
  <2> QED  BY <1>11, <2>1 DEF Memory, CandidatesKnown
<1>13. TouchKnown(st', hist')
  <2>1. CASE st'.touch = Neutral
    BY <2>1 DEF TouchKnown
  <2>2. CASE st'.touch # Neutral
    <3>1. /\ st'.touch = st.touch
          /\ st'.mode = st.mode \/ (st'.mode = PlayOn /\ IsLive(st.mode))
      BY <1>9, <1>10, <2>2 DEF Forgets
    <3>2. st'.mode.kind \notin CalledFirst => st.mode.kind \notin CalledFirst
      BY <3>1 DEF IsLive, CalledFirst, RestartKinds, FreeKickKinds
    <3>3. ~ back
      BY <1>2, <1>8, <1>10, <2>2
    <3>4. st'.strength = "hard" => st.strength = "hard" /\ ~ IsLive(st.mode)
      BY <1>3, <1>9, <1>10, <3>3 DEF Forgets
    <3>5. st'.mode.kind = "AfterGoal" => st.mode.kind = "AfterGoal"
      BY <3>1, NeutralModes
    <3> QED  BY <1>11, <2>2, <3>1, <3>2, <3>4, <3>5 DEF Memory, TouchKnown
  <2> QED  BY <2>1, <2>2
<1>14. PasserKnown(st', hist')
  BY <1>9, <1>10, <1>11 DEF Memory, PasserKnown, Forgets
<1>15. AttackerKnown(st', hist')
  BY <1>9, <1>10, <1>11 DEF Memory, AttackerKnown, Forgets
<1>16. Warranted(st, st')
  BY <1>9, <1>10 DEF Forgets, Warranted
<1> QED  BY <1>12, <1>13, <1>14, <1>15, <1>16 DEF Memory

------------------------------------------------------------------------------
(* All steps.                                                               *)

LEMMA PlaysKeepMemory ==
    ASSUME SetPlayInv, Memory(st, hist), NEW p \in Players, Plays(p)
    PROVE  Memory(st', hist') /\ Justified(st, st', hist, p)
<1>0. TypeOK /\ Core(st) /\ Powers(st) \subseteq {"none", "less", "most"}
  BY DEF SetPlayInv, Powers, If
<1>1. CASE Kick(p)
  <2>1. PICK power \in Powers(st), marked \in Marks(p) : st' = kickTaken(st, p, power, marked)
    BY <1>1 DEF Kick
  <2>2. st' = tackleTaken(st, p, power, marked, FALSE)
    BY <2>1 DEF tackleTaken
  <2> QED  BY <1>0, <1>1, <2>2, KickKeepsMemory DEF Kick, Played
<1>2. CASE Tackle(p)
  <2>1. PICK power \in Powers(st), marked \in Marks(p), charge \in BOOLEAN :
          st' = tackleTaken(st, p, power, marked, charge)
    BY <1>2 DEF Tackle
  <2> QED  BY <1>0, <1>2, <2>1, KickKeepsMemory DEF Tackle, Played
<1>3. CASE Touch(p)
  BY <1>0, <1>3, TouchKeepsMemory DEF Touch, Played
<1>4. CASE Catch(p)
  <2>1. PICK marked \in Marks(p), inArea \in BOOLEAN, q \in Players \cup {NoOne} :
          /\ st' = ballCaught(st, p, marked, inArea, q)
          /\ hist' = Play(IF q = NoOne THEN hist ELSE Play(hist, q, FALSE), p, FALSE)
    BY <1>4 DEF Catch
  <2>2. p \in Goalies
    BY <1>4 DEF Catch
  <2> QED  BY <1>0, <2>1, <2>2, CatchKeepsMemory
<1>5. CASE Punch(p)
  <2>1. PICK marked \in Marks(p), inArea \in BOOLEAN :
          st' = ballPunched(st, p, marked, inArea)
    BY <1>5 DEF Punch
  <2> QED  BY <1>0, <1>5, <2>1, PunchKeepsMemory DEF Punch, Played
<1> QED  BY <1>1, <1>2, <1>3, <1>4, <1>5 DEF Plays

\* Every step keeps the memories in line with the history, and makes no call
\* without one that asks for it.
LEMMA NextMemory ==
    ASSUME SetPlayInv, Memory(st, hist), [Next]_vars
    PROVE  /\ Memory(st', hist')
           /\ \/ Step /\ Warranted(st, st')
              \/ \E p \in Players : (Plays(p) \/ Miss(p)) /\ Justified(st, st', hist, p)
              \/ st'.mode = st.mode \/ st'.mode.kind \in {"PlayOn", "FreeKick", "KickOff"}
<1>0. TypeOK
  BY DEF SetPlayInv
<1>1. CASE Step
  BY <1>0, <1>1, StepKeepsMemory
<1>2. ASSUME NEW p \in Players, Plays(p)
      PROVE  Memory(st', hist') /\ Justified(st, st', hist, p)
  BY <1>2, PlaysKeepMemory
<1>3. ASSUME NEW p \in Players, Miss(p)
      PROVE  Memory(st', hist') /\ Justified(st, st', hist, p)
  BY <1>0, <1>3, MissKeepsMemory
<1>4. ASSUME NEW p \in Players, Dash(p)
      PROVE  Memory(st', hist') /\ st'.mode = st.mode
  BY <1>0, <1>4, DashKeepsMemory
<1>5. ASSUME NEW x \in Sides, KickOff(x)
      PROVE  Memory(st', hist') /\ st'.mode.kind = "KickOff"
  BY <1>0, <1>5, KickOffKeepsMemory, KickOffInv
<1>6. ASSUME NEW x \in Sides \cup {Neutral}, DispFoul(x)
      PROVE  Memory(st', hist') /\ st'.mode.kind \in {"PlayOn", "FreeKick"}
  BY <1>0, <1>6, DispFoulKeepsMemory, DispFoulInv
<1>7. CASE UNCHANGED vars
  BY <1>7 DEF vars
<1> QED  BY <1>1, <1>2, <1>3, <1>4, <1>5, <1>6, <1>7 DEF Next, Plays

MemoryInv == SetPlayInv /\ Memory(st, hist)

LEMMA InitMemory == Init => Memory(st, hist)
<1>0. SUFFICES ASSUME Init PROVE Memory(st, hist)
  OBVIOUS
<1>1. /\ st.cands = {} /\ st.touch = Neutral /\ st.passer = NoOne
      /\ hist.kickSides = {} /\ hist.kickNow = FALSE
  BY <1>0 DEF Init
<1> QED  BY <1>1 DEF Memory, CandidatesKnown, TouchKnown, PasserKnown, AttackerKnown

LEMMA MemoryInvHolds == Spec => []MemoryInv
<1>1. Init => MemoryInv
  BY InitInv, InitMemory DEF MemoryInv
<1>2. MemoryInv /\ [Next]_vars => MemoryInv'
  BY NextInv, NextMemory DEF MemoryInv
<1> QED  BY <1>1, <1>2, PTL DEF Spec

\* The player a step is about, in a step of p.
LEMMA ActorIs ==
    ASSUME SetPlayInv, NEW p \in Players, Plays(p) \/ Miss(p)
    PROVE  Actor = p
<1>0. hist \in History
  BY DEF SetPlayInv, TypeOK
<1>1. ASSUME p \notin done, done' = done \cup {p} PROVE Actor = p
  <2>1. done' \ done = {p} /\ done' # done /\ done' # {}
    BY <1>1
  <2> QED  BY <2>1 DEF Actor
<1>2. CASE Miss(p)
  BY <1>1, <1>2 DEF Miss, Commands
<1>3. CASE Plays(p)
  <2>1. /\ (p \notin done /\ done' = done \cup {p}) \/ done' = done
        /\ \E h \in History, kicked \in BOOLEAN : hist' = Play(h, p, kicked)
    BY <1>0, <1>3, PlaysSound
  <2>2. PICK h \in History, kicked \in BOOLEAN : hist' = Play(h, p, kicked)
    BY <2>1
  <2>3. hist'.last = p
    BY <2>2, PlayResult
  <2>4. CASE done' = done
    BY <2>3, <2>4 DEF Actor
  <2> QED  BY <1>1, <2>1, <2>4
<1> QED  BY <1>2, <1>3

------------------------------------------------------------------------------
(* The theorems.                                                            *)

\* After an offence the ball does not go out: the free kick follows.
LEMMA NoAwardAfterOffence ==
    ASSUME NEW m \in PlayMode, NEW n \in PlayMode, ModeMoves(m, n), m.kind \in CalledFirst
    PROVE  n.kind \notin {"KickIn", "CornerKick"}
<1>1. CASE n = m
  BY <1>1 DEF CalledFirst
<1>2. CASE n # m
  <2>1. m # BeforeKickOff /\ ~ IsLive(m) /\ m.kind # "CatchFault"
    BY NeutralModes DEF CalledFirst, IsLive, RestartKinds, FreeKickKinds
  <2>2. n \in RestartsAfter(m) \/ n \in {PM("OffSide", x) : x \in Sides}
    BY <1>2, <2>1 DEF ModeMoves, MovesOf, If
  <2>3. RestartsAfter(m) = {PM("FreeKick", Opp(m.side))}
    BY DEF RestartsAfter, CalledFirst
  <2>4. Opp(m.side) \in Sides
    BY ModeFields, Opponents DEF CalledFirst, SidedKinds, FaultKinds
  <2>5. PM("FreeKick", Opp(m.side)).kind = "FreeKick"
    BY <2>4, SidedMode DEF SidedKinds, RestartKinds, FreeKickKinds
  <2>6. \A x \in Sides : PM("OffSide", x).kind = "OffSide"
    BY SidedMode DEF SidedKinds, FaultKinds
  <2> QED  BY <2>2, <2>3, <2>5, <2>6
<1> QED  BY <1>1, <1>2

\* TouchRef gives a kick-in or a corner kick against a side that played the ball in
\* the last cycle in which it was played, however the touches, the kicks and the
\* calls of the other referees in a cycle are ordered.
THEOREM AwardedAgainstToucherHolds == Spec => AwardedAgainstToucher
<1> DEFINE Awarded == \A k \in {"KickIn", "CornerKick"} :
                        Called(k) => Opp(st'.mode.side) \in hist.sides
<1>1. MemoryInv /\ [Next]_vars => Awarded
  <2>0. SUFFICES ASSUME MemoryInv, [Next]_vars, NEW k \in {"KickIn", "CornerKick"},
                        st'.mode.kind = k, st.mode.kind # k
                 PROVE  Opp(st'.mode.side) \in hist.sides
    BY DEF Called
  <2>1. SetPlayInv /\ Memory(st, hist)
    BY <2>0 DEF MemoryInv
  <2>2. Step /\ Warranted(st, st')
    BY <2>0, <2>1, NextMemory DEF Justified
  <2>3. st.touch \in Sides /\ Opp(st'.mode.side) = st.touch
    BY <2>0, <2>2 DEF Warranted
  <2>4. st.mode \in PlayMode /\ st'.mode \in PlayMode /\ ModeMoves(st.mode, st'.mode)
    <3>1. CycleSound(st, st') /\ st \in State
      BY <2>1, <2>2, StepCycles DEF SetPlayInv, TypeOK
    <3> QED  BY <3>1, Fields DEF CycleSound
  <2>5. st.mode.kind \notin CalledFirst
    BY <2>0, <2>4, NoAwardAfterOffence
  <2>6. st.touch \in hist.sides \cup {Neutral}
    BY <2>1, <2>5 DEF Memory, TouchKnown
  <2> QED  BY <2>3, <2>6, Opponents
<1>2. AwardedAgainstToucher <=> [][Awarded]_vars
  BY DEF AwardedAgainstToucher
<1> HIDE DEF Awarded
<1> QED  BY <1>1, <1>2, MemoryInvHolds, PTL DEF Spec

\* CatchRef calls a back pass only if in the last cycle with a kick the goalie's
\* side alone kicked the ball, whoever touched it in between.
THEOREM BackPassWasKickedHolds == Spec => BackPassWasKicked
<1> DEFINE Kicked == Called("Back_Pass") => hist.kickSides = {st'.mode.side}
<1>1. MemoryInv /\ [Next]_vars => Kicked
  <2>0. SUFFICES ASSUME MemoryInv, [Next]_vars, st'.mode.kind = "Back_Pass",
                        st.mode.kind # "Back_Pass"
                 PROVE  hist.kickSides = {st'.mode.side}
    BY DEF Called
  <2>1. SetPlayInv /\ Memory(st, hist)
    BY <2>0 DEF MemoryInv
  <2>2. \E p \in Players : Justified(st, st', hist, p)
    BY <2>0, <2>1, NextMemory DEF Warranted
  <2> QED  BY <2>0, <2>2 DEF Justified
<1>2. BackPassWasKicked <=> [][Kicked]_vars
  BY DEF BackPassWasKicked
<1> HIDE DEF Kicked
<1> QED  BY <1>1, <1>2, MemoryInvHolds, PTL DEF Spec

\* OffsideRef, as long as it knows the last kicker's side, calls offside only on a
\* player whose team-mate played the ball immediately before, and not from a
\* kick-in, a goal kick or a corner kick: no touch by an opponent and no second
\* play in the same cycle leaves a stale mark.
THEOREM OffsideFollowsPassHolds == Spec => OffsideFollowsPass
<1> DEFINE Passed == Called("OffSide") /\ st.kicker # Neutral =>
                       /\ Actor \in Mates(hist.last)
                       /\ ~ hist.free
<1>1. MemoryInv /\ [Next]_vars => Passed
  <2>0. SUFFICES ASSUME MemoryInv, [Next]_vars, st'.mode.kind = "OffSide",
                        st.mode.kind # "OffSide", st.kicker # Neutral
                 PROVE  Actor \in Mates(hist.last) /\ ~ hist.free
    BY DEF Called
  <2>1. SetPlayInv /\ Memory(st, hist)
    BY <2>0 DEF MemoryInv
  <2>2. PICK p \in Players : (Plays(p) \/ Miss(p)) /\ Justified(st, st', hist, p)
    BY <2>0, <2>1, NextMemory DEF Warranted
  <2>3. p \in st.cands
    BY <2>0, <2>2 DEF Justified
  <2>4. p \in Mates(hist.last) /\ ~ hist.free
    BY <2>0, <2>1, <2>3 DEF Memory, CandidatesKnown
  <2>5. Actor = p
    BY <2>1, <2>2, ActorIs
  <2> QED  BY <2>4, <2>5
<1>2. OffsideFollowsPass <=> [][Passed]_vars
  BY DEF OffsideFollowsPass
<1> HIDE DEF Passed
<1> QED  BY <1>1, <1>2, MemoryInvHolds, PTL DEF Spec

\* IllegalDefenseRef calls illegal defence only if in the last cycle with a kick
\* nobody but the other side kicked the ball, or nobody has kicked it yet.
THEOREM IllegalDefenseUnderAttackHolds == Spec => IllegalDefenseUnderAttack
<1> DEFINE Attacked == Called("Illegal_Defense") =>
                         hist.kickSides \in {{}, {Opp(st'.mode.side)}}
<1>1. MemoryInv /\ [Next]_vars => Attacked
  <2>0. SUFFICES ASSUME MemoryInv, [Next]_vars, st'.mode.kind = "Illegal_Defense",
                        st.mode.kind # "Illegal_Defense"
                 PROVE  hist.kickSides \in {{}, {Opp(st'.mode.side)}}
    BY DEF Called
  <2>1. SetPlayInv /\ Memory(st, hist)
    BY <2>0 DEF MemoryInv
  <2>2. Warranted(st, st')
    BY <2>0, <2>1, NextMemory DEF Justified
  <2>3. UseIllegalDefense /\ st.attacker \in Sides /\ Opp(st'.mode.side) = st.attacker
    BY <2>0, <2>2 DEF Warranted
  <2>4. hist.kickSides \subseteq {st.attacker}
    BY <2>1, <2>3, Opponents DEF Memory, AttackerKnown
  <2> QED  BY <2>3, <2>4
<1>2. IllegalDefenseUnderAttack <=> [][Attacked]_vars
  BY DEF IllegalDefenseUnderAttack
<1> HIDE DEF Attacked
<1> QED  BY <1>1, <1>2, MemoryInvHolds, PTL DEF Spec
=============================================================================
