-------------------------- MODULE VodClientProofs ---------------------------
(***************************************************************************)
(* VodClient, for any bound on the list: what is on the screen.            *)
(*                                                                         *)
(* A picture the main thread has drawn goes away again by a step of its    *)
(* own (Wipe) or when the clearing thread finds its name in the list.  So  *)
(* the invariant looks ahead in the handler that runs: the pictures it     *)
(* counts on are drawn, or will be, and are taken off the list first       *)
(* (WillShow); and a picture that is wiped or found in the list is one the *)
(* state of the first area does not name, or the state is set later in the *)
(* same handler.                                                           *)
(***************************************************************************)
EXTENDS VodClient, TLAPS, FiniteSetTheorems, SequenceTheorems

Listed(n) == \E j \in DOMAIN clearlist : clearlist[j] = n

\* Before place i of a handler, n is drawn; and before that taken off the list.
Drawn(q, i, n) == \E j \in 1 .. i - 1 : q[j] = Op("draw", n)

Freed(q, i, n) ==
    \E j \in 1 .. i - 1 : q[j] = Op("draw", n) /\ \E d \in 1 .. j - 1 : q[d] = Op("del", n)

\* At place i of the handler that runs, n will be on the screen and not in the
\* list, unless the handler wipes or queues it.
WillShow(n, i) ==
    \/ (n \in shown \/ Drawn(todo, i, n)) /\ ~Listed(n)
    \/ Freed(todo, i, n)

QuietOps == {"del", "draw", "expire", "area1"}

Quiet == \A i \in DOMAIN todo : todo[i].what \in QuietOps

Arrows == {"left", "right"}

OpSet == [what : QuietOps \cup {"add", "wipe", "ask"}, name : Images \cup {undef}]

TodoOK ==
    /\ todo \in Seq(OpSet)
    /\ \A i \in DOMAIN todo :
         /\ todo[i].what \in {"add", "del", "draw", "wipe"} => todo[i].name \in Images
         /\ todo[i].what = "ask" => i = Len(todo)
         /\ todo[i] # Op("add", "right")

ThreadOK ==
    /\ thread \in [pc : {"sleep", "down", "state", "wipe", "expire", "up"}, j : Nat \ {0}]
    /\ thread.pc = "wipe" => thread.j <= Len(clearlist)

BarInv == key = "LEFT" => Quiet /\ WillShow("bar", Len(todo) + 1)

\* A handler that says an arrow is in the first area has drawn it by then.
ArrowDrawn ==
    \A i \in DOMAIN todo : \A n \in Arrows :
        todo[i] = Op("area1", n) => Quiet /\ WillShow(n, i)

\* A handler that wipes an arrow says afterwards what is in the first area.
Told(q) ==
    \A i \in DOMAIN q : (q[i].what = "wipe" /\ q[i].name \in Arrows) =>
        \E j \in i + 1 .. Len(q) : q[j].what = "area1"

StateTrue ==
    area1_img_state \in Arrows =>
        \/ area1_img_state \in shown
        \/ \E i \in DOMAIN todo : todo[i].what = "area1"

\* The clearing thread gives up the state before it wipes an arrow.
ThreadTold ==
    (thread.pc = "wipe" /\ clearlist[thread.j] \in Arrows) => area1_img_state # clearlist[thread.j]

IInv ==
    /\ TypeOK /\ TodoOK /\ ThreadOK /\ Room(todo) /\ ~Listed("right")
    /\ BarInv /\ ArrowDrawn /\ Told(todo) /\ StateTrue /\ ThreadTold

-----------------------------------------------------------------------------
(***************************************************************************)
(* Handlers are put together from pieces: what is said of all operations   *)
(* of the pieces holds of all of the handler, and the places in a piece    *)
(* are found again in the handler.                                         *)
(***************************************************************************)
LEMMA Pieces ==
  ASSUME NEW S, NEW a \in Seq(S), NEW b \in Seq(S)
  PROVE  /\ a \o b \in Seq(S)
         /\ Len(a \o b) = Len(a) + Len(b)
         /\ \A i \in 1 .. Len(a) : (a \o b)[i] = a[i]
         /\ \A i \in 1 .. Len(b) : (a \o b)[Len(a) + i] = b[i]
         /\ \A i \in 1 .. Len(a) + Len(b) :
              i \in 1 .. Len(a) \/ \E j \in 1 .. Len(b) : i = Len(a) + j
  BY ConcatProperties

LEMMA OneOp ==
  ASSUME NEW S, NEW x \in S
  PROVE  <<x>> \in Seq(S) /\ Len(<<x>>) = 1 /\ <<x>>[1] = x
  OBVIOUS

LEMMA TwoOps ==
  ASSUME NEW S, NEW x \in S, NEW y \in S
  PROVE  /\ <<x>> \o <<y>> \in Seq(S) /\ Len(<<x>> \o <<y>>) = 2
         /\ (<<x>> \o <<y>>)[1] = x /\ (<<x>> \o <<y>>)[2] = y
         /\ <<x, y>> \in Seq(S) /\ Len(<<x, y>>) = 2
         /\ <<x, y>>[1] = x /\ <<x, y>>[2] = y
  OBVIOUS

LEMMA LargerSeq ==
  ASSUME NEW S, NEW T, S \subseteq T, NEW q \in Seq(S)
  PROVE  q \in Seq(T)
  OBVIOUS

\* What clears the first area, but for its last step.
PicOps == {Op(w, n) : w \in {"del", "wipe"}, n \in Images}

\* What handlers of other keys than the arrows do besides.
RestOps ==
    {Op(w, n) : w \in {"add", "del", "draw", "wipe"}, n \in Images \ Arrows}
    \cup {Op("add", "left"), Op("expire", undef), Op("area1", "MuteIcon")}

ClearOps == PicOps \cup RestOps \cup {Op("area1", undef)}

Clears(q) == q \in Seq(ClearOps) /\ Told(q)

LEMMA ClearsMore ==
  ASSUME NEW q, Clears(q), NEW r \in Seq(RestOps)
  PROVE  Clears(q \o r)
<1>1. q \in Seq(ClearOps) /\ r \in Seq(ClearOps)
  <2>1. RestOps \subseteq ClearOps
    BY DEF ClearOps
  <2> QED
    BY <2>1, LargerSeq DEF Clears
<1> DEFINE m == q \o r
<1>2. /\ m \in Seq(ClearOps)
      /\ Len(m) = Len(q) + Len(r)
      /\ \A i \in 1 .. Len(q) : m[i] = q[i]
      /\ \A i \in 1 .. Len(r) : m[Len(q) + i] = r[i]
      /\ \A i \in 1 .. Len(m) : i \in 1 .. Len(q) \/ \E j \in 1 .. Len(r) : i = Len(q) + j
  BY <1>1, Pieces
<1> HIDE DEF m
<1>3. \A j \in 1 .. Len(r) : ~(r[j].what = "wipe" /\ r[j].name \in Arrows)
  BY DEF RestOps, Op
<1>4. Told(m)
  <2> SUFFICES ASSUME NEW i \in 1 .. Len(m), m[i].what = "wipe", m[i].name \in Arrows
               PROVE  \E j \in i + 1 .. Len(m) : m[j].what = "area1"
    BY <1>2 DEF Told
  <2>1. i \in 1 .. Len(q) /\ m[i] = q[i]
    BY <1>2, <1>3
  <2>2. PICK j \in i + 1 .. Len(q) : q[j].what = "area1"
    BY <2>1, <1>1 DEF Clears, Told
  <2>3. j \in 1 .. Len(q) /\ j \in i + 1 .. Len(m)
    BY <2>1, <1>1, <1>2
  <2> QED
    BY <2>2, <2>3, <1>2
<1> QED
  BY <1>2, <1>4 DEF Clears, m

LEMMA ClearsNothing == Clears(<<>>)
  BY DEF Clears, Told

LEMMA ClearsArea1 == Clears(clear_area1)
<1>1. \A n \in Images : Cleared(n) \in Seq(PicOps)
  <2> TAKE n \in Images
  <2>1. Op("del", n) \in PicOps /\ Op("wipe", n) \in PicOps
    BY DEF PicOps
  <2> QED
    BY <2>1, TwoOps DEF Cleared, del_clear_event, send_clear_img
<1> DEFINE X2 == Cleared("play") \o Cleared("stop")
           X3 == X2 \o Cleared("left")
           X4 == X3 \o Cleared("right")
           last == <<Op("area1", undef)>>
           m == X4 \o last
<1>5. clear_area1 = m
  BY DEF clear_area1, set_area1
<1>2. X2 \in Seq(PicOps)
  BY <1>1, Pieces DEF Images
<1> HIDE DEF X2
<1>3. X3 \in Seq(PicOps)
  BY <1>1, <1>2, Pieces DEF Images
<1> HIDE DEF X3
<1>4. X4 \in Seq(PicOps)
  BY <1>1, <1>3, Pieces DEF Images
<1> HIDE DEF X4
<1>6. X4 \in Seq(ClearOps)
  <2>1. PicOps \subseteq ClearOps
    BY DEF ClearOps
  <2> QED
    BY <2>1, <1>4, LargerSeq
<1>7. last \in Seq(ClearOps) /\ Len(last) = 1 /\ last[1] = Op("area1", undef)
  BY OneOp DEF ClearOps
<1> HIDE DEF last
<1>8. /\ m \in Seq(ClearOps)
      /\ Len(m) = Len(X4) + 1
      /\ m[Len(X4) + 1] = Op("area1", undef)
  <2>1. /\ m \in Seq(ClearOps)
        /\ Len(m) = Len(X4) + Len(last)
        /\ \A i \in 1 .. Len(last) : m[Len(X4) + i] = last[i]
    <3>1. X4 \in Seq(ClearOps) /\ last \in Seq(ClearOps)
      BY <1>6, <1>7
    <3> QED
      BY <3>1, Pieces
  <2> HIDE DEF m
  <2>2. 1 \in 1 .. Len(last)
    BY <1>7
  <2>3. m[Len(X4) + 1] = last[1]
    BY <2>1, <2>2
  <2> QED
    BY <2>1, <2>3, <1>7
<1> HIDE DEF m
<1>9. Told(m)
  <2> SUFFICES ASSUME NEW i \in 1 .. Len(m), m[i].what = "wipe"
               PROVE  \E j \in i + 1 .. Len(m) : m[j].what = "area1"
    BY <1>8 DEF Told
  <2>1. Len(X4) \in Nat /\ i # Len(X4) + 1
    BY <1>6, <1>8 DEF Op
  <2>2. Len(X4) + 1 \in i + 1 .. Len(m)
    BY <2>1, <1>8
  <2> QED
    BY <2>2, <1>8 DEF Op
<1> QED
  BY <1>5, <1>8, <1>9 DEF Clears

\* The pieces of those handlers.
LEMMA RestPieces ==
  /\ \A n \in Images \ Arrows :
       /\ send_img(n) \in Seq(RestOps)
       /\ add_clear_event(n) \in Seq(RestOps)
       /\ Cleared(n) \in Seq(RestOps)
  /\ add_clear_event("left") \in Seq(RestOps)
  /\ set_area1("MuteIcon") \in Seq(RestOps)
<1>1. ASSUME NEW n \in Images \ Arrows
      PROVE  /\ send_img(n) \in Seq(RestOps)
             /\ add_clear_event(n) \in Seq(RestOps)
             /\ Cleared(n) \in Seq(RestOps)
  <2>1. /\ Op("draw", n) \in RestOps /\ Op("expire", undef) \in RestOps
        /\ Op("add", n) \in RestOps /\ Op("del", n) \in RestOps /\ Op("wipe", n) \in RestOps
    BY DEF RestOps
  <2> QED
    BY <2>1, OneOp, TwoOps
       DEF send_img, add_clear_event, Cleared, del_clear_event, send_clear_img
<1>2. /\ add_clear_event("left") \in Seq(RestOps)
      /\ set_area1("MuteIcon") \in Seq(RestOps)
  BY OneOp DEF add_clear_event, set_area1, RestOps
<1> QED
  BY <1>1, <1>2

\* The handlers of all other keys than left and right.
LEMMA OtherHandlers ==
  ASSUME NEW k \in Keys \ {"LEFT", "RIGHT"}
  PROVE  \E q : Clears(q) /\ Handler(k) \in {q, q \o <<Op("ask", undef)>>}
<1>1. {"bar", "play", "stop", "audio", "MuteIcon"} \subseteq Images \ Arrows
  BY DEF Images, Arrows
<1>2. CASE Resumes(k)
  <2>1. ~Pauses(k) /\ ~Chooses(k) /\ k \in {"PLAY", "SELECT"}
    BY <1>2 DEF Resumes, Pauses, Chooses
  <2>2. Handler(k) = clear_area1 \o send_img("play") \o add_clear_event("play")
    BY <2>1, <1>2 DEF Handler
  <2>3. Clears(clear_area1 \o send_img("play"))
    BY <1>1, ClearsArea1, ClearsMore, RestPieces
  <2> QED
    BY <2>2, <2>3, <1>1, ClearsMore, RestPieces
<1>3. CASE Pauses(k)
  <2>1. ~Resumes(k) /\ ~Chooses(k) /\ k \in {"PAUSE", "SELECT"}
    BY <1>3 DEF Resumes, Pauses, Chooses
  <2>2. Handler(k) = clear_area1 \o send_img("stop")
    BY <2>1, <1>3 DEF Handler
  <2> QED
    BY <2>2, <1>1, ClearsArea1, ClearsMore, RestPieces
<1>4. CASE Chooses(k)
  <2>1. ~Resumes(k) /\ ~Pauses(k) /\ k = "SELECT"
    BY <1>4 DEF Resumes, Pauses, Chooses
  <2>2. Handler(k) = send_img("bar") \o add_clear_event("bar") \o add_clear_event("left")
    BY <2>1, <1>4 DEF Handler
  <2>3. send_img("bar") \o add_clear_event("bar") \in Seq(RestOps)
    BY <1>1, RestPieces, Pieces
  <2>4. Handler(k) \in Seq(RestOps)
    BY <2>2, <2>3, RestPieces, Pieces
  <2> QED
    BY <2>4, ClearsNothing, ClearsMore, ConcatEmptySeq
<1> DEFINE Plain == ~Resumes(k) /\ ~Pauses(k) /\ ~Chooses(k)
<1>5. CASE Plain /\ k \in {"VOLUME", "MUTE"}
  <2>1. Handler(k) = VolumeHandler(k = "MUTE")
    BY <1>5 DEF Handler
  <2>2. PICK r \in Seq(RestOps) : Handler(k) = clear_area1 \o r
    <3>1. /\ send_img("MuteIcon") \o set_area1("MuteIcon") \in Seq(RestOps)
          /\ send_img("audio") \o add_clear_event("bar") \in Seq(RestOps)
      BY <1>1, RestPieces, Pieces
    <3> QED
      BY <2>1, <3>1 DEF VolumeHandler
  <2> QED
    BY <2>2, ClearsArea1, ClearsMore
<1>6. CASE Plain /\ k = "BACK" /\ wait_ok
  <2>1. Handler(k) = clear_area1 \o clear_area2
    BY <1>6 DEF Handler
  <2> QED
    BY <2>1, <1>1, ClearsArea1, ClearsMore, RestPieces DEF clear_area2
<1>7. CASE Plain /\ k = "STOP"
  <2>1. Handler(k) = clear_area1 \o clear_area2 \o <<Op("ask", undef)>>
    BY <1>7 DEF Handler
  <2>2. Clears(clear_area1 \o clear_area2)
    BY <1>1, ClearsArea1, ClearsMore, RestPieces DEF clear_area2
  <2> QED
    BY <2>1, <2>2
<1>8. CASE Plain /\ k \notin {"VOLUME", "MUTE", "STOP"} /\ ~(k = "BACK" /\ wait_ok)
  <2>1. Handler(k) = <<>>
    BY <1>8 DEF Handler
  <2> QED
    BY <2>1, ClearsNothing
<1> QED
  BY <1>2, <1>3, <1>4, <1>5, <1>6, <1>7, <1>8

LEMMA ThenTwo ==
  ASSUME NEW S, NEW q \in Seq(S), NEW r \in Seq(S)
  PROVE  Len(r) = 2 =>
           /\ q \o r \in Seq(S)
           /\ Len(q \o r) = Len(q) + 2
           /\ \A i \in 1 .. Len(q) : (q \o r)[i] = q[i]
           /\ (q \o r)[Len(q) + 1] = r[1] /\ (q \o r)[Len(q) + 2] = r[2]
<1>1. /\ q \o r \in Seq(S)
      /\ Len(q \o r) = Len(q) + Len(r)
      /\ \A i \in 1 .. Len(q) : (q \o r)[i] = q[i]
      /\ \A i \in 1 .. Len(r) : (q \o r)[Len(q) + i] = r[i]
  BY Pieces
<1> HAVE Len(r) = 2
<1> DEFINE m == q \o r
<1> HIDE DEF m
<1>2. 1 \in 1 .. Len(r) /\ 2 \in 1 .. Len(r)
  OBVIOUS
<1>3. /\ m \in Seq(S)
      /\ Len(m) = Len(q) + Len(r)
      /\ \A i \in 1 .. Len(q) : m[i] = q[i]
      /\ \A i \in 1 .. Len(r) : m[Len(q) + i] = r[i]
  BY <1>1 DEF m
<1>4. m[Len(q) + 1] = r[1] /\ m[Len(q) + 2] = r[2]
  BY <1>2, <1>3
<1> QED
  BY <1>3, <1>4 DEF m

LEMMA ThenOne ==
  ASSUME NEW S, NEW q \in Seq(S), NEW x \in S
  PROVE  /\ q \o <<x>> \in Seq(S)
         /\ Len(q \o <<x>>) = Len(q) + 1
         /\ \A i \in 1 .. Len(q) : (q \o <<x>>)[i] = q[i]
         /\ (q \o <<x>>)[Len(q) + 1] = x
<1> DEFINE r == <<x>>
           m == q \o r
<1>1. r \in Seq(S) /\ Len(r) = 1 /\ r[1] = x
  BY OneOp
<1> HIDE DEF r
<1>2. /\ m \in Seq(S)
      /\ Len(m) = Len(q) + Len(r)
      /\ \A i \in 1 .. Len(q) : m[i] = q[i]
      /\ \A i \in 1 .. Len(r) : m[Len(q) + i] = r[i]
  <2>1. r \in Seq(S)
    BY <1>1
  <2> QED
    BY <2>1, Pieces
<1> HIDE DEF m
<1>3. m[Len(q) + 1] = x
  BY <1>1, <1>2
<1>4. /\ m \in Seq(S) /\ Len(m) = Len(q) + 1 /\ \A i \in 1 .. Len(q) : m[i] = q[i]
      /\ m[Len(q) + 1] = x
  BY <1>1, <1>2, <1>3
<1> QED
  BY <1>4, Zenon DEF m, r

\* Left and right draw their picture before they say that it is there.
ArrowOps == {Op(w, n) : w \in {"del", "draw", "area1"}, n \in Images} \cup {Op("expire", undef)}

LEMMA ArrowPieces ==
  ASSUME NEW n \in Images
  PROVE  /\ <<Op("del", n)>> \in Seq(ArrowOps) /\ Len(<<Op("del", n)>>) = 1
         /\ <<Op("area1", n)>> \in Seq(ArrowOps) /\ Len(<<Op("area1", n)>>) = 1
         /\ send_img(n) \in Seq(ArrowOps) /\ Len(send_img(n)) = 2
         /\ send_img(n)[1] = Op("draw", n) /\ send_img(n)[2] = Op("expire", undef)
<1>1. /\ Op("del", n) \in ArrowOps /\ Op("area1", n) \in ArrowOps
      /\ Op("draw", n) \in ArrowOps /\ Op("expire", undef) \in ArrowOps
  BY DEF ArrowOps
<1>2. /\ <<Op("del", n)>> \in Seq(ArrowOps) /\ Len(<<Op("del", n)>>) = 1
      /\ <<Op("area1", n)>> \in Seq(ArrowOps) /\ Len(<<Op("area1", n)>>) = 1
  BY <1>1, OneOp
<1> QED
  BY <1>1, <1>2, TwoOps DEF send_img

LEMMA LeftOps ==
  /\ LeftHandler \in Seq(ArrowOps)
  /\ Freed(LeftHandler, Len(LeftHandler) + 1, "bar")
  /\ \A i \in 1 .. Len(LeftHandler) : \A n \in Arrows :
       LeftHandler[i] = Op("area1", n) => Freed(LeftHandler, i, n)
<1> DEFINE d == <<Op("del", "left")>>
           D == d \o send_img("left")
           A == D \o <<Op("area1", "left")>>
           P == IF area1_img_state # "left" THEN A ELSE <<>>
           B == P \o <<Op("del", "bar")>>
           q == B \o send_img("bar")
<1>1. LeftHandler = q
  BY DEF LeftHandler, del_clear_event, set_area1
<1>2. /\ d \in Seq(ArrowOps) /\ Len(d) = 1 /\ d[1] = Op("del", "left")
  BY ArrowPieces DEF Images
<1>3. /\ send_img("left") \in Seq(ArrowOps) /\ Len(send_img("left")) = 2
      /\ send_img("left")[1] = Op("draw", "left") /\ send_img("left")[2] = Op("expire", undef)
      /\ send_img("bar") \in Seq(ArrowOps) /\ Len(send_img("bar")) = 2
      /\ send_img("bar")[1] = Op("draw", "bar") /\ send_img("bar")[2] = Op("expire", undef)
  BY ArrowPieces DEF Images
<1>4. Op("area1", "left") \in ArrowOps /\ Op("del", "bar") \in ArrowOps
  BY DEF ArrowOps, Images
<1> HIDE DEF d
<1>5. /\ D \in Seq(ArrowOps) /\ Len(D) = 3
      /\ D[1] = Op("del", "left") /\ D[2] = Op("draw", "left") /\ D[3] = Op("expire", undef)
  <2>1. /\ D \in Seq(ArrowOps)
        /\ Len(D) = Len(d) + 2
        /\ \A i \in 1 .. Len(d) : D[i] = d[i]
        /\ D[Len(d) + 1] = send_img("left")[1] /\ D[Len(d) + 2] = send_img("left")[2]
    BY <1>2, <1>3, ThenTwo
  <2> HIDE DEF D
  <2> QED
    BY <2>1, <1>2, <1>3
<1> HIDE DEF D
<1>6. /\ A \in Seq(ArrowOps) /\ Len(A) = 4
      /\ A[1] = Op("del", "left") /\ A[2] = Op("draw", "left") /\ A[3] = Op("expire", undef)
      /\ A[4] = Op("area1", "left")
  <2>1. /\ A \in Seq(ArrowOps)
        /\ Len(A) = Len(D) + 1
        /\ \A i \in 1 .. Len(D) : A[i] = D[i]
        /\ A[Len(D) + 1] = Op("area1", "left")
    BY <1>4, <1>5, ThenOne
  <2> HIDE DEF A
  <2> QED
    BY <2>1, <1>5
<1> HIDE DEF A
<1>7. /\ P \in Seq(ArrowOps) /\ Len(P) \in Nat
      /\ P = A \/ P = <<>>
  BY <1>6
<1> HIDE DEF P
<1>8. /\ B \in Seq(ArrowOps)
      /\ Len(B) = Len(P) + 1
      /\ \A i \in 1 .. Len(P) : B[i] = P[i]
      /\ B[Len(P) + 1] = Op("del", "bar")
  BY <1>4, <1>7, ThenOne
<1> HIDE DEF B
<1>9. /\ q \in Seq(ArrowOps)
      /\ Len(q) = Len(B) + 2
      /\ \A i \in 1 .. Len(B) : q[i] = B[i]
      /\ q[Len(B) + 1] = Op("draw", "bar") /\ q[Len(B) + 2] = Op("expire", undef)
  BY <1>3, <1>8, ThenTwo
<1> HIDE DEF q
<1>10. Freed(q, Len(q) + 1, "bar")
  <2>1. /\ Len(P) + 1 \in 1 .. Len(P) + 1 /\ Len(P) + 2 \in 1 .. Len(q)
        /\ q[Len(P) + 1] = Op("del", "bar") /\ q[Len(P) + 2] = Op("draw", "bar")
    BY <1>7, <1>8, <1>9
  <2> QED
    BY <2>1, <1>7, <1>9 DEF Freed
<1>11. ASSUME NEW i \in 1 .. Len(q), NEW n \in Arrows, q[i] = Op("area1", n)
       PROVE  Freed(q, i, n)
  <2>1. i \in 1 .. Len(P) /\ q[i] = P[i]
    <3>1. i \in 1 .. Len(P) \/ i = Len(P) + 1 \/ i = Len(P) + 2 \/ i = Len(P) + 3
      BY <1>7, <1>8, <1>9
    <3>2. q[Len(P) + 1] = Op("del", "bar") /\ q[Len(P) + 2] = Op("draw", "bar")
          /\ q[Len(P) + 3] = Op("expire", undef)
      BY <1>7, <1>8, <1>9
    <3>3. i # Len(P) + 1 /\ i # Len(P) + 2 /\ i # Len(P) + 3
      BY <3>2, <1>11 DEF Op
    <3> QED
      BY <3>1, <3>3, <1>7, <1>8, <1>9
  <2>2. P = A
    BY <2>1, <1>7
  <2>3. i = 4 /\ n = "left"
    BY <2>1, <2>2, <1>6, <1>11 DEF Op
  <2>4. /\ 1 \in 1 .. Len(P) /\ 2 \in 1 .. Len(P)
        /\ P[1] = Op("del", "left") /\ P[2] = Op("draw", "left")
    BY <2>2, <1>6
  <2>5. B[1] = P[1] /\ B[2] = P[2] /\ 1 \in 1 .. Len(B) /\ 2 \in 1 .. Len(B)
    BY <2>4, <1>7, <1>8
  <2>6. q[1] = B[1] /\ q[2] = B[2]
    BY <2>5, <1>9
  <2>7. q[1] = Op("del", "left") /\ q[2] = Op("draw", "left")
    BY <2>4, <2>5, <2>6
  <2> QED
    BY <2>3, <2>7 DEF Freed
<1> QED
  BY <1>1, <1>9, <1>10, <1>11

LEMMA RightOps ==
  /\ RightHandler \in Seq(ArrowOps)
  /\ \A i \in 1 .. Len(RightHandler) : \A n \in Arrows :
       RightHandler[i] = Op("area1", n) => n = "right" /\ Drawn(RightHandler, i, n)
<1> DEFINE s == send_img("right")
           A == s \o <<Op("area1", "right")>>
           P == IF area1_img_state # "right" THEN A ELSE <<>>
           q == P \o send_img("bar")
<1>1. RightHandler = q
  BY DEF RightHandler, set_area1
<1>2. /\ s \in Seq(ArrowOps) /\ Len(s) = 2
      /\ s[1] = Op("draw", "right") /\ s[2] = Op("expire", undef)
      /\ send_img("bar") \in Seq(ArrowOps) /\ Len(send_img("bar")) = 2
      /\ send_img("bar")[1] = Op("draw", "bar") /\ send_img("bar")[2] = Op("expire", undef)
  BY ArrowPieces DEF Images
<1>3. Op("area1", "right") \in ArrowOps
  BY DEF ArrowOps, Images
<1> HIDE DEF s
<1>4. /\ A \in Seq(ArrowOps) /\ Len(A) = 3
      /\ A[1] = Op("draw", "right") /\ A[2] = Op("expire", undef) /\ A[3] = Op("area1", "right")
  <2>1. /\ A \in Seq(ArrowOps)
        /\ Len(A) = Len(s) + 1
        /\ \A i \in 1 .. Len(s) : A[i] = s[i]
        /\ A[Len(s) + 1] = Op("area1", "right")
    BY <1>2, <1>3, ThenOne, ZenonT(60)
  <2> HIDE DEF A
  <2> QED
    BY <2>1, <1>2
<1> HIDE DEF A
<1>5. P \in Seq(ArrowOps) /\ Len(P) \in Nat /\ (P = A \/ P = <<>>)
  BY <1>4
<1> HIDE DEF P
<1>6. /\ q \in Seq(ArrowOps)
      /\ Len(q) = Len(P) + 2
      /\ \A i \in 1 .. Len(P) : q[i] = P[i]
      /\ q[Len(P) + 1] = Op("draw", "bar") /\ q[Len(P) + 2] = Op("expire", undef)
  BY <1>2, <1>5, ThenTwo
<1> HIDE DEF q
<1>7. ASSUME NEW i \in 1 .. Len(q), NEW n \in Arrows, q[i] = Op("area1", n)
      PROVE  n = "right" /\ Drawn(q, i, n)
  <2>1. i \in 1 .. Len(P) /\ q[i] = P[i]
    <3>1. i \in 1 .. Len(P) \/ i = Len(P) + 1 \/ i = Len(P) + 2
      BY <1>5, <1>6
    <3>2. i # Len(P) + 1 /\ i # Len(P) + 2
      BY <1>6, <1>7 DEF Op
    <3> QED
      BY <3>1, <3>2, <1>6
  <2>2. P = A
    BY <2>1, <1>5
  <2>3. i = 3 /\ n = "right"
    BY <2>1, <2>2, <1>4, <1>7 DEF Op
  <2>4. q[1] = Op("draw", "right")
    BY <2>2, <1>4, <1>6
  <2> QED
    BY <2>3, <2>4 DEF Drawn
<1> QED
  BY <1>1, <1>6, <1>7

-----------------------------------------------------------------------------
(***************************************************************************)
(* A key is pressed: what its handler promises.                            *)
(***************************************************************************)

\* What the parts of the invariant need to know of the operations.
LEMMA ClearOpFacts ==
  ASSUME NEW o \in ClearOps
  PROVE  /\ o \in OpSet
         /\ o.what \in {"add", "del", "draw", "wipe"} => o.name \in Images
         /\ o.what # "ask" /\ o # Op("add", "right")
         /\ \A n \in Arrows : o # Op("area1", n)
<1>1. CASE \E w \in {"add", "del", "draw", "wipe"}, n \in Images : o = Op(w, n) /\ o # Op("add", "right")
  BY <1>1 DEF Op, OpSet, QuietOps
<1>2. CASE o \in {Op("add", "left"), Op("expire", undef), Op("area1", "MuteIcon"), Op("area1", undef)}
  BY <1>2 DEF Op, OpSet, QuietOps, Arrows, Images, undef
<1> QED
  BY <1>1, <1>2 DEF ClearOps, PicOps, RestOps, Op, Arrows

LEMMA ArrowOpFacts ==
  ASSUME NEW o \in ArrowOps
  PROVE  /\ o \in OpSet
         /\ o.what \in {"add", "del", "draw", "wipe"} => o.name \in Images
         /\ o.what \in QuietOps
  BY DEF ArrowOps, Op, OpSet, QuietOps, Images, undef

LEMMA OtherHandlerOK ==
  ASSUME NEW k \in Keys \ {"LEFT", "RIGHT"}, todo' = Handler(k)
  PROVE  TodoOK' /\ ArrowDrawn' /\ Told(todo)'
<1>1. PICK q : Clears(q) /\ Handler(k) \in {q, q \o <<Op("ask", undef)>>}
  BY OtherHandlers
<1>2. q \in Seq(ClearOps) /\ Told(q)
  BY <1>1 DEF Clears
<1>3. /\ q \in Seq(OpSet)
      /\ \A i \in 1 .. Len(q) : q[i] \in ClearOps
  <2>1. ClearOps \subseteq OpSet
    BY ClearOpFacts
  <2> QED
    BY <2>1, <1>2, LargerSeq, ElementOfSeq
<1>4. CASE todo' = q
  <2>1. DOMAIN q = 1 .. Len(q)
    BY <1>2
  <2> QED
    BY <2>1, <1>2, <1>3, <1>4, ClearOpFacts DEF TodoOK, ArrowDrawn
<1>5. CASE todo' = q \o <<Op("ask", undef)>>
  <2> DEFINE m == q \o <<Op("ask", undef)>>
  <2>1. Op("ask", undef) \in OpSet
    BY DEF Op, OpSet, undef
  <2>2. /\ m \in Seq(OpSet)
        /\ Len(m) = Len(q) + 1
        /\ \A i \in 1 .. Len(q) : m[i] = q[i]
        /\ m[Len(q) + 1] = Op("ask", undef)
    BY <2>1, <1>3, ThenOne
  <2>3. todo' = m
    BY <1>5
  <2> HIDE DEF m
  <2>4. Len(q) \in Nat /\ DOMAIN q = 1 .. Len(q) /\ DOMAIN m = 1 .. Len(m)
    BY <2>2, <1>3
  <2>5. \A i \in 1 .. Len(m) : (i \in 1 .. Len(q) /\ m[i] \in ClearOps) \/ (i = Len(m) /\ m[i] = Op("ask", undef))
    BY <2>2, <2>4, <1>3
  <2>6. TodoOK'
    <3> SUFFICES ASSUME NEW i \in 1 .. Len(m)
                 PROVE  /\ m[i].what \in {"add", "del", "draw", "wipe"} => m[i].name \in Images
                        /\ m[i].what = "ask" => i = Len(m)
                        /\ m[i] # Op("add", "right")
      BY <2>2, <2>3, <2>4 DEF TodoOK
    <3> QED
      BY <2>5, ClearOpFacts DEF Op
  <2>7. ArrowDrawn'
    <3>1. \A i \in 1 .. Len(m) : \A n \in Arrows : m[i] # Op("area1", n)
      BY <2>5, ClearOpFacts DEF Op
    <3> QED
      BY <3>1, <2>3, <2>4 DEF ArrowDrawn
  <2>8. Told(m)
    <3> SUFFICES ASSUME NEW i \in 1 .. Len(m), m[i].what = "wipe", m[i].name \in Arrows
                 PROVE  \E j \in i + 1 .. Len(m) : m[j].what = "area1"
      BY <2>4 DEF Told
    <3>1. i \in 1 .. Len(q) /\ m[i] = q[i]
      BY <2>2, <2>5 DEF Op
    <3>2. PICK j \in i + 1 .. Len(q) : q[j].what = "area1"
      BY <3>1, <2>4, <1>2 DEF Told
    <3>3. j \in 1 .. Len(q) /\ j \in i + 1 .. Len(m)
      BY <3>1, <2>2, <2>4
    <3> QED
      BY <3>2, <3>3, <2>2
  <2> QED
    BY <2>3, <2>6, <2>7, <2>8
<1> QED
  BY <1>1, <1>4, <1>5

LEMMA ArrowHandlerOK ==
  ASSUME NEW k \in {"LEFT", "RIGHT"}, todo' = Handler(k), clearlist' = clearlist, ~Listed("right")
  PROVE  /\ TodoOK' /\ ArrowDrawn' /\ Told(todo)'
         /\ k = "LEFT" => (Quiet /\ WillShow("bar", Len(todo) + 1))'
<1>1. /\ k = "LEFT" => todo' = LeftHandler
      /\ k = "RIGHT" => todo' = RightHandler
  BY DEF Handler, Resumes, Pauses, Chooses
<1>2. todo' \in Seq(ArrowOps)
  BY <1>1, LeftOps, RightOps
<1>3. /\ DOMAIN todo' = 1 .. Len(todo')
      /\ \A i \in 1 .. Len(todo') : todo'[i] \in ArrowOps
  BY <1>2, ElementOfSeq
<1>4. todo' \in Seq(OpSet)
  <2>1. ArrowOps \subseteq OpSet
    BY ArrowOpFacts
  <2> QED
    BY <2>1, <1>2, LargerSeq
<1>5. \A i \in DOMAIN todo' : /\ todo'[i].what \in {"add", "del", "draw", "wipe"} => todo'[i].name \in Images
                              /\ todo'[i].what \in QuietOps
  BY <1>3, ArrowOpFacts
<1>6. TodoOK' /\ Quiet' /\ Told(todo)'
  BY <1>4, <1>5 DEF TodoOK, Quiet, QuietOps, Told, Op
<1>7. ArrowDrawn'
  <2> SUFFICES ASSUME NEW i \in DOMAIN todo', NEW n \in Arrows, todo'[i] = Op("area1", n)
               PROVE  WillShow(n, i)'
    BY <1>6 DEF ArrowDrawn
  <2>1. CASE k = "LEFT"
    BY <2>1, <1>1, <1>3, LeftOps DEF WillShow
  <2>2. CASE k = "RIGHT"
    <3>1. n = "right" /\ Drawn(todo', i, n)
      BY <2>2, <1>1, <1>3, RightOps
    <3> QED
      BY <3>1 DEF WillShow, Listed
  <2> QED
    BY <2>1, <2>2
<1>8. k = "LEFT" => WillShow("bar", Len(todo) + 1)'
  BY <1>1, LeftOps DEF WillShow
<1> QED
  BY <1>6, <1>7, <1>8

-----------------------------------------------------------------------------
(***************************************************************************)
(* The rest of a handler.                                                  *)
(***************************************************************************)

LEMMA RestFacts ==
  ASSUME TodoOK, todo # <<>>, todo' = Tail(todo)
  PROVE  /\ Len(todo) \in Nat \ {0} /\ Len(todo') = Len(todo) - 1
         /\ DOMAIN todo = 1 .. Len(todo) /\ DOMAIN todo' = 1 .. Len(todo) - 1
         /\ Head(todo) = todo[1] /\ todo[1] \in OpSet
         /\ todo' \in Seq(OpSet)
         /\ \A i \in 1 .. Len(todo) - 1 : todo'[i] = todo[i + 1]
         /\ \A i \in 2 .. Len(todo) : i - 1 \in DOMAIN todo' /\ todo'[i - 1] = todo[i]
  BY DEF TodoOK

AddsAt(q) == {i \in DOMAIN q : q[i].what = "add"}

LEMMA AddsFinite ==
  ASSUME NEW q \in Seq(OpSet)
  PROVE  IsFiniteSet(AddsAt(q)) /\ Adds(q) \in Nat
<1>1. IsFiniteSet(1 .. Len(q))
  BY FS_Interval
<1>2. AddsAt(q) \subseteq 1 .. Len(q)
  BY DEF AddsAt
<1>3. IsFiniteSet(AddsAt(q))
  BY <1>1, <1>2, FS_Subset
<1>4. Adds(q) = Cardinality(AddsAt(q))
  BY DEF Adds, AddsAt
<1> QED
  BY <1>3, <1>4, FS_CardinalityType

LEMMA AddsLess ==
  ASSUME TodoOK, todo # <<>>, todo' = Tail(todo)
  PROVE  Adds(todo') = IF Head(todo).what = "add" THEN Adds(todo) - 1 ELSE Adds(todo)
<1> DEFINE A == AddsAt(todo)
           B == AddsAt(todo')
           f == [i \in B |-> i + 1]
<1>1. /\ Len(todo) \in Nat \ {0} /\ Len(todo') = Len(todo) - 1
      /\ DOMAIN todo = 1 .. Len(todo) /\ DOMAIN todo' = 1 .. Len(todo) - 1
      /\ Head(todo) = todo[1]
      /\ \A i \in 1 .. Len(todo) - 1 : todo'[i] = todo[i + 1]
      /\ \A i \in 2 .. Len(todo) : i - 1 \in DOMAIN todo' /\ todo'[i - 1] = todo[i]
  BY RestFacts
<1>2. Adds(todo) = Cardinality(A) /\ Adds(todo') = Cardinality(B)
  BY DEF Adds, AddsAt
<1>3. IsFiniteSet(A) /\ IsFiniteSet(B)
  BY RestFacts, AddsFinite DEF TodoOK
<1>4. f \in Bijection(B, A \ {1})
  <2>1. \A i \in B : i \in 1 .. Len(todo) - 1 /\ i + 1 \in A \ {1}
    BY <1>1 DEF AddsAt
  <2>2. \A j \in A \ {1} : j - 1 \in B /\ j = (j - 1) + 1
    BY <1>1 DEF AddsAt
  <2>3. f \in [B -> A \ {1}]
    BY <2>1
  <2>4. \A i, j \in B : f[i] = f[j] => i = j
    BY <2>1
  <2>5. \A j \in A \ {1} : \E i \in B : f[i] = j
    BY <2>2
  <2> QED
    BY <2>3, <2>4, <2>5 DEF Bijection, Injection, Surjection, IsInjective
<1>5. Cardinality(B) = Cardinality(A \ {1})
  BY <1>3, <1>4, FS_Bijection DEF ExistsBijection
<1>6. Cardinality(A \ {1}) = IF 1 \in A THEN Cardinality(A) - 1 ELSE Cardinality(A)
  BY <1>3, FS_RemoveElement
<1>7. 1 \in A <=> Head(todo).what = "add"
  BY <1>1 DEF AddsAt
<1> QED
  BY <1>2, <1>5, <1>6, <1>7

-----------------------------------------------------------------------------
(***************************************************************************)
(* The steps of the main thread.                                           *)
(***************************************************************************)

LEMMA InitIInv == Init => IInv
<1> SUFFICES ASSUME Init PROVE IInv
  OBVIOUS
<1>1. TypeOK /\ TodoOK /\ ThreadOK
  <2>1. clearlist \in Seq(Images \cup {""}) /\ Len(clearlist) = 0
    BY DEF Init
  <2>2. TypeOK
    <3>1. Len(clearlist) <= MaxList
      BY <2>1, ListAssumption
    <3>2. sem = "thread" <=> thread.pc \in {"state", "wipe", "expire", "up"}
      BY DEF Init
    <3>3. /\ img_clear_expire \in {undef, "later", "past"}
          /\ area1_img_state \in Images \cup {undef, "null"}
          /\ sem \in {"none", "thread"} /\ shown \in SUBSET Images
      BY DEF Init
    <3>4. vod_pause \in BOOLEAN /\ wait_ok \in BOOLEAN
      BY DEF Init
    <3> QED
      BY <2>1, <3>1, <3>2, <3>3, <3>4 DEF TypeOK
  <2>3. TodoOK
    BY DEF Init, TodoOK
  <2>4. ThreadOK
    BY DEF Init, ThreadOK
  <2> QED
    BY <2>2, <2>3, <2>4
<1>2. Room(todo)
  <2>1. {i \in DOMAIN todo : todo[i].what = "add"} = {}
    BY DEF Init
  <2>2. Adds(todo) = 0
    BY <2>1, FS_EmptySet DEF Adds
  <2> QED
    BY <2>2, ListAssumption DEF Init, Room
<1>3. ~Listed("right")
  BY DEF Init, Listed
<1>4. BarInv /\ ArrowDrawn /\ Told(todo) /\ StateTrue /\ ThreadTold
  BY DEF Init, BarInv, ArrowDrawn, Told, StateTrue, ThreadTold, Arrows, undef
<1> QED
  BY <1>1, <1>2, <1>3, <1>4 DEF IInv

\* Between two handlers the state of the first area is true.
LEMMA StateAtRest ==
  ASSUME IInv, todo = <<>> \/ Doing("ask"), area1_img_state \in Arrows
  PROVE  area1_img_state \in shown
<1>1. \A i \in DOMAIN todo : todo[i].what # "area1"
  BY DEF IInv, TodoOK, Doing
<1> QED
  BY <1>1 DEF IInv, StateTrue

LEMMA ListFacts ==
  ASSUME TypeOK
  PROVE  /\ Len(clearlist) \in Nat /\ Len(clearlist) <= MaxList
         /\ DOMAIN clearlist = 1 .. Len(clearlist)
         /\ \A j \in 1 .. Len(clearlist) : clearlist[j] \in Images \cup {""}
<1>1. clearlist \in Seq(Images \cup {""}) /\ Len(clearlist) <= MaxList
  BY DEF TypeOK
<1> DEFINE S == Images \cup {""}
<1> HIDE DEF S
<1>2. clearlist \in Seq(S)
  BY <1>1 DEF S
<1>3. /\ Len(clearlist) \in Nat
      /\ DOMAIN clearlist = 1 .. Len(clearlist)
      /\ \A j \in 1 .. Len(clearlist) : clearlist[j] \in S
  BY <1>2
<1> QED
  BY <1>1, <1>3 DEF S

LEMMA FlagTypes ==
  ASSUME TypeOK, NEW k, Flags(k)
  PROVE  vod_pause' \in BOOLEAN /\ wait_ok' \in BOOLEAN
<1>1. vod_pause' = IF Resumes(k) THEN FALSE ELSE vod_pause \/ Pauses(k)
  BY DEF Flags
<1>2. wait_ok' = (k \in {"LEFT", "RIGHT"} \cup (IF wait_ok THEN Keys \ {"SELECT", "BACK"} ELSE {}))
  BY DEF Flags
<1>3. vod_pause' \in BOOLEAN
  BY <1>1 DEF TypeOK
<1>4. wait_ok' \in BOOLEAN
  <2>1. \A S : (k \in S) \in BOOLEAN
    OBVIOUS
  <2> QED
    BY <1>2, <2>1
<1> QED
  BY <1>3, <1>4

\* A key starts its handler ...
LEMMA HandlerStarts ==
  ASSUME IInv, NEW k \in Keys, todo' = Handler(k), key' = k, Flags(k), Room(Handler(k)),
         UNCHANGED <<shared, thread, shown>>, area1_img_state \in Arrows => area1_img_state \in shown
  PROVE  IInv'
<1> USE DEF IInv
<1>1. UNCHANGED <<clearlist, img_clear_expire, area1_img_state, sem, thread, shown>>
  BY DEF shared
<1>2. TypeOK'
  <2>1. vod_pause' \in BOOLEAN /\ wait_ok' \in BOOLEAN
    BY FlagTypes
  <2> QED
    BY <1>1, <2>1, Zenon DEF TypeOK
<1>3. ThreadOK' /\ ThreadTold' /\ ~Listed("right")'
  BY <1>1 DEF ThreadOK, ThreadTold, Listed
<1>4. Room(todo)'
  BY <1>1 DEF Room, Adds
<1>5. StateTrue'
  BY <1>1 DEF StateTrue
<1>6. TodoOK' /\ ArrowDrawn' /\ Told(todo)'
  BY <1>1, OtherHandlerOK, ArrowHandlerOK
<1>7. BarInv'
  BY <1>1, ArrowHandlerOK DEF BarInv
<1> QED
  BY <1>2, <1>3, <1>4, <1>5, <1>6, <1>7

\* ... or there is none.
LEMMA NothingToDo ==
  ASSUME IInv, todo' = <<>>, key' # "LEFT", vod_pause' \in BOOLEAN, wait_ok' \in BOOLEAN,
         UNCHANGED <<shared, thread, shown>>, area1_img_state \in Arrows => area1_img_state \in shown
  PROVE  IInv'
<1> USE DEF IInv
<1>1. UNCHANGED <<clearlist, img_clear_expire, area1_img_state, sem, thread, shown>>
  BY DEF shared
<1>2. TypeOK' /\ ThreadOK' /\ ThreadTold' /\ ~Listed("right")'
  BY <1>1 DEF TypeOK, ThreadOK, ThreadTold, Listed
<1>3. Room(todo)'
  <2>1. {i \in DOMAIN todo' : todo'[i].what = "add"} = {}
    OBVIOUS
  <2>2. Adds(todo') = 0
    BY <2>1, FS_EmptySet DEF Adds
  <2>3. Len(clearlist) \in Nat /\ Len(clearlist) <= MaxList
    BY ListFacts
  <2> QED
    BY <1>1, <2>2, <2>3 DEF Room
<1>4. TodoOK' /\ BarInv' /\ ArrowDrawn' /\ Told(todo)' /\ StateTrue'
  BY <1>1 DEF TodoOK, BarInv, ArrowDrawn, Told, StateTrue
<1> QED
  BY <1>2, <1>3, <1>4

LEMMA KeyStep ==
  ASSUME IInv, NEW k \in Keys, Key(k)
  PROVE  IInv'
  BY HandlerStarts, StateAtRest DEF Key, Idle

LEMMA ExitStep ==
  ASSUME IInv, Exit
  PROVE  IInv'
<1>1. vod_pause' \in BOOLEAN /\ wait_ok' \in BOOLEAN
  BY DEF Exit, IInv, TypeOK
<1> QED
  BY <1>1, NothingToDo, StateAtRest DEF Exit, Idle

LEMMA AskStep ==
  ASSUME IInv, NEW k \in Keys, Ask(k)
  PROVE  IInv'
<1>1. /\ Doing("ask") /\ UNCHANGED <<shared, thread, shown>>
      /\ area1_img_state \in Arrows => area1_img_state \in shown
  BY StateAtRest DEF Ask
<1>2. CASE k \in {"EXIT_ACK", "KILL"}
  <2>1. vod_pause' \in BOOLEAN /\ wait_ok' \in BOOLEAN
    BY <1>2 DEF Ask, IInv, TypeOK
  <2> QED
    BY <1>1, <1>2, <2>1, NothingToDo DEF Ask
<1>3. CASE k = "STOP"
  <2>1. vod_pause' \in BOOLEAN /\ wait_ok' \in BOOLEAN
    BY <1>3, FlagTypes DEF Ask, IInv
  <2> QED
    BY <1>1, <1>3, <2>1, NothingToDo DEF Ask
<1>4. CASE k \notin {"EXIT_ACK", "KILL", "STOP"}
  BY <1>1, <1>4, HandlerStarts DEF Ask
<1> QED
  BY <1>2, <1>3, <1>4

\* What the list operations do to the list.
LEMMA AppendFacts ==
  ASSUME TypeOK, NEW n \in Images, clearlist' = Append(clearlist, n)
  PROVE  /\ clearlist' \in Seq(Images \cup {""})
         /\ Len(clearlist') = Len(clearlist) + 1
         /\ \A j \in 1 .. Len(clearlist) : clearlist'[j] = clearlist[j]
         /\ \A m : Listed(m)' => Listed(m) \/ m = n
<1> DEFINE S == Images \cup {""}
<1>1. clearlist \in Seq(S) /\ n \in S
  BY DEF TypeOK
<1> HIDE DEF S
<1>2. /\ clearlist' \in Seq(S)
      /\ Len(clearlist') = Len(clearlist) + 1
      /\ \A j \in 1 .. Len(clearlist) : clearlist'[j] = clearlist[j]
      /\ clearlist'[Len(clearlist) + 1] = n
  BY <1>1, AppendProperties
<1>3. DOMAIN clearlist = 1 .. Len(clearlist) /\ DOMAIN clearlist' = 1 .. Len(clearlist) + 1
      /\ Len(clearlist) \in Nat
  BY <1>1, <1>2
<1>4. \A m : Listed(m)' => Listed(m) \/ m = n
  BY <1>2, <1>3 DEF Listed
<1> QED
  BY <1>2, <1>4 DEF S

LEMMA FunSeq ==
  ASSUME NEW S, NEW N \in Nat, NEW q \in [1 .. N -> S]
  PROVE  q \in Seq(S) /\ Len(q) = N
<1>1. q \in Seq(S)
  OBVIOUS
<1>2. Len(q) = N
  OBVIOUS
<1> QED
  BY <1>1, <1>2

LEMMA DelFacts ==
  ASSUME TypeOK, NEW n \in Images,
         clearlist' = [j \in DOMAIN clearlist |-> IF clearlist[j] = n THEN "" ELSE clearlist[j]]
  PROVE  /\ clearlist' \in Seq(Images \cup {""})
         /\ Len(clearlist') = Len(clearlist)
         /\ \A m \in Images : Listed(m)' => Listed(m) /\ m # n
<1> DEFINE S == Images \cup {""}
<1>1. /\ Len(clearlist) \in Nat /\ DOMAIN clearlist = 1 .. Len(clearlist)
      /\ \A j \in 1 .. Len(clearlist) : clearlist[j] \in S
  BY ListFacts
<1>2. "" \in S /\ \A m \in Images : m # ""
  BY DEF Images
<1> HIDE DEF S
<1>3. clearlist' \in [1 .. Len(clearlist) -> S]
  BY <1>1, <1>2
<1>4. clearlist' \in Seq(S) /\ Len(clearlist') = Len(clearlist)
  <2>1. Len(clearlist) \in Nat
    BY <1>1
  <2> QED
    BY <2>1, <1>3, FunSeq
<1>5. \A m \in Images : Listed(m)' => Listed(m) /\ m # n
  BY <1>1, <1>2 DEF Listed
<1> QED
  BY <1>4, <1>5 DEF S

\* The steps of the handler: what each changes.
LEMMA MainFacts ==
  ASSUME IInv, Main
  PROVE  /\ todo # <<>> /\ todo' = Tail(todo) /\ key # "die"
         /\ UNCHANGED <<key, vod_pause, wait_ok, sem, thread>>
         /\ todo[1] \in OpSet /\ todo[1] # Op("add", "right")
         /\ \/ /\ todo[1].what = "add" /\ todo[1].name \in Images /\ sem = "none"
               /\ clearlist' = Append(clearlist, todo[1].name)
               /\ UNCHANGED <<img_clear_expire, area1_img_state, shown>>
            \/ /\ todo[1].what = "del" /\ todo[1].name \in Images /\ sem = "none"
               /\ clearlist' = [j \in DOMAIN clearlist |->
                                  IF clearlist[j] = todo[1].name THEN "" ELSE clearlist[j]]
               /\ UNCHANGED <<img_clear_expire, area1_img_state, shown>>
            \/ /\ todo[1].what = "draw" /\ todo[1].name \in Images
               /\ shown' = shown \cup {todo[1].name}
               /\ UNCHANGED <<clearlist, img_clear_expire, area1_img_state>>
            \/ /\ todo[1].what = "wipe" /\ todo[1].name \in Images
               /\ shown' = shown \ {todo[1].name}
               /\ UNCHANGED <<clearlist, img_clear_expire, area1_img_state>>
            \/ /\ todo[1].what = "expire"
               /\ img_clear_expire' = "later"
               /\ UNCHANGED <<clearlist, area1_img_state, shown>>
            \/ /\ todo[1].what = "area1"
               /\ area1_img_state' = todo[1].name
               /\ UNCHANGED <<clearlist, img_clear_expire, shown>>
<1>1. /\ todo # <<>> /\ todo' = Tail(todo) /\ key # "die"
      /\ UNCHANGED <<key, vod_pause, wait_ok, sem, thread>>
  BY DEF Main, Add, Del, Draw, Wipe, SetExpire, SetArea1, Doing, Done, shared
<1>2. /\ 1 \in DOMAIN todo /\ Head(todo) = todo[1] /\ todo[1] \in OpSet
  BY <1>1, RestFacts DEF IInv
<1>3. /\ todo[1] # Op("add", "right")
      /\ todo[1].what \in {"add", "del", "draw", "wipe"} => todo[1].name \in Images
  BY <1>2 DEF IInv, TodoOK
<1> QED
  BY <1>1, <1>2, <1>3 DEF Main, Add, Del, Draw, Wipe, SetExpire, SetArea1, Doing, name, shared

\* No step of a quiet handler puts a name on the list or clears a picture.
LEMMA QuietKeeps ==
  ASSUME IInv, Main, NEW n \in Images, todo[1].what \in QuietOps
  PROVE  /\ Listed(n)' => Listed(n)
         /\ n \in shown => n \in shown'
         /\ todo[1] = Op("draw", n) => n \in shown'
         /\ todo[1] = Op("del", n) => ~Listed(n)'
<1>1. todo[1].what \in {"del", "draw", "expire", "area1"} /\ TypeOK
  BY DEF QuietOps, IInv
<1>2. CASE todo[1].what = "del"
  <2>1. /\ todo[1].name \in Images /\ shown' = shown
        /\ clearlist' = [j \in DOMAIN clearlist |->
                           IF clearlist[j] = todo[1].name THEN "" ELSE clearlist[j]]
    BY <1>2, MainFacts
  <2>2. Listed(n)' => Listed(n) /\ n # todo[1].name
    BY <2>1, <1>1, DelFacts
  <2>3. todo[1] # Op("draw", n) /\ (todo[1] = Op("del", n) => n = todo[1].name)
    BY <1>2 DEF Op
  <2> QED
    BY <2>1, <2>2, <2>3
<1>3. CASE todo[1].what \in {"draw", "expire", "area1"}
  <2>1. /\ clearlist' = clearlist
        /\ shown' = shown \/ shown' = shown \cup {todo[1].name}
        /\ todo[1].what = "draw" => shown' = shown \cup {todo[1].name}
    BY <1>3, MainFacts
  <2>2. Listed(n)' <=> Listed(n)
    BY <2>1 DEF Listed
  <2> QED
    BY <2>1, <2>2, <1>3 DEF Op
<1> QED
  BY <1>1, <1>2, <1>3

\* The pictures a quiet handler counts on: each step brings them nearer.
LEMMA WillShowNearer ==
  ASSUME IInv, Main, Quiet, NEW n \in Images, NEW h \in 1 .. Len(todo), WillShow(n, h + 1)
  PROVE  WillShow(n, h)'
<1>1. /\ Len(todo) \in Nat \ {0} /\ Len(todo') = Len(todo) - 1
      /\ DOMAIN todo = 1 .. Len(todo)
      /\ \A j \in 2 .. Len(todo) : todo'[j - 1] = todo[j]
  BY MainFacts, RestFacts DEF IInv
<1>2. todo[1].what \in QuietOps
  BY <1>1 DEF Quiet
<1>3. /\ Listed(n)' => Listed(n)
      /\ n \in shown => n \in shown'
      /\ todo[1] = Op("draw", n) => n \in shown'
      /\ todo[1] = Op("del", n) => ~Listed(n)'
  BY <1>2, QuietKeeps
<1>4. ASSUME Drawn(todo, h + 1, n) PROVE n \in shown' \/ Drawn(todo', h, n)
  <2>1. PICK j \in 1 .. h : todo[j] = Op("draw", n)
    BY <1>4 DEF Drawn
  <2>2. CASE j = 1
    BY <2>1, <2>2, <1>3
  <2>3. CASE j # 1
    <3>1. j \in 2 .. Len(todo) /\ j - 1 \in 1 .. h - 1
      BY <2>1, <2>3, <1>1
    <3>2. todo'[j - 1] = Op("draw", n)
      BY <3>1, <2>1, <1>1
    <3> QED
      BY <3>1, <3>2 DEF Drawn
  <2> QED
    BY <2>2, <2>3
<1>5. CASE (n \in shown \/ Drawn(todo, h + 1, n)) /\ ~Listed(n)
  BY <1>3, <1>4, <1>5 DEF WillShow
<1>6. CASE Freed(todo, h + 1, n)
  <2>1. PICK j \in 1 .. h : todo[j] = Op("draw", n) /\ \E d \in 1 .. j - 1 : todo[d] = Op("del", n)
    BY <1>6 DEF Freed
  <2>2. PICK d \in 1 .. j - 1 : todo[d] = Op("del", n)
    BY <2>1
  <2>3. j - 1 \in 1 .. h - 1 /\ todo'[j - 1] = Op("draw", n)
    <3>1. j \in 2 .. Len(todo) /\ j - 1 \in 1 .. h - 1
      BY <2>1, <2>2, <1>1
    <3>2. todo'[j - 1] = Op("draw", n)
      BY <3>1, <2>1, <1>1
    <3> QED
      BY <3>1, <3>2
  <2>4. CASE d = 1
    <3>1. ~Listed(n)' /\ Drawn(todo', h, n)
      BY <2>2, <2>3, <2>4, <1>3 DEF Drawn
    <3> QED
      BY <3>1 DEF WillShow
  <2>5. CASE d # 1
    <3>1. d \in 2 .. Len(todo) /\ d - 1 \in 1 .. (j - 1) - 1
      BY <2>1, <2>2, <2>5, <1>1
    <3>2. todo'[d - 1] = Op("del", n)
      BY <3>1, <2>2, <1>1
    <3>3. Freed(todo', h, n)
      BY <2>3, <3>1, <3>2 DEF Freed
    <3> QED
      BY <3>3 DEF WillShow
  <2> QED
    BY <2>4, <2>5
<1> QED
  BY <1>5, <1>6 DEF WillShow

\* Whatever the step: of the rest of the handler holds what held of it before.
LEMMA MainRest ==
  ASSUME IInv, Main
  PROVE  TodoOK' /\ BarInv' /\ ArrowDrawn' /\ Told(todo)'
<1>1. todo # <<>> /\ todo' = Tail(todo) /\ key' = key
  BY MainFacts
<1>2. /\ Len(todo) \in Nat \ {0} /\ Len(todo') = Len(todo) - 1
      /\ DOMAIN todo = 1 .. Len(todo) /\ DOMAIN todo' = 1 .. Len(todo) - 1
      /\ todo' \in Seq(OpSet)
      /\ \A i \in 1 .. Len(todo) - 1 : todo'[i] = todo[i + 1]
      /\ \A i \in 2 .. Len(todo) : i - 1 \in DOMAIN todo' /\ todo'[i - 1] = todo[i]
  BY <1>1, RestFacts DEF IInv
<1>3. \A i \in DOMAIN todo' : i + 1 \in DOMAIN todo /\ todo'[i] = todo[i + 1] /\ (i + 1) - 1 = i
  BY <1>2
<1>4. TodoOK'
  <2> SUFFICES ASSUME NEW i \in DOMAIN todo'
               PROVE  /\ todo'[i].what \in {"add", "del", "draw", "wipe"} => todo'[i].name \in Images
                      /\ todo'[i].what = "ask" => i = Len(todo')
                      /\ todo'[i] # Op("add", "right")
    BY <1>2 DEF TodoOK
  <2>1. /\ todo[i + 1].what \in {"add", "del", "draw", "wipe"} => todo[i + 1].name \in Images
        /\ todo[i + 1].what = "ask" => i + 1 = Len(todo)
        /\ todo[i + 1] # Op("add", "right")
    BY <1>3 DEF IInv, TodoOK
  <2>2. i \in Int
    BY <1>2
  <2> QED
    BY <1>2, <1>3, <2>1, <2>2
<1>5. Quiet => Quiet'
  BY <1>3 DEF Quiet
<1>6. BarInv'
  <2> SUFFICES ASSUME key = "LEFT" PROVE Quiet' /\ WillShow("bar", Len(todo) + 1)'
    BY <1>1 DEF BarInv
  <2>1. Quiet /\ WillShow("bar", Len(todo) + 1)
    BY DEF IInv, BarInv
  <2>2. PICK h \in 1 .. Len(todo) : h = Len(todo) /\ h = Len(todo') + 1
    BY <1>2
  <2>3. "bar" \in Images /\ WillShow("bar", h + 1)
    BY <2>1, <2>2 DEF Images
  <2>4. WillShow("bar", h)'
    BY <2>1, <2>2, <2>3, WillShowNearer
  <2>5. WillShow("bar", Len(todo) + 1)'
    BY <2>2, <2>4 DEF WillShow
  <2> QED
    BY <2>1, <2>5, <1>5
<1>7. ArrowDrawn'
  <2> SUFFICES ASSUME NEW i \in DOMAIN todo', NEW n \in Arrows, todo'[i] = Op("area1", n)
               PROVE  Quiet' /\ WillShow(n, i)'
    BY DEF ArrowDrawn
  <2>1. i \in 1 .. Len(todo) /\ i + 1 \in DOMAIN todo /\ todo[i + 1] = Op("area1", n)
    BY <1>2, <1>3
  <2>2. Quiet /\ WillShow(n, i + 1)
    BY <2>1 DEF IInv, ArrowDrawn
  <2>3. n \in Images
    BY DEF Arrows, Images
  <2>4. WillShow(n, i)'
    BY <2>1, <2>2, <2>3, WillShowNearer
  <2> QED
    BY <2>2, <2>4, <1>3, <1>5
<1>8. Told(todo)'
  <2> SUFFICES ASSUME NEW i \in DOMAIN todo', todo'[i].what = "wipe", todo'[i].name \in Arrows
               PROVE  \E j \in i + 1 .. Len(todo') : todo'[j].what = "area1"
    BY DEF Told
  <2>1. i + 1 \in DOMAIN todo /\ todo[i + 1] = todo'[i]
    BY <1>3
  <2>2. PICK j \in (i + 1) + 1 .. Len(todo) : todo[j].what = "area1"
    BY <2>1 DEF IInv, Told
  <2>3. j \in 2 .. Len(todo) /\ j - 1 \in i + 1 .. Len(todo')
    BY <2>1, <1>2
  <2>4. todo'[j - 1] = todo[j]
    BY <2>3, <1>2
  <2> QED
    BY <2>2, <2>3, <2>4
<1> QED
  BY <1>4, <1>6, <1>7, <1>8

\* The state of the first area, through the steps of the handler.
LEMMA MainState ==
  ASSUME IInv, Main
  PROVE  StateTrue' /\ ThreadTold'
<1>1. todo # <<>> /\ todo' = Tail(todo) /\ thread' = thread /\ sem' = sem /\ todo[1] \in OpSet
  BY MainFacts
<1>2. /\ Len(todo) \in Nat \ {0} /\ Len(todo') = Len(todo) - 1 /\ DOMAIN todo = 1 .. Len(todo)
      /\ \A i \in 2 .. Len(todo) : i - 1 \in DOMAIN todo' /\ todo'[i - 1] = todo[i]
  BY <1>1, RestFacts DEF IInv
<1>3. ASSUME NEW i \in DOMAIN todo, todo[i].what = "area1", i # 1
      PROVE  \E j \in DOMAIN todo' : todo'[j].what = "area1"
  <2>1. i \in 2 .. Len(todo)
    BY <1>2, <1>3
  <2>2. i - 1 \in DOMAIN todo' /\ todo'[i - 1].what = "area1"
    BY <2>1, <1>2, <1>3
  <2> QED
    BY <2>2
<1>4. ASSUME todo[1].what = "area1", todo[1].name \in Arrows
      PROVE  todo[1].name \in shown /\ ~Listed(todo[1].name)
  <2>1. todo[1] = Op("area1", todo[1].name)
    BY <1>1, <1>4 DEF OpSet, Op
  <2>2. WillShow(todo[1].name, 1)
    BY <2>1, <1>2, <1>4 DEF IInv, ArrowDrawn
  <2> QED
    BY <2>2 DEF WillShow, Drawn, Freed
<1>5. StateTrue'
  <2> SUFFICES ASSUME area1_img_state' \in Arrows
               PROVE  area1_img_state' \in shown' \/ \E i \in DOMAIN todo' : todo'[i].what = "area1"
    BY DEF StateTrue
  <2>1. CASE todo[1].what = "area1"
    <3>1. area1_img_state' = todo[1].name /\ shown' = shown
      BY <2>1, MainFacts
    <3> QED
      BY <3>1, <2>1, <1>4
  <2>2. CASE todo[1].what = "wipe"
    <3>1. area1_img_state' = area1_img_state /\ shown' = shown \ {todo[1].name}
      BY <2>2, MainFacts
    <3>2. CASE todo[1].name = area1_img_state
      <4>1. PICK j \in 2 .. Len(todo) : todo[j].what = "area1"
        BY <3>1, <3>2, <2>2, <1>2 DEF IInv, Told
      <4> QED
        BY <4>1, <1>2, <1>3
    <3>3. CASE todo[1].name # area1_img_state
      <4>1. area1_img_state \in shown \/ \E i \in DOMAIN todo : todo[i].what = "area1"
        BY <3>1 DEF IInv, StateTrue
      <4>2. \A i \in DOMAIN todo : todo[i].what = "area1" => i # 1
        BY <2>2
      <4> QED
        BY <4>1, <4>2, <3>1, <3>3, <1>3
    <3> QED
      BY <3>2, <3>3
  <2>3. CASE todo[1].what \notin {"area1", "wipe"}
    <3>1. area1_img_state' = area1_img_state /\ shown \subseteq shown'
      BY <2>3, MainFacts
    <3>2. area1_img_state \in shown \/ \E i \in DOMAIN todo : todo[i].what = "area1"
      BY <3>1 DEF IInv, StateTrue
    <3>3. \A i \in DOMAIN todo : todo[i].what = "area1" => i # 1
      BY <2>3
    <3> QED
      BY <3>1, <3>2, <3>3, <1>3
  <2> QED
    BY <2>1, <2>2, <2>3
<1>6. ThreadTold'
  <2> SUFFICES ASSUME thread.pc = "wipe", clearlist'[thread.j] \in Arrows
               PROVE  area1_img_state' # clearlist'[thread.j]
    BY <1>1 DEF ThreadTold
  <2>1. sem # "none" /\ thread.j \in DOMAIN clearlist
    <3>1. DOMAIN clearlist = 1 .. Len(clearlist) /\ Len(clearlist) \in Nat
      BY ListFacts DEF IInv
    <3>2. thread.j \in Nat \ {0} /\ thread.j <= Len(clearlist)
      BY DEF IInv, ThreadOK
    <3>3. sem # "none"
      BY DEF IInv, TypeOK
    <3> QED
      BY <3>1, <3>2, <3>3
  <2>2. clearlist' = clearlist
    BY <2>1, MainFacts
  <2>3. CASE todo[1].what = "area1"
    <3>1. area1_img_state' = todo[1].name
      BY <2>3, MainFacts
    <3> QED
      BY <3>1, <2>1, <2>2, <2>3, <1>4 DEF Listed
  <2>4. CASE todo[1].what # "area1"
    <3>1. area1_img_state' = area1_img_state
      BY <2>4, MainFacts
    <3> QED
      BY <3>1, <2>2 DEF IInv, ThreadTold
  <2> QED
    BY <2>3, <2>4
<1> QED
  BY <1>5, <1>6

LEMMA MainStep ==
  ASSUME IInv, Main
  PROVE  IInv'
<1>1. /\ todo # <<>> /\ todo' = Tail(todo) /\ Head(todo) = todo[1]
      /\ UNCHANGED <<vod_pause, wait_ok, sem, thread>>
      /\ todo[1] \in OpSet /\ todo[1] # Op("add", "right")
  BY MainFacts, RestFacts DEF IInv
<1>2. /\ Adds(todo) \in Nat /\ Adds(todo') \in Nat
      /\ Adds(todo') = IF todo[1].what = "add" THEN Adds(todo) - 1 ELSE Adds(todo)
  BY <1>1, RestFacts, AddsFinite, AddsLess DEF IInv, TodoOK
<1>3. /\ clearlist' \in Seq(Images \cup {""})
      /\ Len(clearlist') = IF todo[1].what = "add" THEN Len(clearlist) + 1 ELSE Len(clearlist)
      /\ ~Listed("right")'
  <2>1. CASE todo[1].what = "add"
    <3>1. todo[1].name \in Images /\ clearlist' = Append(clearlist, todo[1].name)
      BY <2>1, MainFacts
    <3>2. todo[1].name # "right"
      BY <2>1, <1>1 DEF OpSet, Op
    <3> QED
      BY <2>1, <3>1, <3>2, AppendFacts DEF IInv
  <2>2. CASE todo[1].what = "del"
    <3>1. /\ todo[1].name \in Images
          /\ clearlist' = [j \in DOMAIN clearlist |->
                             IF clearlist[j] = todo[1].name THEN "" ELSE clearlist[j]]
      BY <2>2, MainFacts
    <3>2. "right" \in Images
      BY DEF Images
    <3> QED
      BY <2>2, <3>1, <3>2, DelFacts DEF IInv
  <2>3. CASE todo[1].what \notin {"add", "del"}
    <3>1. clearlist' = clearlist
      BY <2>3, MainFacts
    <3> QED
      BY <2>3, <3>1 DEF IInv, TypeOK, Listed
  <2> QED
    BY <2>1, <2>2, <2>3
<1>4. Len(clearlist) \in Nat /\ Len(clearlist) + Adds(todo) <= MaxList
  BY ListFacts DEF IInv, Room
<1>5. Room(todo)' /\ Len(clearlist') <= MaxList /\ Len(clearlist') >= Len(clearlist)
  <2>1. Len(clearlist') + Adds(todo') <= MaxList /\ Len(clearlist') <= MaxList
        /\ Len(clearlist') >= Len(clearlist)
    <3>1. CASE todo[1].what = "add"
      <4>1. Len(clearlist') = Len(clearlist) + 1 /\ Adds(todo') = Adds(todo) - 1
        BY <3>1, <1>2, <1>3
      <4> QED
        BY <4>1, <1>2, <1>4, ListAssumption
    <3>2. CASE todo[1].what # "add"
      <4>1. Len(clearlist') = Len(clearlist) /\ Adds(todo') = Adds(todo)
        BY <3>2, <1>2, <1>3
      <4> QED
        BY <4>1, <1>2, <1>4, ListAssumption
    <3> QED
      BY <3>1, <3>2
  <2> QED
    BY <2>1 DEF Room, Adds
<1>6. /\ img_clear_expire' \in {undef, "later", "past"}
      /\ area1_img_state' \in Images \cup {undef, "null"}
      /\ shown' \in SUBSET Images
  <2>1. /\ img_clear_expire' \in {img_clear_expire, "later"}
        /\ area1_img_state' = area1_img_state \/ area1_img_state' = todo[1].name
        /\ shown' = shown \/ shown' = shown \ {todo[1].name}
             \/ (shown' = shown \cup {todo[1].name} /\ todo[1].name \in Images)
    BY MainFacts
  <2>2. todo[1].name \in Images \cup {undef}
    BY <1>1 DEF OpSet
  <2> QED
    BY <2>1, <2>2 DEF IInv, TypeOK
<1>7. TypeOK'
  BY <1>1, <1>3, <1>5, <1>6 DEF IInv, TypeOK
<1>8. ThreadOK'
  <2>1. Len(clearlist') \in Nat
    <3>1. Len(clearlist') = Len(clearlist) + 1 \/ Len(clearlist') = Len(clearlist)
      BY <1>3
    <3> QED
      BY <3>1, <1>4
  <2>2. thread.pc = "wipe" => thread.j \in Nat /\ thread.j <= Len(clearlist)
    BY DEF IInv, ThreadOK
  <2>3. thread.pc = "wipe" => thread.j <= Len(clearlist')
    BY <2>1, <2>2, <1>4, <1>5
  <2> QED
    BY <1>1, <2>3 DEF IInv, ThreadOK
<1> QED
  BY <1>3, <1>5, <1>7, <1>8, MainRest, MainState DEF IInv

\* A step that only takes names off the list, and clears only pictures that
\* are on it, leaves the handler as sound as it was.
LEMMA HandlerKept ==
  ASSUME IInv, UNCHANGED <<todo, key>>, \A n : Listed(n)' => Listed(n),
         \A n \in shown \ shown' : Listed(n)
  PROVE  TodoOK' /\ BarInv' /\ ArrowDrawn' /\ Told(todo)' /\ ~Listed("right")'
<1>1. ASSUME NEW n, NEW i, WillShow(n, i)
      PROVE  WillShow(n, i)'
  BY <1>1 DEF WillShow
<1>2. TodoOK' /\ Told(todo)' /\ ~Listed("right")'
  BY DEF IInv, TodoOK, Told
<1>3. BarInv'
  <2> SUFFICES ASSUME key = "LEFT" PROVE Quiet' /\ WillShow("bar", Len(todo) + 1)'
    BY DEF BarInv
  <2>1. PICK h : h = Len(todo) + 1
    OBVIOUS
  <2>2. Quiet /\ WillShow("bar", h)
    BY <2>1 DEF IInv, BarInv
  <2>3. WillShow("bar", h)'
    BY <2>2, <1>1
  <2> QED
    BY <2>1, <2>2, <2>3 DEF Quiet, WillShow
<1>4. ArrowDrawn'
  <2> SUFFICES ASSUME NEW i \in DOMAIN todo, NEW n \in Arrows, todo[i] = Op("area1", n)
               PROVE  Quiet' /\ WillShow(n, i)'
    BY DEF ArrowDrawn
  <2> QED
    BY <1>1 DEF IInv, ArrowDrawn, Quiet
<1> QED
  BY <1>2, <1>3, <1>4

\* The steps of the clearing thread: what each changes.
LEMMA ClearerFacts ==
  ASSUME IInv, Clearer
  PROVE  /\ UNCHANGED <<vod_pause, wait_ok, todo, key>>
         /\ \/ /\ thread.pc = "sleep" /\ thread' = [pc |-> "down", j |-> 1]
               /\ UNCHANGED <<clearlist, img_clear_expire, area1_img_state, sem, shown>>
            \/ /\ thread.pc = "down" /\ thread' = [pc |-> "state", j |-> 1] /\ sem' = "thread"
               /\ UNCHANGED <<clearlist, img_clear_expire, area1_img_state, shown>>
            \/ /\ thread.pc = "state" /\ thread.j <= Len(clearlist)
               /\ thread' = [pc |-> "wipe", j |-> thread.j]
               /\ area1_img_state' = IF clearlist[thread.j] \in InArea1 \cup {area1_img_state}
                                     THEN "null" ELSE area1_img_state
               /\ UNCHANGED <<clearlist, img_clear_expire, sem, shown>>
            \/ /\ thread.pc = "wipe" /\ thread' = [pc |-> "state", j |-> thread.j + 1]
               /\ shown' = shown \ {clearlist[thread.j]}
               /\ UNCHANGED <<clearlist, img_clear_expire, area1_img_state, sem>>
            \/ /\ thread.pc = "state" /\ thread' = [pc |-> "expire", j |-> 1]
               /\ clearlist' = <<>>
               /\ UNCHANGED <<img_clear_expire, area1_img_state, sem, shown>>
            \/ /\ thread.pc = "expire" /\ thread' = [pc |-> "up", j |-> 1]
               /\ img_clear_expire' = undef
               /\ UNCHANGED <<clearlist, area1_img_state, sem, shown>>
            \/ /\ thread.pc = "up" /\ thread' = [pc |-> "sleep", j |-> 1] /\ sem' = "none"
               /\ UNCHANGED <<clearlist, img_clear_expire, area1_img_state, shown>>
  BY DEF Clearer, See, Down, State, ThreadWipe, UndefList, UndefExpire, Up, At, Go, shared

LEMMA ClearerStep ==
  ASSUME IInv, Clearer
  PROVE  IInv'
<1>1. /\ UNCHANGED <<vod_pause, wait_ok, todo, key>>
      /\ thread \in [pc : {"sleep", "down", "state", "wipe", "expire", "up"}, j : Nat \ {0}]
      /\ TypeOK
  BY ClearerFacts DEF IInv, ThreadOK
<1>2. /\ Len(clearlist) \in Nat /\ Len(clearlist) <= MaxList
      /\ DOMAIN clearlist = 1 .. Len(clearlist)
  BY <1>1, ListFacts
<1>3. clearlist' = clearlist \/ clearlist' = <<>>
  BY ClearerFacts
<1>4. Len(clearlist') \in Nat /\ Len(clearlist') <= Len(clearlist)
  <2>1. clearlist' = <<>> => Len(clearlist') = 0
    OBVIOUS
  <2> QED
    BY <1>2, <1>3, <2>1
<1>4a. clearlist' \in Seq(Images \cup {""})
  <2>1. <<>> \in Seq(Images \cup {""})
    OBVIOUS
  <2>2. clearlist \in Seq(Images \cup {""})
    BY <1>1 DEF TypeOK
  <2> QED
    BY <1>3, <2>1, <2>2
<1>4b. \A n : Listed(n)' => Listed(n)
  BY <1>3 DEF Listed
<1>5. /\ shown' = shown \/ (thread.pc = "wipe" /\ shown' = shown \ {clearlist[thread.j]})
      /\ area1_img_state' \in {area1_img_state, "null"}
      /\ img_clear_expire' \in {img_clear_expire, undef}
  BY ClearerFacts
<1>6. thread.pc = "wipe" => thread.j \in DOMAIN clearlist
  BY <1>1, <1>2 DEF IInv, ThreadOK
<1>7. \A n \in shown \ shown' : Listed(n)
  BY <1>5, <1>6 DEF Listed
<1>8. TodoOK' /\ BarInv' /\ ArrowDrawn' /\ Told(todo)' /\ ~Listed("right")'
  BY <1>1, <1>7, <1>4b, HandlerKept
<1>9. TypeOK'
  <2>1. Len(clearlist') <= MaxList
    BY <1>2, <1>4, ListAssumption
  <2>2. /\ sem' \in {"none", "thread"}
        /\ sem' = "thread" <=> thread'.pc \in {"state", "wipe", "expire", "up"}
    <3>1. /\ sem \in {"none", "thread"}
          /\ sem = "thread" <=> thread.pc \in {"state", "wipe", "expire", "up"}
      BY <1>1 DEF TypeOK
    <3> QED
      BY <1>1, <3>1, ClearerFacts
  <2> QED
    BY <1>1, <1>4a, <1>5, <2>1, <2>2 DEF TypeOK
<1>10. ThreadOK'
  <2>1. thread' \in [pc : {"sleep", "down", "state", "wipe", "expire", "up"}, j : Nat \ {0}]
    BY <1>1, ClearerFacts
  <2>2. thread'.pc = "wipe" => clearlist' = clearlist /\ thread'.j <= Len(clearlist)
    BY ClearerFacts
  <2> QED
    BY <2>1, <2>2 DEF ThreadOK
<1>11. Room(todo)'
  <2>1. Adds(todo) \in Nat /\ Len(clearlist) + Adds(todo) <= MaxList
    BY AddsFinite DEF IInv, TodoOK, Room
  <2>2. Len(clearlist') + Adds(todo) <= MaxList
    BY <2>1, <1>2, <1>4, ListAssumption
  <2> QED
    BY <2>2, <1>1 DEF Room, Adds
<1>12. StateTrue'
  <2>1. area1_img_state' \in Arrows => area1_img_state' = area1_img_state
    BY <1>5 DEF Arrows
  <2>2. shown' = shown \/ (thread.pc = "wipe" /\ shown' = shown \ {clearlist[thread.j]})
    BY <1>5
  <2>3. (thread.pc = "wipe" /\ area1_img_state \in Arrows) => clearlist[thread.j] # area1_img_state
    BY DEF IInv, ThreadTold
  <2> QED
    BY <1>1, <2>1, <2>2, <2>3 DEF IInv, StateTrue
<1>13. ThreadTold'
  <2>1. thread'.pc = "wipe" =>
          /\ clearlist' = clearlist /\ thread'.j = thread.j
          /\ area1_img_state' = IF clearlist[thread.j] \in InArea1 \cup {area1_img_state}
                                THEN "null" ELSE area1_img_state
    BY ClearerFacts
  <2> QED
    BY <2>1 DEF ThreadTold, InArea1, Arrows
<1> QED
  BY <1>8, <1>9, <1>10, <1>11, <1>12, <1>13 DEF IInv

LEMMA QuietStep ==
  ASSUME IInv, Clock \/ UNCHANGED vars
  PROVE  IInv'
<1>1. UNCHANGED <<clearlist, area1_img_state, sem, vod_pause, wait_ok, todo, key, thread, shown>>
  BY DEF Clock, vars, shared
<1>2. img_clear_expire' \in {img_clear_expire, "past"}
  BY DEF Clock, vars, shared
<1>3. TypeOK'
  BY <1>1, <1>2 DEF IInv, TypeOK
<1>4. TodoOK' /\ BarInv' /\ ArrowDrawn' /\ Told(todo)' /\ ~Listed("right")'
  BY <1>1, HandlerKept DEF Listed
<1>5. ThreadOK' /\ StateTrue' /\ ThreadTold' /\ Room(todo)'
  BY <1>1 DEF IInv, ThreadOK, StateTrue, ThreadTold, Room, Adds
<1> QED
  BY <1>3, <1>4, <1>5 DEF IInv

LEMMA IInvStep == IInv /\ [Next]_vars => IInv'
<1> SUFFICES ASSUME IInv, [Next]_vars PROVE IInv'
  OBVIOUS
<1>1. CASE \E k \in Keys : Key(k)
  BY <1>1, KeyStep
<1>2. CASE \E k \in Keys : Ask(k)
  BY <1>2, AskStep
<1>3. CASE Exit
  BY <1>3, ExitStep
<1>4. CASE Main
  BY <1>4, MainStep
<1>5. CASE Clearer
  BY <1>5, ClearerStep
<1>6. CASE Clock \/ UNCHANGED vars
  BY <1>6, QuietStep
<1> QED
  BY <1>1, <1>2, <1>3, <1>4, <1>5, <1>6 DEF Next

-----------------------------------------------------------------------------
LEMMA IInvHolds == Spec => []IInv
  BY InitIInv, IInvStep, PTL DEF Spec

\* The list holds names of pictures and never more than were asked for, and the
\* semaphore is taken exactly while the clearing thread works on the list.
THEOREM TypesRight == Spec => []TypeOK
<1>1. IInv => TypeOK
  BY DEF IInv
<1> QED
  BY <1>1, IInvHolds, PTL

\* After the left key the position bar stays on the screen until the next key,
\* whatever the clearing thread is in the middle of: whoever queued the bar, the
\* handler takes it off the list before it draws it (lines 439-440), and an
\* older round has then wiped it before or not at all.
THEOREM BarKept == Spec => []BarStays
<1>1. IInv => BarStays
  <2> SUFFICES ASSUME IInv, Idle, key = "LEFT" PROVE "bar" \in shown
    BY DEF BarStays
  <2>1. todo = <<>> /\ Len(todo) + 1 = 1
    BY DEF Idle
  <2>2. WillShow("bar", 1)
    BY <2>1 DEF IInv, BarInv
  <2> QED
    BY <2>2 DEF WillShow, Drawn, Freed
<1> QED
  BY <1>1, IInvHolds, PTL

\* Between two keys the arrow that area1_img_state names is on the screen: left
\* and right may skip drawing it (lines 433 and 459).  The clearing thread gives
\* up the state before it wipes a name, and clear_area1 sets it after its wipes.
THEOREM AreaTold == Spec => []AreaTruth
<1>1. IInv => AreaTruth
  BY StateAtRest DEF AreaTruth, Idle, Arrows
<1> QED
  BY <1>1, IInvHolds, PTL

-----------------------------------------------------------------------------
\* The steps the clearing thread still takes until it gives the semaphore back.
RoundLeft ==
    CASE thread.pc = "state"  -> IF thread.j <= Len(clearlist)
                                 THEN 2 * (Len(clearlist) - thread.j) + 5 ELSE 3
      [] thread.pc = "wipe"   -> 2 * (Len(clearlist) - thread.j) + 4
      [] thread.pc = "expire" -> 2
      [] OTHER                -> 1

LEMMA RoundFacts ==
  ASSUME IInv
  PROVE  /\ Len(clearlist) \in 0 .. MaxList /\ MaxList \in Nat /\ thread.j \in Nat \ {0}
         /\ thread.pc \in {"sleep", "down", "state", "wipe", "expire", "up"}
         /\ thread.pc = "wipe" => thread.j <= Len(clearlist)
         /\ RoundLeft \in 1 .. 2 * MaxList + 3
<1>1. Len(clearlist) \in 0 .. MaxList /\ MaxList \in Nat
  <2>1. TypeOK
    BY DEF IInv
  <2>2. Len(clearlist) \in Nat /\ Len(clearlist) <= MaxList
    BY <2>1, ListFacts
  <2> QED
    BY <2>2, ListAssumption
<1>1a. \A n \in 0 .. MaxList, j \in Nat \ {0} :
        /\ (IF j <= n THEN 2 * (n - j) + 5 ELSE 3) \in 1 .. 2 * MaxList + 3
        /\ j <= n => 2 * (n - j) + 4 \in 1 .. 2 * MaxList + 3
  BY <1>1
<1>2. /\ thread.j \in Nat \ {0}
      /\ thread.pc \in {"sleep", "down", "state", "wipe", "expire", "up"}
      /\ thread.pc = "wipe" => thread.j <= Len(clearlist)
  BY DEF IInv, ThreadOK
<1>3. CASE thread.pc = "state"
  <2>1. RoundLeft = IF thread.j <= Len(clearlist)
                    THEN 2 * (Len(clearlist) - thread.j) + 5 ELSE 3
    BY <1>3 DEF RoundLeft
  <2> QED
    BY <1>1a, <1>1, <1>2, <2>1, Zenon
<1>4. CASE thread.pc = "wipe"
  <2>1. RoundLeft = 2 * (Len(clearlist) - thread.j) + 4
    BY <1>4 DEF RoundLeft
  <2> QED
    BY <1>1a, <1>1, <1>2, <1>4, <2>1, Zenon
<1>5. CASE thread.pc \notin {"state", "wipe"}
  <2>1. RoundLeft \in {1, 2}
    BY <1>2, <1>5 DEF RoundLeft
  <2>2. {1, 2} \subseteq 1 .. 2 * MaxList + 3
    BY <1>1
  <2> QED
    BY <1>1, <1>2, <2>1, <2>2, Zenon
<1> QED
  BY <1>1, <1>2, <1>3, <1>4, <1>5

\* A round of the clearing thread is short, whatever the keys do meanwhile:
\* each of its steps brings it nearer to the one that gives the semaphore back,
\* and no other step takes it further away, for the list is not touched while
\* the thread has the semaphore.  So a handler at add_clear_event or
\* del_clear_event waits for at most two steps for each name and three more.
THEOREM RoundsAreShort ==
    /\ Spec => [](RoundLeft \in 1 .. 2 * MaxList + 3)
    /\ Spec => [][sem = "thread" /\ sem' = "thread" =>
                    IF thread' = thread THEN RoundLeft' = RoundLeft
                                        ELSE RoundLeft' < RoundLeft]_vars
<1>1. IInv /\ [Next]_vars =>
        [sem = "thread" /\ sem' = "thread" =>
           IF thread' = thread THEN RoundLeft' = RoundLeft ELSE RoundLeft' < RoundLeft]_vars
  <2> SUFFICES ASSUME IInv, Next, sem = "thread", sem' = "thread"
               PROVE  IF thread' = thread THEN RoundLeft' = RoundLeft ELSE RoundLeft' < RoundLeft
    BY DEF vars, shared
  <2>1. CASE Clearer
    <3>1. Len(clearlist) \in Nat /\ thread.j \in Nat /\ thread.pc \in {"state", "wipe", "expire", "up"}
      <4>1. thread.pc \in {"state", "wipe", "expire", "up"}
        BY DEF IInv, TypeOK
      <4>2. Len(clearlist) \in 0 .. MaxList /\ MaxList \in Nat /\ thread.j \in Nat \ {0}
        BY RoundFacts
      <4>3. \A n \in 0 .. MaxList : n \in Nat
        BY <4>2
      <4> QED
        BY <4>1, <4>2, <4>3, Zenon
    <3>2. CASE /\ thread.pc = "state" /\ thread.j <= Len(clearlist)
               /\ thread' = [pc |-> "wipe", j |-> thread.j] /\ clearlist' = clearlist
      <4>1. thread'.pc = "wipe" /\ thread'.j = thread.j
        BY <3>2
      <4>2. /\ RoundLeft = 2 * (Len(clearlist) - thread.j) + 5
            /\ RoundLeft' = 2 * (Len(clearlist) - thread.j) + 4
        BY <3>2, <4>1 DEF RoundLeft
      <4>3. RoundLeft' < RoundLeft /\ thread' # thread
        BY <3>1, <3>2, <4>1, <4>2
      <4> QED
        BY <4>3
    <3>3. CASE /\ thread.pc = "wipe" /\ thread' = [pc |-> "state", j |-> thread.j + 1]
               /\ clearlist' = clearlist
      <4>0. thread'.pc = "state" /\ thread'.j = thread.j + 1
        BY <3>3
      <4>1. thread.j <= Len(clearlist)
        BY <3>3, RoundFacts
      <4>2. /\ RoundLeft = 2 * (Len(clearlist) - thread.j) + 4
            /\ RoundLeft' = IF thread.j + 1 <= Len(clearlist)
                            THEN 2 * (Len(clearlist) - (thread.j + 1)) + 5 ELSE 3
        BY <3>3, <4>0 DEF RoundLeft
      <4>3. RoundLeft' < RoundLeft /\ thread' # thread
        BY <3>1, <3>3, <4>0, <4>1, <4>2, SMTT(40)
      <4> QED
        BY <4>3
    <3>4. CASE thread.pc = "state" /\ thread' = [pc |-> "expire", j |-> 1]
      <4>1. RoundLeft' = 2 /\ thread' # thread
        BY <3>4 DEF RoundLeft
      <4>2. RoundLeft = IF thread.j <= Len(clearlist)
                        THEN 2 * (Len(clearlist) - thread.j) + 5 ELSE 3
        BY <3>4 DEF RoundLeft
      <4>3. RoundLeft' < RoundLeft
        BY <3>1, <4>1, <4>2
      <4> QED
        BY <4>1, <4>3
    <3>5. CASE thread.pc = "expire" /\ thread' = [pc |-> "up", j |-> 1]
      <4>1. RoundLeft = 2 /\ RoundLeft' = 1 /\ thread' # thread
        BY <3>5 DEF RoundLeft
      <4> QED
        BY <4>1
    <3> QED
      BY <2>1, <3>1, <3>2, <3>3, <3>4, <3>5, ClearerFacts
  <2>2. CASE ~Clearer
    <3>1. thread' = thread /\ clearlist' = clearlist
      <4>1. CASE Main
        BY <4>1, MainFacts
      <4>2. CASE Clock
        BY <4>2 DEF Clock
      <4>3. CASE Exit \/ \E k \in Keys : Key(k) \/ Ask(k)
        BY <4>3 DEF Exit, Key, Ask, shared
      <4> QED
        BY <2>2, <4>1, <4>2, <4>3 DEF Next
    <3> QED
      BY <3>1 DEF RoundLeft
  <2> QED
    BY <2>1, <2>2
<1>2. IInv => RoundLeft \in 1 .. 2 * MaxList + 3
  BY RoundFacts
<1> QED
  BY <1>1, <1>2, IInvHolds, PTL DEF Spec
=============================================================================
