-------------------------- MODULE FPGAUpdateProofs --------------------------
(***************************************************************************)
(* Proofs about the FPGA updater, for every set of files, every way to cut *)
(* them, every size of the buffers and of the flash's blocks.              *)
(***************************************************************************)
EXTENDS FPGAUpdate, SequenceTheorems, TLAPS

(* Part one: the circular buffers.                                         *)

(* What is left of a buffer when bytes were popped.                        *)
LEMMA Popped ==
  ASSUME NEW S, NEW s \in Seq(S), NEW n \in 0 .. Len(s)
  PROVE  /\ Pop(s, n) \in Seq(S) /\ Len(Pop(s, n)) = Len(s) - n
         /\ \A i \in 1 .. Len(s) - n : Pop(s, n)[i] = s[n + i]
<1>1. Len(s) \in Nat /\ \A i \in n + 1 .. Len(s) : s[i] \in S
  BY LenProperties, ElementOfSeq
<1>2. /\ SubSeq(s, n + 1, Len(s)) \in Seq(S)
      /\ Len(SubSeq(s, n + 1, Len(s))) =
           IF n + 1 <= Len(s) THEN Len(s) - (n + 1) + 1 ELSE 0
      /\ \A i \in 1 .. Len(s) - (n + 1) + 1 :
           SubSeq(s, n + 1, Len(s))[i] = s[(n + 1) + i - 1]
  BY <1>1, SubSeqProperties
<1> QED
  BY <1>1, <1>2 DEF Pop

(* A part of a buffer.                                                     *)
LEMMA Part ==
  ASSUME NEW S, NEW s \in Seq(S), NEW m \in 1 .. Len(s) + 1, NEW n \in m - 1 .. Len(s)
  PROVE  /\ SubSeq(s, m, n) \in Seq(S) /\ Len(SubSeq(s, m, n)) = n - m + 1
         /\ \A i \in 1 .. n - m + 1 : SubSeq(s, m, n)[i] = s[m + i - 1]
<1>1. Len(s) \in Nat /\ \A i \in m .. n : s[i] \in S
  BY LenProperties, ElementOfSeq
<1> QED
  BY <1>1, SubSeqProperties

(* A buffer behind another, element by element.                            *)
LEMMA Joined ==
  ASSUME NEW S, NEW s \in Seq(S), NEW t \in Seq(S), NEW u, u = s \o t
  PROVE  /\ u \in Seq(S) /\ Len(u) = Len(s) + Len(t)
         /\ Len(s) \in Nat /\ Len(t) \in Nat
         /\ \A i \in 1 .. Len(s) : u[i] = s[i]
         /\ \A i \in 1 .. Len(t) : u[Len(s) + i] = t[i]
<1>1. Len(s) \in Nat /\ Len(t) \in Nat
  BY LenProperties
<1>2. /\ s \o t \in Seq(S) /\ Len(s \o t) = Len(s) + Len(t)
      /\ \A i \in 1 .. Len(s) + Len(t) :
           (s \o t)[i] = IF i <= Len(s) THEN s[i] ELSE t[i - Len(s)]
  BY ConcatProperties
<1> QED
  BY <1>1, <1>2

(* A buffer that holds the positions of the file from a + 1 on.            *)
Run(s, a) == \A i \in 1 .. Len(s) : s[i] = a + i

(* Bytes moved from the front of one run to the end of the run before it   *)
(* leave two runs that meet.                                               *)
LEMMA RunMoves ==
  ASSUME NEW S, NEW w \in Seq(S), NEW r \in Seq(S), NEW a \in Int, NEW n \in 0 .. Len(r),
         Run(w, a), Run(r, a + Len(w))
  PROVE  /\ w \o SubSeq(r, 1, n) \in Seq(S) /\ Len(w \o SubSeq(r, 1, n)) = Len(w) + n
         /\ Run(w \o SubSeq(r, 1, n), a) /\ Run(Pop(r, n), a + Len(w) + n)
<1> DEFINE t == SubSeq(r, 1, n)
<1>1. Len(w) \in Nat /\ Len(r) \in Nat
  BY LenProperties
<1>2. t \in Seq(S) /\ Len(t) = n /\ \A i \in 1 .. n : t[i] = r[i]
  BY <1>1, Part
<1>3. \A i \in 1 .. n : t[i] = a + Len(w) + i
  BY <1>1, <1>2 DEF Run
<1> HIDE DEF t
<1> DEFINE v == w \o t
<1>0. v = w \o t
  BY DEF v
<1> HIDE DEF v
<1>4. /\ v \in Seq(S) /\ Len(v) = Len(w) + Len(t)
      /\ \A i \in 1 .. Len(w) : v[i] = w[i]
      /\ \A i \in 1 .. Len(t) : v[Len(w) + i] = t[i]
  <2>1. t \in Seq(S)
    BY <1>2
  <2>2. v \in Seq(S) /\ Len(v) = Len(w) + Len(t)
    BY <1>0, <2>1, Joined
  <2>3. \A i \in 1 .. Len(w) : v[i] = w[i]
    BY <1>0, <2>1, Joined
  <2>4. \A i \in 1 .. Len(t) : v[Len(w) + i] = t[i]
    BY <1>0, <2>1, Joined
  <2> QED
    BY <2>2, <2>3, <2>4
<1>5. ASSUME NEW i \in 1 .. Len(w) + n PROVE v[i] = a + i
  <2>1. CASE i <= Len(w)
    BY <1>1, <1>4, <2>1 DEF Run
  <2>2. CASE i > Len(w)
    <3>1. i - Len(w) \in 1 .. Len(t) /\ i = Len(w) + (i - Len(w))
      BY <1>1, <1>2, <2>2
    <3>2. v[i] = t[i - Len(w)]
      BY <1>4, <3>1
    <3> QED
      BY <1>1, <1>2, <1>3, <3>1, <3>2
  <2> QED
    BY <1>1, <2>1, <2>2
<1>6. Run(v, a)
  BY <1>2, <1>4, <1>5 DEF Run
<1>7. Run(Pop(r, n), a + Len(w) + n)
  <2> DEFINE u == Pop(r, n)
  <2>1. Len(u) = Len(r) - n /\ \A i \in 1 .. Len(r) - n : u[i] = r[n + i]
    BY Popped
  <2> HIDE DEF u
  <2>2. \A i \in 1 .. Len(u) : n + i \in 1 .. Len(r)
    BY <1>1, <2>1
  <2>3. Run(u, a + Len(w) + n)
    BY <1>1, <2>1, <2>2 DEF Run
  <2> QED
    BY <2>3 DEF u
<1> QED
  BY <1>4, <1>6, <1>7 DEF t, v

-----------------------------------------------------------------------------
(* Part two: types.                                                        *)

Header == {"READ_BITHDR", "READ_BITHDR_RECORDS"}
Image == {"SYNC_WAIT", "BITSTREAM", "BIG_WRITE", "DONE"}

(* How far the parser is in the file, and how much it has passed on to the *)
(* flash or to the buffer in front of it.                                  *)
Consumed == sent - Len(rx)
Loaded == m_wptr - ImageOffset + Len(wr)

(* All that was passed on lay behind the first byte of the 'e' record.     *)
Start == ImageStart(file)
LoadedFromImage ==
  /\ Start \in 5 .. Len(file) /\ Start - 5 <= Consumed
  /\ Loaded <= Consumed - (Start - 5)

ControlInv ==
  m_state \in States /\ m_bigWordLen \in Nat /\ pc \in PCs /\ faulty \in BOOLEAN
FileInv == file \in Files /\ sent \in 0 .. Len(file)
RxInv ==
  /\ rx \in Seq(1 .. Len(file)) /\ Len(rx) <= BufSize /\ Len(rx) <= sent
  /\ \A i \in 1 .. Len(rx) : rx[i] \in 1 .. Consumed + i
WrInv ==
  /\ wr \in Seq(1 .. Len(file)) /\ Len(wr) <= BufSize
  /\ pc \in {"idle", "process"} /\ m_state # "FAILED" => Len(wr) < WriteBlock
FlashInv == flash \in [Addr -> -2 .. Len(file)]
LoadInv ==
  /\ m_wptr \in Nat /\ m_wptr >= ImageOffset
  /\ m_state \in Header => m_wptr = ImageOffset /\ wr = <<>>
  /\ m_state \in Image => LoadedFromImage
  /\ m_state = "FAILED" => Loaded = 0 \/ LoadedFromImage

TypeInv == ControlInv /\ FileInv /\ RxInv /\ WrInv /\ FlashInv /\ LoadInv

(* What a file is, as far as types go.                                     *)
LEMMA FileShape ==
  ASSUME NEW f \in Files
  PROVE  /\ Len(f) \in Nat /\ Len(f) > 0
         /\ \A i \in 1 .. Len(f) :
              /\ f[i].kind \in Kinds /\ f[i].len \in Nat \ {0}
              /\ f[i].at \in Nat \ {0} /\ f[i].words \in Nat
<1> DEFINE B == [kind : Kinds, len : Nat \ {0}, at : Nat \ {0}, words : Nat]
<1>1. f \in Seq(B) /\ Len(f) > 0
  BY UpdateAssumption DEF IsFile
<1>2. Len(f) \in Nat /\ \A i \in 1 .. Len(f) : f[i] \in B
  BY <1>1, LenProperties, ElementOfSeq
<1> QED
  BY <1>1, <1>2

(* The image starts behind the five bytes of the 'e' record.               *)
LEMMA StartOfImage ==
  ASSUME NEW f \in Files, NEW i \in 1 .. Len(f), f[i].kind = "e", f[i].at = 1
  PROVE  i + 4 <= Len(f) /\ ImageStart(f) = i + 4
<1>1. IsFile(f) /\ Len(f) \in Nat
  BY FileShape, UpdateAssumption
<1>2. f[i].len = 5
  BY <1>1 DEF IsFile
<1>3. i + 5 - 1 <= Len(f) /\ f[i + 5 - 1] = [f[i] EXCEPT !.at = 5]
  <2>1. \A k \in 1 .. f[i].len :
          i + k - 1 <= Len(f) /\ f[i + k - 1] = [f[i] EXCEPT !.at = k]
    BY <1>1 DEF IsFile
  <2> QED
    BY <1>2, <2>1
<1>4. i + 4 \in 1 .. Len(f) /\ f[i + 4] = [f[i] EXCEPT !.at = 5]
  <2>1. i + 5 - 1 = i + 4
    BY <1>1
  <2> QED
    BY <1>1, <1>3, <2>1
<1>5. f[i + 4].kind = "e" /\ f[i + 4].at = 5
  <2>1. f[i] \in [kind : Kinds, len : Nat \ {0}, at : Nat \ {0}, words : Nat]
    BY <1>1, ElementOfSeq DEF IsFile
  <2> QED
    BY <1>4, <2>1
<1> DEFINE s == ImageStart(f)
<1>6. s \in 1 .. Len(f) /\ f[s].kind = "e" /\ f[s].at = 5
  BY <1>4, <1>5 DEF ImageStart
<1> HIDE DEF s
<1>7. \A j, k \in 1 .. Len(f) :
        f[j].kind = f[k].kind /\ f[j].kind \in {"e", "desync"} =>
          f[j].len = f[k].len /\ (j = k <=> f[j].at = f[k].at)
  BY <1>1 DEF IsFile
<1>8. f[s].kind = f[i + 4].kind /\ f[s].kind \in {"e", "desync"}
  BY <1>5, <1>6
<1>9. s = i + 4 <=> f[s].at = f[i + 4].at
  BY <1>4, <1>6, <1>7, <1>8
<1>10. s = i + 4
  BY <1>5, <1>6, <1>9
<1> QED
  BY <1>4, <1>10 DEF s

(* The buffers' lengths, and the types as every lemma below needs them.    *)
LEMMA Lengths ==
  ASSUME TypeInv
  PROVE  /\ Len(file) \in Nat /\ sent \in Nat /\ sent <= Len(file)
         /\ Len(rx) \in Nat /\ Len(wr) \in Nat
         /\ Consumed \in Nat /\ Loaded \in Nat
         /\ BufSize \in Nat /\ WriteBlock \in 1 .. BufSize
         /\ ImageOffset \in Nat /\ ImageSize \in Nat
<1>1. Len(file) \in Nat /\ Len(rx) \in Nat /\ Len(wr) \in Nat
  BY FileShape, LenProperties DEF TypeInv, FileInv, RxInv, WrInv
<1> QED
  BY <1>1, UpdateAssumption DEF TypeInv, FileInv, RxInv, LoadInv, Consumed, Loaded

(* A step of the parser that moves n bytes out of the one buffer and at    *)
(* most n into the other.                                                  *)
LEMMA TakeSafe ==
  ASSUME TypeInv, pc = "process", NEW n \in 0 .. Len(rx),
         rx' = Pop(rx, n), pc' \in {"push", "pushLast"},
         m_state' \in States, m_bigWordLen' \in Nat,
         UNCHANGED <<m_wptr, file, sent, flash, faulty>>,
         wr' \in Seq(1 .. Len(file)), Len(wr') <= BufSize, Len(wr') <= Len(wr) + n,
         wr' = wr \/ m_state \in Image,
         m_state' \in Header => m_state \in Header,
         m_state' \in Image => m_state \in Image
  PROVE  TypeInv'
<1>sizes. /\ Len(file) \in Nat /\ sent \in Nat /\ sent <= Len(file)
          /\ Len(rx) \in Nat /\ Len(wr) \in Nat /\ Consumed \in Nat /\ Loaded \in Nat
          /\ BufSize \in Nat /\ WriteBlock \in 1 .. BufSize
          /\ ImageOffset \in Nat /\ ImageSize \in Nat
  BY Lengths
<1> USE <1>sizes
<1>1. /\ rx' \in Seq(1 .. Len(file)) /\ Len(rx') = Len(rx) - n
      /\ \A i \in 1 .. Len(rx) - n : rx'[i] = rx[n + i]
  BY Popped DEF TypeInv, RxInv
<1>2. ControlInv' /\ FileInv' /\ FlashInv'
  BY DEF TypeInv, ControlInv, FileInv, FlashInv, PCs, Addr
<1>3. RxInv'
  <2>1. ASSUME NEW i \in 1 .. Len(rx') PROVE rx'[i] \in 1 .. Consumed' + i
    <3>1. n + i \in 1 .. Len(rx) /\ rx'[i] = rx[n + i]
      BY <1>1
    <3>2. Consumed' + i = Consumed + (n + i)
      BY <1>1 DEF Consumed
    <3> QED
      BY <3>1, <3>2 DEF TypeInv, RxInv
  <2> QED
    BY <1>1, <2>1 DEF TypeInv, RxInv
<1>4. WrInv'
  BY DEF WrInv
<1>5. Len(wr') \in Nat /\ Loaded' = m_wptr - ImageOffset + Len(wr')
  BY LenProperties DEF Loaded
<1>6. Consumed' = Consumed + n /\ Loaded' <= Loaded + n
  BY <1>1, <1>5 DEF Consumed, Loaded, TypeInv, LoadInv
<1>7. LoadedFromImage => LoadedFromImage'
  <2>1. Start' = Start
    BY DEF Start, ImageStart
  <2>2. Loaded' \in Int /\ Loaded \in Int /\ Consumed \in Int
    BY <1>5 DEF TypeInv, LoadInv
  <2> QED
    BY <1>6, <2>1, <2>2 DEF LoadedFromImage
<1>8. LoadInv'
  <2>1. m_state \in Header \cup Image \cup {"FAILED"}
    BY DEF TypeInv, ControlInv, States, Header, Image
  <2>2. CASE m_state \in Image
    BY <1>7, <2>2 DEF TypeInv, LoadInv, Image, Header
  <2>3. CASE m_state \in Header
    <3>1. wr' = <<>> /\ m_wptr = ImageOffset
      BY <2>3 DEF TypeInv, LoadInv, Image, Header
    <3>2. Loaded' = 0
      BY <1>5, <3>1, EmptySeq
    <3> QED
      BY <2>3, <3>1, <3>2 DEF TypeInv, LoadInv, Image, Header
  <2>4. CASE m_state = "FAILED"
    <3>1. wr' = wr /\ Loaded' = Loaded
      BY <1>5, <2>4 DEF Image, Loaded
    <3> QED
      BY <1>7, <2>4, <3>1 DEF TypeInv, LoadInv, Image, Header
  <2> QED
    BY <2>1, <2>2, <2>3, <2>4
<1> QED
  BY <1>2, <1>3, <1>4, <1>8 DEF TypeInv

(* The first n bytes of the receive buffer.                                *)
LEMMA FrontOfBuffer ==
  ASSUME TypeInv, NEW n \in 0 .. Len(rx)
  PROVE  SubSeq(rx, 1, n) \in Seq(1 .. Len(file)) /\ Len(SubSeq(rx, 1, n)) = n
<1> DEFINE Bytes == 1 .. Len(file)
<1>1. rx \in Seq(Bytes)
  BY DEF TypeInv, RxInv
<1>2. Len(rx) \in Nat
  BY Lengths
<1>3. 1 \in 1 .. Len(rx) + 1 /\ n \in 1 - 1 .. Len(rx)
  BY <1>2
<1> HIDE DEF Bytes
<1>4. SubSeq(rx, 1, n) \in Seq(Bytes) /\ Len(SubSeq(rx, 1, n)) = n - 1 + 1
  BY <1>1, <1>3, Part
<1>5. n \in Nat
  BY <1>2
<1> QED
  BY <1>4, <1>5 DEF Bytes

(* What the parser pushes: the first n bytes of the receive buffer, or     *)
(* none of them.                                                           *)
LEMMA PushedBytes ==
  ASSUME TypeInv, NEW n \in 0 .. Len(rx), PushWr(First(n))
  PROVE  /\ wr' \in Seq(1 .. Len(file)) /\ Len(wr') <= BufSize /\ Len(wr') <= Len(wr) + n
         /\ Len(wr) + n <= BufSize => wr' = wr \o SubSeq(rx, 1, n)
<1> DEFINE t == SubSeq(rx, 1, n)
<1>1. /\ t \in Seq(1 .. Len(file)) /\ Len(t) = n
      /\ wr \in Seq(1 .. Len(file)) /\ Len(wr) \in Nat /\ Len(wr) <= BufSize
  <2>1. t \in Seq(1 .. Len(file)) /\ Len(t) = n
    BY FrontOfBuffer
  <2> HIDE DEF t
  <2> QED
    BY <2>1, Lengths DEF TypeInv, WrInv
<1>2. wr' = IF Len(wr) + Len(t) <= BufSize THEN wr \o t ELSE wr
  BY DEF PushWr, First, Fits
<1> HIDE DEF t
<1>3. wr \o t \in Seq(1 .. Len(file)) /\ Len(wr \o t) = Len(wr) + Len(t)
  BY <1>1, ConcatProperties
<1>4. CASE Len(wr) + n <= BufSize
  <2>1. wr' = wr \o t
    BY <1>1, <1>2, <1>4
  <2> QED
    BY <1>1, <1>3, <1>4, <2>1 DEF t
<1>5. CASE ~(Len(wr) + n <= BufSize)
  BY <1>1, <1>2, <1>5, Lengths
<1> QED
  BY <1>4, <1>5

(* The padding in front of the sync word, as much of it as fits.           *)
LEMMA PaddedBytes ==
  ASSUME TypeInv, NEW n \in 0 .. Len(rx)
  PROVE  /\ Padded(n) \in Seq(1 .. Len(file))
         /\ Len(Padded(n)) <= BufSize /\ Len(Padded(n)) <= Len(wr) + n
         /\ Len(wr) + n <= BufSize => Padded(n) = wr \o SubSeq(rx, 1, n)
<1> DEFINE t == SubSeq(rx, 1, n)
           room == BufSize - Len(wr)
           m == Min({n, room})
           u == SubSeq(t, 1, m)
<1>1. /\ t \in Seq(1 .. Len(file)) /\ Len(t) = n
      /\ wr \in Seq(1 .. Len(file)) /\ Len(wr) \in Nat /\ Len(wr) <= BufSize
      /\ room \in Nat /\ n \in Nat
  <2>1. t \in Seq(1 .. Len(file)) /\ Len(t) = n
    BY FrontOfBuffer
  <2> QED
    BY <2>1, Lengths DEF TypeInv, WrInv
<1>2. Padded(n) = wr \o u
  BY <1>1 DEF Padded, Padding, First
<1>3. m = IF n <= room THEN n ELSE room
  <2> HIDE DEF room
  <2> QED
    BY <1>1 DEF Min
<1> HIDE DEF t, m
<1>4. u \in Seq(1 .. Len(file)) /\ Len(u) = m
  BY <1>1, <1>3, Part
<1> HIDE DEF u
<1>5. wr \o u \in Seq(1 .. Len(file)) /\ Len(wr \o u) = Len(wr) + m
  BY <1>1, <1>4, ConcatProperties
<1>6. Len(Padded(n)) <= BufSize /\ Len(Padded(n)) <= Len(wr) + n
  BY <1>1, <1>2, <1>3, <1>5, Lengths
<1>7. ASSUME Len(wr) + n <= BufSize PROVE u = t
  <2>1. m = Len(t)
    BY <1>1, <1>3, <1>7, Lengths
  <2> QED
    BY <1>1, <2>1, SubSeqFull DEF u
<1> QED
  BY <1>2, <1>5, <1>6, <1>7 DEF t

(* A block, or the rest, is written and taken out of the write buffer, or  *)
(* the update fails.                                                       *)
LEMMA WriteSafe ==
  ASSUME TypeInv, pc \in {"push", "pushLast", "pushFlush", "flush"}, pc' \in PCs,
         NEW n \in 0 .. Len(wr), WriteVerified(n), pc' = pc \/ pc' = "closed",
         UNCHANGED <<m_bigWordLen, rx, file, sent>>,
         m_state \in Header => m_wptr' = m_wptr,
         m_wptr' \in m_wptr .. m_wptr + n,
         m_state' = "FAILED" => m_wptr' = m_wptr
  PROVE  TypeInv'
<1>sizes. /\ Len(file) \in Nat /\ sent \in Nat /\ sent <= Len(file)
          /\ Len(rx) \in Nat /\ Len(wr) \in Nat /\ Consumed \in Nat /\ Loaded \in Nat
          /\ BufSize \in Nat /\ WriteBlock \in 1 .. BufSize
          /\ ImageOffset \in Nat /\ ImageSize \in Nat
  BY Lengths
<1> USE <1>sizes
<1>1. m_state' \in {m_state, "FAILED"}
  BY DEF WriteVerified
<1>2. ControlInv'
  <2>1. faulty' \in BOOLEAN
    BY Zenon DEF WriteVerified, TypeInv, ControlInv
  <2> QED
    BY <1>1, <2>1 DEF TypeInv, ControlInv, States
<1>3. FileInv' /\ RxInv'
  BY DEF TypeInv, FileInv, RxInv, Consumed
<1>4. FlashInv'
  <2>1. \A a \in Target(n) : wr[a - m_wptr + 1] \in 1 .. Len(file)
    <3>1. \A a \in Target(n) : a - m_wptr + 1 \in 1 .. Len(wr)
      BY DEF Target, TypeInv, LoadInv
    <3> QED
      BY <3>1, ElementOfSeq DEF TypeInv, WrInv
  <2>2. \A a \in Addr : flash[a] \in -2 .. Len(file)
    BY DEF TypeInv, FlashInv
  <2> QED
    BY <2>1, <2>2 DEF WriteVerified, FlashInv, Mixed
<1>5. \/ wr' = wr
      \/ wr' = Pop(wr, n) /\ m_state' = m_state
  BY DEF WriteVerified
<1>6. /\ wr' \in Seq(1 .. Len(file)) /\ Len(wr') \in Nat
      /\ wr' = wr \/ Len(wr') = Len(wr) - n
  <2>1. wr \in Seq(1 .. Len(file))
    BY DEF TypeInv, WrInv
  <2>2. CASE wr' = wr
    BY <2>1, <2>2
  <2>3. CASE wr' = Pop(wr, n)
    <3>1. wr' \in Seq(1 .. Len(file)) /\ Len(wr') = Len(wr) - n
      BY <2>1, <2>3, Popped
    <3> QED
      BY <3>1
  <2> QED
    BY <1>5, <2>2, <2>3
<1>7. WrInv'
  BY <1>6 DEF TypeInv, WrInv
<1>8. Loaded' \in Int /\ Loaded' <= Loaded /\ m_wptr' \in Nat /\ m_wptr' >= ImageOffset
  <2>1. CASE wr' = wr /\ m_state' = "FAILED"
    BY <2>1 DEF Loaded, TypeInv, LoadInv
  <2>2. CASE wr' = Pop(wr, n)
    <3>1. Len(wr') = Len(wr) - n
      BY <2>2, Popped DEF TypeInv, WrInv
    <3> QED
      BY <3>1 DEF Loaded, TypeInv, LoadInv
  <2> QED
    BY <2>1, <2>2 DEF WriteVerified
<1>9. LoadInv'
  <2>1. LoadedFromImage => LoadedFromImage'
    <3>1. Start' = Start /\ Consumed' = Consumed
      BY DEF Start, ImageStart, Consumed
    <3> QED
      BY <1>8, <3>1 DEF LoadedFromImage
  <2>2. m_state \in Header => wr' = <<>> /\ m_wptr' = ImageOffset /\ Loaded' = 0
    <3>1. ASSUME m_state \in Header PROVE wr' = <<>>
      <4>1. wr = <<>> /\ Len(wr) = 0
        BY <3>1, EmptySeq DEF TypeInv, LoadInv
      <4>2. Len(wr') = 0
        BY <1>6, <4>1
      <4> QED
        BY <1>6, <4>2, EmptySeq
    <3> QED
      BY <3>1, EmptySeq DEF TypeInv, LoadInv, Loaded
  <2>3. m_state = "FAILED" /\ Loaded = 0 => Loaded' = 0
    BY <1>6, <1>8 DEF Loaded, TypeInv, LoadInv
  <2> QED
    BY <1>1, <1>8, <2>1, <2>2, <2>3
    DEF TypeInv, LoadInv, ControlInv, States, Header, Image
<1> QED
  BY <1>2, <1>3, <1>4, <1>7, <1>9 DEF TypeInv

(* What is popped of an 'e' record is some of what there is.               *)
LEMMA ERecordPopped ==
  ASSUME TypeInv, ReadERecord
  PROVE  \E n \in 0 .. Len(rx) : rx' = Pop(rx, n)
<1>sizes. Len(rx) \in Nat
  BY Lengths
<1>1. CASE Len(rx) >= 5
  BY <1>1 DEF ReadERecord
<1>2. CASE rx' = rx
  <2>1. Pop(rx, 0) = rx
    BY SubSeqFull DEF Pop, TypeInv, RxInv
  <2> QED
    BY <1>2, <2>1
<1>3. CASE rx' = <<>>
  <2>1. Pop(rx, Len(rx)) = <<>>
    BY SubSeqEmpty DEF Pop
  <2> QED
    BY <1>3, <2>1
<1> QED
  BY <1>1, <1>2, <1>3 DEF ReadERecord

(* The erase after the 'e' record.                                         *)
LEMMA EraseSafe ==
  ASSUME TypeInv, ReadERecord
  PROVE  TypeInv'
<1>sizes. /\ Len(file) \in Nat /\ sent \in Nat /\ sent <= Len(file)
          /\ Len(rx) \in Nat /\ Len(wr) \in Nat /\ Consumed \in Nat /\ Loaded \in Nat
          /\ BufSize \in Nat /\ WriteBlock \in 1 .. BufSize
          /\ ImageOffset \in Nat /\ ImageSize \in Nat
  BY Lengths
<1> USE <1>sizes
<1>1. /\ pc = "process" /\ m_state = "READ_BITHDR_RECORDS" /\ wr' = wr
      /\ UNCHANGED <<file, sent, m_wptr, m_bigWordLen>> /\ pc' = "push"
      /\ rx # <<>> /\ Next1.kind = "e" /\ Next1.at = 1
  BY DEF ReadERecord, Parsing, Starts, Returns
<1>2. m_state' \in {"SYNC_WAIT", "FAILED"} /\ faulty' \in {faulty, TRUE}
  BY <1>1 DEF ReadERecord, EraseFlashPartition
<1>3. ControlInv'
  <2>1. faulty' \in BOOLEAN
    BY <1>2, Zenon DEF TypeInv, ControlInv
  <2> QED
    BY <1>1, <1>2, <2>1 DEF TypeInv, ControlInv, States, PCs
<1>4. \E n \in 0 .. Len(rx) : rx' = Pop(rx, n)
  BY ERecordPopped
<1>5. PICK n \in 0 .. Len(rx) : rx' = Pop(rx, n)
  BY <1>4
<1>6. /\ rx' \in Seq(1 .. Len(file)) /\ Len(rx') = Len(rx) - n
      /\ \A i \in 1 .. Len(rx) - n : rx'[i] = rx[n + i]
  BY <1>5, Popped DEF TypeInv, RxInv
<1>7. RxInv'
  <2>1. ASSUME NEW i \in 1 .. Len(rx') PROVE rx'[i] \in 1 .. Consumed' + i
    <3>1. n + i \in 1 .. Len(rx) /\ rx'[i] = rx[n + i]
      BY <1>6
    <3>2. Consumed' + i = Consumed + (n + i)
      BY <1>1, <1>6 DEF Consumed
    <3> QED
      BY <3>1, <3>2 DEF TypeInv, RxInv
  <2> QED
    BY <1>1, <1>6, <2>1 DEF TypeInv, RxInv
<1>8. WrInv' /\ FileInv'
  BY <1>1 DEF TypeInv, WrInv, FileInv
<1>9. FlashInv'
  <2>1. \E k : flash' = ErasedSectors(k)
    BY DEF ReadERecord, EraseFlashPartition
  <2> QED
    BY <1>1, <2>1 DEF ErasedSectors, TypeInv, FlashInv, Blank
<1>10. LoadInv'
  <2>1. wr = <<>> /\ Len(wr) = 0 /\ m_wptr = ImageOffset
    BY <1>1, EmptySeq DEF TypeInv, LoadInv, Header
  <2>2. Loaded' = 0
    BY <1>1, <2>1 DEF Loaded
  <2>3. rx[1] \in 1 .. Len(file) /\ rx[1] <= Consumed + 1
    <3>1. 1 \in 1 .. Len(rx)
      BY <1>1, EmptySeq DEF TypeInv, RxInv
    <3> QED
      BY <3>1 DEF TypeInv, RxInv
  <2>4. Start = rx[1] + 4 /\ Start <= Len(file)
    <3>1. Head(rx) = rx[1]
      BY <1>1, HeadTailProperties DEF TypeInv, RxInv
    <3> QED
      BY <1>1, <2>3, <3>1, StartOfImage DEF Next1, Start, TypeInv, FileInv
  <2>5. Start' = Start /\ Consumed' = Consumed + n
    BY <1>1, <1>6 DEF Start, ImageStart, Consumed
  <2>6. LoadedFromImage'
    <3>1. /\ Start \in 5 .. Len(file) /\ Start - 5 <= Consumed + n
          /\ 0 <= Consumed + n - (Start - 5)
      <4>1. Consumed \in Nat /\ n \in Nat /\ Len(file) \in Nat
        OBVIOUS
      <4> QED
        BY <2>3, <2>4, <4>1
    <3> QED
      BY <1>1, <2>2, <2>5, <3>1 DEF LoadedFromImage
  <2> QED
    BY <1>1, <1>2, <2>1, <2>6 DEF LoadInv, Header, Image
<1> QED
  BY <1>3, <1>7, <1>8, <1>9, <1>10 DEF TypeInv

(* One pass of the parser.                                                 *)
LEMMA ProcessSafe ==
  ASSUME TypeInv, Process
  PROVE  TypeInv'
<1>sizes. /\ Len(file) \in Nat /\ sent \in Nat /\ sent <= Len(file)
          /\ Len(rx) \in Nat /\ Len(wr) \in Nat /\ Consumed \in Nat /\ Loaded \in Nat
          /\ BufSize \in Nat /\ WriteBlock \in 1 .. BufSize
          /\ ImageOffset \in Nat /\ ImageSize \in Nat
  BY Lengths
<1> USE <1>sizes
<1>0. /\ rx \in Seq(1 .. Len(file)) /\ wr \in Seq(1 .. Len(file)) /\ Len(wr) <= BufSize
      /\ Pop(rx, 0) = rx /\ m_state \in States /\ m_bigWordLen \in Nat
      /\ rx # <<>> => Next1.len \in Nat /\ Next1.words \in Nat
  <2>1. rx \in Seq(1 .. Len(file)) /\ wr \in Seq(1 .. Len(file)) /\ Len(wr) <= BufSize
    BY DEF TypeInv, RxInv, WrInv
  <2>2. Pop(rx, 0) = rx
    BY <2>1, SubSeqFull DEF Pop
  <2>3. rx # <<>> => Head(rx) \in 1 .. Len(file)
    BY <2>1, HeadTailProperties
  <2> QED
    BY <2>1, <2>2, <2>3, FileShape DEF Next1, TypeInv, FileInv, ControlInv
<1>1. CASE NeedMore
  BY <1>0, <1>1, TakeSafe DEF NeedMore, Returns
<1>2. CASE ReadMagic
  <2>1. CASE Starts({"magic"})
    <3>1. MagicLen \in 0 .. Len(rx)
      BY <1>2, UpdateAssumption DEF ReadMagic, Parsing, HasNext, Has
    <3> QED
      BY <1>0, <1>2, <2>1, <3>1, TakeSafe
      DEF ReadMagic, Parsing, FlashLeft, Returns, States, Header, Image
  <2>2. CASE ~Starts({"magic"})
    BY <1>0, <1>2, <2>2, TakeSafe
    DEF ReadMagic, Parsing, FlashLeft, Returns, States, Header, Image
  <2> QED
    BY <2>1, <2>2
<1>3. CASE ReadRecord
  <2>1. \E n \in 0 .. Len(rx) : Pop(rx, Next1.len) = Pop(rx, n)
    <3>1. Len(rx) >= 3 /\ (Next1.kind = "e" \/ Len(rx) >= Next1.len)
      BY <1>3 DEF ReadRecord, Parsing, HasNext, Has
    <3>2. rx # <<>>
      BY <3>1, EmptySeq
    <3>3. CASE Len(rx) >= Next1.len
      BY <1>0, <3>2, <3>3
    <3>4. CASE ~(Len(rx) >= Next1.len)
      <4>1. Pop(rx, Next1.len) = <<>> /\ Pop(rx, Len(rx)) = <<>>
        BY <1>0, <3>2, <3>4, SubSeqEmpty DEF Pop
      <4> QED
        BY <4>1
    <3> QED
      BY <3>3, <3>4
  <2>2. PICK n \in 0 .. Len(rx) : rx' = Pop(rx, n)
    BY <1>3, <2>1 DEF ReadRecord
  <2> QED
    BY <1>0, <1>3, <2>2, TakeSafe
    DEF ReadRecord, Parsing, FlashLeft, Returns, States, Header, Image
<1>4. CASE ReadERecord
  BY <1>4, EraseSafe
<1>5. CASE FindSync
  <2>1. PICK i \in 1 .. Len(rx) - 4 :
          /\ wr' = IF Len(Padded(i - 1)) + 4 <= BufSize
                     THEN Padded(i - 1) \o SubSeq(rx, i, i + 3) ELSE Padded(i - 1)
          /\ rx' = Pop(rx, i + 3)
    BY <1>5 DEF FindSync
  <2> DEFINE p == Padded(i - 1)
             t == SubSeq(rx, i, i + 3)
  <2>2. p \in Seq(1 .. Len(file)) /\ Len(p) <= BufSize /\ Len(p) <= Len(wr) + (i - 1)
    BY PaddedBytes
  <2>3. t \in Seq(1 .. Len(file)) /\ Len(t) = 4
    BY <1>0, Part
  <2> HIDE DEF p, t
  <2>4. Len(p) \in Nat /\ p \o t \in Seq(1 .. Len(file)) /\ Len(p \o t) = Len(p) + 4
    <3>1. Len(p) \in Nat
      BY <2>2, LenProperties
    <3>2. p \o t \in Seq(1 .. Len(file)) /\ Len(p \o t) = Len(p) + Len(t)
      BY <2>2, <2>3, ConcatProperties
    <3> QED
      BY <2>3, <3>1, <3>2
  <2>5. wr' = IF Len(p) + 4 <= BufSize THEN p \o t ELSE p
    BY <2>1 DEF p, t
  <2>6. /\ wr' \in Seq(1 .. Len(file)) /\ Len(wr') <= BufSize
        /\ Len(wr') <= Len(wr) + (i + 3)
    <3>1. CASE Len(p) + 4 <= BufSize
      BY <2>2, <2>4, <2>5, <3>1
    <3>2. CASE ~(Len(p) + 4 <= BufSize)
      BY <2>2, <2>4, <2>5, <3>2
    <3> QED
      BY <3>1, <3>2
  <2>7. i + 3 \in 0 .. Len(rx) /\ rx' = Pop(rx, i + 3)
    BY <2>1
  <2> QED
    BY <1>0, <1>5, <2>6, <2>7, TakeSafe
    DEF FindSync, Parsing, FlashLeft, Returns, States, Header, Image
<1>6. CASE NoSync
  <2>1. PICK n \in 0 .. Len(rx) : wr' = Padded(n) /\ rx' = Pop(rx, n)
    BY <1>6 DEF NoSync
  <2>2. wr' \in Seq(1 .. Len(file)) /\ Len(wr') <= BufSize /\ Len(wr') <= Len(wr) + n
    BY <2>1, PaddedBytes
  <2> QED
    BY <1>0, <1>6, <2>1, <2>2, TakeSafe
    DEF NoSync, Parsing, FlashLeft, Returns, States, Header, Image
<1>7. CASE ReadPacket
  <2>1. Next1.len \in 0 .. Len(rx)
    BY <1>0, <1>7 DEF ReadPacket, Parsing, HasNext, Has, Starts
  <2>2. PushWr(First(Next1.len)) /\ rx' = Pop(rx, Next1.len)
    BY <1>7 DEF ReadPacket
  <2>3. /\ wr' \in Seq(1 .. Len(file)) /\ Len(wr') <= BufSize
        /\ Len(wr') <= Len(wr) + Next1.len
    BY <2>1, <2>2, PushedBytes
  <2> QED
    BY <1>0, <1>7, <2>1, <2>2, <2>3, TakeSafe
    DEF ReadPacket, Parsing, FlashLeft, Returns, States, Header, Image
<1>8. CASE ReadType2
  <2>1. 4 \in 0 .. Len(rx)
    BY <1>8 DEF ReadType2, Parsing, HasNext, Has
  <2>2. PushWr(First(4)) /\ rx' = Pop(rx, 4) /\ rx # <<>>
    BY <1>8 DEF ReadType2, Starts
  <2>3. /\ wr' \in Seq(1 .. Len(file)) /\ Len(wr') <= BufSize /\ Len(wr') <= Len(wr) + 4
    BY <2>1, <2>2, PushedBytes
  <2> QED
    BY <1>0, <1>8, <2>1, <2>2, <2>3, TakeSafe
    DEF ReadType2, Parsing, FlashLeft, Returns, States, Header, Image
<1>9. CASE BadPacket
  BY <1>0, <1>9, TakeSafe DEF BadPacket, Parsing, FlashLeft, Returns, States, Header, Image
<1>10. CASE BigWrite
  <2> DEFINE n == BigWords
  <2>1. n \in Nat /\ 4 * n \in 0 .. Len(rx) /\ m_bigWordLen - n \in Nat
    BY <1>0 DEF BigWords
  <2>2. /\ PushWr(First(4 * n)) /\ rx' = Pop(rx, 4 * n) /\ m_bigWordLen' = m_bigWordLen - n
        /\ m_state' \in {"BITSTREAM", "BIG_WRITE", "FAILED"} /\ m_state = "BIG_WRITE"
        /\ pc' \in {"push", "pushLast"} /\ pc = "process"
        /\ UNCHANGED <<m_wptr, file, sent, flash, faulty>>
    BY <1>10 DEF BigWrite, Parsing, FlashLeft, Returns
  <2> HIDE DEF n
  <2>3. /\ wr' \in Seq(1 .. Len(file)) /\ Len(wr') <= BufSize
        /\ Len(wr') <= Len(wr) + 4 * n
    BY <2>1, <2>2, PushedBytes
  <2> QED
    BY <1>0, <2>1, <2>2, <2>3, TakeSafe DEF States, Header, Image
<1>11. CASE DiscardRest
  <2>1. rx' = Pop(rx, Len(rx))
    BY <1>0, <1>11, SubSeqEmpty DEF DiscardRest, Pop
  <2>2. /\ pc = "process" /\ pc' \in {"push", "pushLast"} /\ wr' = wr
        /\ UNCHANGED <<m_state, m_bigWordLen, m_wptr, file, sent, flash, faulty>>
    BY <1>11 DEF DiscardRest, Returns
  <2>3. Len(rx) \in 0 .. Len(rx) /\ Len(wr) <= Len(wr) + Len(rx)
    OBVIOUS
  <2> QED
    BY <1>0, <2>1, <2>2, <2>3, TakeSafe
<1> QED
  BY <1>1, <1>2, <1>3, <1>4, <1>5, <1>6, <1>7, <1>8, <1>9, <1>10, <1>11 DEF Process

LEMMA PushSafe ==
  ASSUME TypeInv, PushBlock \/ PushedAll \/ FlushRest
  PROVE  TypeInv'
<1>sizes. Len(wr) \in Nat /\ WriteBlock \in 1 .. BufSize /\ BufSize \in Nat /\ m_wptr \in Nat
  BY Lengths DEF TypeInv, LoadInv
<1>1. CASE PushBlock
  <2>1. WriteBlock \in 0 .. Len(wr) /\ pc \in {"push", "pushLast", "pushFlush"}
    BY <1>1, <1>sizes DEF PushBlock, MorePushes, Pushing
  <2>2. WriteVerified(WriteBlock) /\ UNCHANGED <<m_bigWordLen, rx, pc, file, sent>>
    BY <1>1 DEF PushBlock
  <2>3. /\ m_state' = "FAILED" => m_wptr' = m_wptr
        /\ m_wptr' \in m_wptr .. m_wptr + WriteBlock
    BY <1>1, <1>sizes DEF PushBlock, NextWptr
  <2>4. m_state \in Header => m_wptr' = m_wptr
    <3>1. ASSUME m_state \in Header PROVE FALSE
      BY <1>sizes, <2>1, <3>1, EmptySeq DEF TypeInv, LoadInv
    <3> QED
      BY <3>1
  <2>5. pc' \in PCs
    BY <2>1, <2>2 DEF PCs
  <2> QED
    BY <2>1, <2>2, <2>3, <2>4, <2>5, WriteSafe
<1>2. CASE PushedAll
  <2>1. /\ pc' \in {"process", "idle", "flush"}
        /\ UNCHANGED <<m_state, m_bigWordLen, m_wptr, rx, wr, flash, file, sent, faulty>>
        /\ m_state = "FAILED" \/ Len(wr) < WriteBlock
    BY <1>2, <1>sizes DEF PushedAll, Pushing, MorePushes
  <2>2. Start' = Start /\ Consumed' = Consumed /\ Loaded' = Loaded
    BY <2>1 DEF Start, ImageStart, Consumed, Loaded
  <2>3. ControlInv' /\ FileInv' /\ RxInv' /\ WrInv' /\ FlashInv'
    BY <2>1, <2>2 DEF TypeInv, ControlInv, FileInv, RxInv, WrInv, FlashInv, PCs, Addr
  <2>4. LoadInv'
    BY <2>1, <2>2 DEF TypeInv, LoadInv, LoadedFromImage
  <2> QED
    BY <2>3, <2>4 DEF TypeInv
<1>3. CASE FlushRest
  <2>1. Len(wr) \in 0 .. Len(wr) /\ m_wptr' = m_wptr /\ m_wptr' \in m_wptr .. m_wptr + Len(wr)
    BY <1>3, <1>sizes DEF FlushRest
  <2> QED
    BY <1>3, <2>1, WriteSafe DEF FlushRest, PCs
<1> QED
  BY <1>1, <1>2, <1>3

LEMMA InitTypes == Init => TypeInv
<1> SUFFICES ASSUME Init PROVE TypeInv
  OBVIOUS
<1>1. Len(file) \in Nat /\ file \in Files
  BY FileShape DEF Init
<1>2. /\ <<>> \in Seq(1 .. Len(file)) /\ Len(<<>>) = 0
      /\ BufSize \in Nat /\ WriteBlock \in 1 .. BufSize /\ ImageOffset \in Nat
  BY EmptySeq, UpdateAssumption
<1>3. faulty \in BOOLEAN
  BY Zenon DEF Init
<1>4. ControlInv /\ FileInv /\ RxInv /\ WrInv
  BY <1>1, <1>2, <1>3 DEF Init, ControlInv, FileInv, RxInv, WrInv, States, PCs
<1>5. FlashInv
  BY <1>1 DEF Init, FlashInv, Old, Blank
<1>6. LoadInv
  BY <1>2 DEF Init, LoadInv, Header, Image
<1> QED
  BY <1>4, <1>5, <1>6 DEF TypeInv

(* The calls of the SFTP server.                                           *)
LEMMA CallSafe ==
  ASSUME TypeInv, OnDeviceOpened \/ OnRxData \/ OnDeviceClosed
  PROVE  TypeInv'
<1>sizes. /\ Len(file) \in Nat /\ sent \in Nat /\ sent <= Len(file)
          /\ Len(rx) \in Nat /\ Len(wr) \in Nat /\ Consumed \in Nat /\ Loaded \in Nat
          /\ BufSize \in Nat /\ WriteBlock \in 1 .. BufSize /\ ImageOffset \in Nat
          /\ MaxChunk \in Nat
  BY Lengths, UpdateAssumption
<1>1. CASE OnDeviceOpened
  <2>1. /\ pc' = "idle" /\ rx' = <<>> /\ wr' = <<>> /\ m_state' = "READ_BITHDR"
        /\ m_bigWordLen' = 0 /\ m_wptr' = ImageOffset /\ sent' = 0 /\ faulty' = FALSE
        /\ file' \in Files
        /\ flash' = [a \in Addr |-> IF flash[a] > 0 THEN Old ELSE flash[a]]
    BY <1>1 DEF OnDeviceOpened
  <2>2. Len(file') \in Nat
    <3>1. PICK f \in Files : f = file'
      BY <2>1
    <3> QED
      BY <3>1, FileShape
  <2>3. /\ <<>> \in Seq(1 .. Len(file')) /\ Len(<<>>) = 0
    BY EmptySeq
  <2>4. faulty' \in BOOLEAN
    BY <2>1, Zenon
  <2>5. ControlInv' /\ FileInv' /\ RxInv' /\ WrInv'
    BY <1>sizes, <2>1, <2>2, <2>3, <2>4 DEF ControlInv, FileInv, RxInv, WrInv, States, PCs
  <2>6. FlashInv'
    <3>1. \A a \in Addr : flash[a] \in -2 .. Len(file)
      BY DEF TypeInv, FlashInv
    <3>2. \A a \in Addr : flash'[a] \in -2 .. 0
      BY <1>sizes, <2>1, <3>1 DEF Old
    <3>3. \A a \in Addr : flash'[a] \in -2 .. Len(file')
      BY <2>2, <3>2
    <3> QED
      BY <2>1, <3>3 DEF FlashInv, Addr
  <2>7. LoadInv'
    BY <1>sizes, <2>1 DEF LoadInv, Header, Image
  <2> QED
    BY <2>5, <2>6, <2>7 DEF TypeInv
<1>2. CASE OnRxData
  <2>1. PICK n \in 1 .. MaxChunk :
          /\ sent + n <= Len(file) /\ sent' = sent + n
          /\ IF Len(rx) + n <= BufSize
                THEN rx' = rx \o [i \in 1 .. n |-> sent + i] /\ pc' = "process"
                ELSE UNCHANGED <<rx, pc>>
    BY <1>2 DEF OnRxData
  <2>2. /\ UNCHANGED <<m_state, m_bigWordLen, m_wptr, wr, flash, file, faulty>> /\ pc = "idle"
        /\ pc' \in {"idle", "process"}
    BY <1>2, <2>1 DEF OnRxData
  <2> DEFINE t == [i \in 1 .. n |-> sent + i]
  <2>3. t \in Seq(1 .. Len(file)) /\ Len(t) = n /\ \A i \in 1 .. n : t[i] = sent + i
    <3>1. t \in [1 .. n -> 1 .. Len(file)]
      BY <1>sizes, <2>1
    <3>2. t \in Seq(1 .. Len(file))
      BY <1>sizes, <3>1, SeqDef
    <3> QED
      BY <1>sizes, <3>1, <3>2, LenProperties
  <2>4. Len(rx) + n <= BufSize => rx' = rx \o t
    BY <2>1
  <2> HIDE DEF t
  <2>5. RxInv' /\ Consumed' \in Nat /\ Consumed <= Consumed'
    <3>0. rx \in Seq(1 .. Len(file)) /\ \A i \in 1 .. Len(rx) : rx[i] \in 1 .. Consumed + i
      BY DEF TypeInv, RxInv
    <3>1. CASE Len(rx) + n <= BufSize
      <4>1. rx' \in Seq(1 .. Len(file)) /\ Len(rx') = Len(rx) + n
        <5>1. rx' = rx \o t /\ t \in Seq(1 .. Len(file)) /\ rx \in Seq(1 .. Len(file))
          BY <2>3, <2>4, <3>0, <3>1
        <5>2. rx' \in Seq(1 .. Len(file)) /\ Len(rx') = Len(rx) + Len(t)
          BY <5>1, ConcatProperties
        <5> QED
          BY <2>3, <5>2
      <4>2. \A i \in 1 .. Len(rx) : rx'[i] = rx[i]
        BY <2>3, <2>4, <3>0, <3>1, Joined
      <4>3. \A i \in 1 .. Len(t) : rx'[Len(rx) + i] = t[i]
        BY <2>3, <2>4, <3>0, <3>1, Joined
      <4>4. Consumed' = Consumed
        BY <1>sizes, <2>1, <4>1 DEF Consumed
      <4>5. ASSUME NEW i \in 1 .. Len(rx') PROVE rx'[i] \in 1 .. Consumed' + i
        <5>1. CASE i <= Len(rx)
          BY <1>sizes, <3>0, <4>1, <4>2, <4>4, <5>1
        <5>2. CASE i > Len(rx)
          <6>1. i - Len(rx) \in 1 .. Len(t) /\ i = Len(rx) + (i - Len(rx))
            BY <1>sizes, <2>3, <4>1, <5>2
          <6>2. rx'[i] = t[i - Len(rx)]
            BY <4>3, <6>1
          <6>3. rx'[i] = sent + (i - Len(rx))
            BY <2>3, <6>1, <6>2
          <6> QED
            BY <1>sizes, <2>3, <4>1, <4>4, <6>1, <6>3 DEF Consumed
        <5> QED
          BY <1>sizes, <4>1, <5>1, <5>2
      <4> QED
        BY <1>sizes, <2>1, <2>2, <3>1, <4>1, <4>4, <4>5 DEF TypeInv, RxInv
    <3>2. CASE ~(Len(rx) + n <= BufSize)
      <4>1. rx' = rx /\ Consumed' = Consumed + n
        BY <1>sizes, <2>1, <3>2 DEF Consumed
      <4> QED
        BY <1>sizes, <2>1, <2>2, <3>0, <4>1 DEF TypeInv, RxInv
    <3> QED
      BY <3>1, <3>2
  <2>6. ControlInv' /\ FileInv' /\ WrInv' /\ FlashInv'
    BY <1>sizes, <2>1, <2>2 DEF TypeInv, ControlInv, FileInv, WrInv, FlashInv, PCs, Addr
  <2>7. LoadInv'
    <3>1. Start' = Start /\ Loaded' = Loaded
      BY <2>2 DEF Start, ImageStart, Loaded
    <3> QED
      BY <1>sizes, <2>2, <2>5, <3>1 DEF TypeInv, LoadInv, LoadedFromImage
  <2> QED
    BY <2>5, <2>6, <2>7 DEF TypeInv
<1>3. CASE OnDeviceClosed
  <2>1. /\ pc' \in {"closed", "pushFlush"}
        /\ UNCHANGED <<m_state, m_bigWordLen, m_wptr, rx, wr, flash, file, sent, faulty>>
    BY <1>3 DEF OnDeviceClosed
  <2>2. Start' = Start /\ Consumed' = Consumed /\ Loaded' = Loaded
    BY <2>1 DEF Start, ImageStart, Consumed, Loaded
  <2>3. ControlInv' /\ FileInv' /\ RxInv' /\ WrInv' /\ FlashInv'
    BY <2>1, <2>2 DEF TypeInv, ControlInv, FileInv, RxInv, WrInv, FlashInv, PCs, Addr
  <2>4. LoadInv'
    BY <2>1, <2>2 DEF TypeInv, LoadInv, LoadedFromImage
  <2> QED
    BY <2>3, <2>4 DEF TypeInv
<1> QED
  BY <1>1, <1>2, <1>3

LEMMA TypeStep ==
  ASSUME TypeInv, [Next]_vars
  PROVE  TypeInv'
<1>1. CASE UNCHANGED vars
  <2>1. Start' = Start /\ Consumed' = Consumed /\ Loaded' = Loaded
    BY <1>1 DEF vars, Start, ImageStart, Consumed, Loaded
  <2> QED
    BY <1>1, <2>1 DEF vars, TypeInv, ControlInv, FileInv, RxInv, WrInv, FlashInv, LoadInv,
                      LoadedFromImage, Addr
<1> QED
  BY <1>1, CallSafe, ProcessSafe, PushSafe DEF Next, Handler

(* The types hold throughout, whatever is dropped on the way.              *)
THEOREM TypeInvariance == Spec => []TypeInv
<1>1. Init => TypeInv
  BY InitTypes
<1>2. TypeInv /\ [Next]_vars => TypeInv'
  BY TypeStep
<1> QED
  BY <1>1, <1>2, PTL DEF Spec

(* No buffer runs over, the write address stays in the partition and less  *)
(* than a block waits between calls: UpdateTypeOK, if the image fits.      *)
THEOREM UpdateTypeCorrect ==
  ASSUME ImageFits
  PROVE  Spec => []UpdateTypeOK
<1>1. TypeInv => UpdateTypeOK
  <2> SUFFICES ASSUME TypeInv PROVE UpdateTypeOK
    OBVIOUS
  <2>sizes. /\ Len(file) \in Nat /\ sent \in Nat /\ sent <= Len(file)
            /\ Len(rx) \in Nat /\ Len(wr) \in Nat /\ Consumed \in Nat /\ Loaded \in Nat
            /\ ImageOffset \in Nat /\ ImageSize \in Nat
    BY Lengths
  <2>1. LoadedFromImage => Loaded <= ImageSize
    <3>1. Len(file) - (Start - 5) <= ImageSize
      BY DEF ImageFits, TypeInv, FileInv, Start
    <3>2. Consumed <= Len(file)
      BY <2>sizes DEF Consumed
    <3> QED
      BY <2>sizes, <3>1, <3>2 DEF LoadedFromImage
  <2>2. m_wptr \in Nat /\ m_wptr >= ImageOffset /\ m_wptr - ImageOffset <= Loaded
    BY <2>sizes DEF Loaded, TypeInv, LoadInv
  <2>3. m_state \in Header => Loaded = 0
    BY <2>sizes, EmptySeq DEF Loaded, TypeInv, LoadInv
  <2>4. m_wptr \in ImageOffset .. ImageOffset + ImageSize
    BY <2>sizes, <2>1, <2>2, <2>3
    DEF TypeInv, LoadInv, ControlInv, States, Header, Image
  <2>5. ToSet(rx) \cup ToSet(wr) \subseteq 1 .. Len(file)
    <3>1. rx \in [1 .. Len(rx) -> 1 .. Len(file)] /\ wr \in [1 .. Len(wr) -> 1 .. Len(file)]
      BY LenProperties DEF TypeInv, RxInv, WrInv
    <3> QED
      BY <3>1 DEF ToSet
  <2> QED
    BY <2>sizes, <2>4, <2>5
    DEF UpdateTypeOK, TypeInv, ControlInv, FileInv, RxInv, WrInv, FlashInv
<1> QED
  BY <1>1, TypeInvariance, PTL

-----------------------------------------------------------------------------
(* Part three: with buffers that suffice nothing is dropped.               *)

(* The receive buffer holds what arrived and was not consumed, and between *)
(* two calls less than what the parser may wait for.                       *)
ArrivedInv ==
  /\ Run(rx, Consumed)
  /\ pc \in {"process", "push"} => Len(rx) < LongestWait + MaxChunk
  /\ pc \notin {"process", "push"} => Len(rx) < LongestWait

(* The header is parsed record by record, and the image only after one     *)
(* without the name of another device.                                     *)
AtRecord ==
  /\ Consumed < Len(file) => file[Consumed + 1].at = 1
  /\ \A j \in 1 .. Consumed : file[j].kind \notin {"otherDevice", "e"}
OtherDevice == \E j \in 1 .. Len(file) : file[j].kind = "otherDevice"
HeaderInv ==
  /\ m_state \in Header => AtRecord
  /\ m_state \in Image => ~OtherDevice
  /\ m_state = "FAILED" /\ OtherDevice => wr = <<>>

ArrivalInv == TypeInv /\ ArrivedInv /\ HeaderInv

(* The next byte is the first that was not consumed.                       *)
LEMMA NextByte ==
  ASSUME ArrivalInv, rx # <<>>
  PROVE  /\ Len(rx) > 0 /\ Consumed + 1 \in 1 .. Len(file)
         /\ Next1 = file[Consumed + 1] /\ Next1.len \in Nat \ {0}
<1>1. rx \in Seq(1 .. Len(file)) /\ file \in Files
  BY DEF ArrivalInv, TypeInv, RxInv, FileInv
<1>2. Len(rx) \in Nat \ {0}
  BY <1>1, EmptySeq
<1>3. Head(rx) = rx[1] /\ rx[1] \in 1 .. Len(file)
  BY <1>1, <1>2, HeadTailProperties, ElementOfSeq
<1>4. rx[1] = Consumed + 1
  BY <1>2 DEF ArrivalInv, ArrivedInv, Run
<1> QED
  BY <1>1, <1>2, <1>3, <1>4, FileShape DEF Next1

(* A field that is popped whole leaves the parser at a field.              *)
LEMMA FieldPopped ==
  ASSUME NEW f \in Files, NEW i \in 1 .. Len(f), f[i].at = 1
  PROVE  /\ \A j \in i .. i + f[i].len - 1 : j <= Len(f) /\ f[j].kind = f[i].kind
         /\ i + f[i].len <= Len(f) => f[i + f[i].len].at = 1
<1>1. IsFile(f) /\ Len(f) \in Nat /\ f[i].len \in Nat
  BY FileShape, UpdateAssumption
<1>2. \A k \in 1 .. f[i].len :
        i + k - 1 <= Len(f) /\ f[i + k - 1] = [f[i] EXCEPT !.at = k]
  BY <1>1 DEF IsFile
<1>3. f[i] \in [kind : Kinds, len : Nat \ {0}, at : Nat \ {0}, words : Nat]
  BY <1>1, ElementOfSeq DEF IsFile
<1>4. ASSUME NEW j \in i .. i + f[i].len - 1 PROVE j <= Len(f) /\ f[j].kind = f[i].kind
  <2> DEFINE k == j - i + 1
  <2>1. k \in 1 .. f[i].len /\ i + k - 1 = j
    BY <1>1
  <2> HIDE DEF k
  <2>2. i + k - 1 <= Len(f) /\ f[i + k - 1] = [f[i] EXCEPT !.at = k]
    BY <1>2, <2>1
  <2>3. f[j] = [f[i] EXCEPT !.at = k] /\ j <= Len(f)
    BY <2>1, <2>2
  <2> QED
    BY <1>3, <2>3
<1>5. i + f[i].len <= Len(f) => f[i + f[i].len].at = 1
  BY <1>1 DEF IsFile
<1> QED
  BY <1>4, <1>5

(* When the parser waits for more, what it has is short.                   *)
LEMMA Waits ==
  ASSUME ArrivalInv, BuffersSuffice, ~HasNext
  PROVE  Len(rx) < LongestWait
<1>1. /\ Len(rx) \in Nat /\ Consumed \in Nat /\ LongestWait \in Int /\ MagicLen \in Nat
      /\ 5 <= LongestWait /\ MagicLen <= LongestWait /\ file \in Files
      /\ m_state \in States
  BY Lengths, UpdateAssumption
  DEF ArrivalInv, TypeInv, FileInv, ControlInv, BuffersSuffice, LongestWait
<1>2. rx # <<>> /\ Next1.kind # "data" => Next1.len <= LongestWait /\ Next1.len \in Nat
  BY <1>1, NextByte DEF BuffersSuffice
<1>3. CASE m_state = "READ_BITHDR"
  BY <1>1, <1>3 DEF HasNext, Has
<1>4. CASE m_state = "READ_BITHDR_RECORDS"
  <2>1. CASE Len(rx) < 3
    BY <1>1, <2>1
  <2>2. CASE Len(rx) >= 3
    <3>1. rx # <<>> /\ Next1.kind # "e" /\ ~(Len(rx) >= Next1.len)
      BY <1>1, <1>4, <2>2, EmptySeq DEF HasNext, Has
    <3>2. Next1.kind # "data"
      <4> SUFFICES ASSUME Next1.kind = "data" PROVE FALSE
        OBVIOUS
      <4>1. Consumed + 1 \in 1 .. Len(file) /\ file[Consumed + 1].kind = "data"
        BY <3>1, NextByte
      <4>2. PICK i \in 1 .. Consumed + 1 : file[i].kind = "e"
        BY <1>1, <4>1, UpdateAssumption DEF IsFile, HeaderKinds
      <4>3. i # Consumed + 1
        BY <4>1, <4>2
      <4>4. i \in 1 .. Consumed
        BY <1>1, <4>2, <4>3
      <4> QED
        BY <1>4, <4>2, <4>4 DEF ArrivalInv, HeaderInv, AtRecord, Header
    <3> QED
      BY <1>1, <1>2, <3>1, <3>2
  <2> QED
    BY <1>1, <2>1, <2>2
<1>5. CASE m_state = "BITSTREAM"
  <2>1. CASE Len(rx) < 4
    BY <1>1, <2>1
  <2>2. CASE Len(rx) >= 4
    <3>1. Starts(Packets) /\ ~(Len(rx) >= Next1.len)
      BY <1>1, <1>5, <2>2 DEF HasNext, Has
    <3> QED
      BY <1>1, <1>2, <3>1 DEF Starts, Packets
  <2> QED
    BY <1>1, <2>1, <2>2
<1>6. CASE m_state = "BIG_WRITE"
  BY <1>1, <1>6 DEF HasNext, Has
<1> QED
  BY <1>1, <1>3, <1>4, <1>5, <1>6 DEF HasNext, States

(* A pop of the first n bytes leaves the rest of what arrived.             *)
LEMMA ArrivedTail ==
  ASSUME ArrivalInv, NEW n \in 0 .. Len(rx), rx' = Pop(rx, n), sent' = sent
  PROVE  Len(rx') = Len(rx) - n /\ Consumed' = Consumed + n /\ Run(rx, Consumed)'
<1>1. /\ rx \in Seq(1 .. Len(file)) /\ Len(rx) \in Nat /\ Consumed \in Nat /\ sent \in Nat
      /\ \A i \in 1 .. Len(rx) : rx[i] = Consumed + i
  BY Lengths DEF ArrivalInv, TypeInv, RxInv, ArrivedInv, Run
<1>2. Len(rx') = Len(rx) - n /\ \A i \in 1 .. Len(rx) - n : rx'[i] = rx[n + i]
  BY <1>1, Popped
<1>3. Consumed' = Consumed + n
  BY <1>1, <1>2 DEF Consumed
<1>4. ASSUME NEW i \in 1 .. Len(rx') PROVE rx'[i] = Consumed' + i
  <2>1. n + i \in 1 .. Len(rx) /\ rx'[i] = rx[n + i]
    BY <1>1, <1>2
  <2> QED
    BY <1>1, <1>3, <2>1
<1> QED
  BY <1>2, <1>3, <1>4 DEF Run

(* A step of the parser keeps the invariant if it returns to the loop or   *)
(* leaves little, and if the header stays what it was.                     *)
LEMMA ParserStep ==
  ASSUME ArrivalInv, TypeInv', pc = "process", NEW n \in 0 .. Len(rx), rx' = Pop(rx, n),
         pc' \in {"push", "pushLast"}, UNCHANGED <<file, sent>>,
         pc' = "pushLast" => Len(rx) - n < LongestWait,
         m_state' \in Header => AtRecord',
         m_state' \in Image => ~OtherDevice,
         m_state' = "FAILED" /\ OtherDevice => wr' = <<>>
  PROVE  ArrivalInv'
<1>1. /\ Len(rx) \in Nat /\ LongestWait \in Int
      /\ MaxChunk \in Nat /\ Len(rx) < LongestWait + MaxChunk
  BY Lengths, UpdateAssumption DEF ArrivalInv, ArrivedInv, LongestWait
<1>2. Len(rx') = Len(rx) - n /\ Consumed' = Consumed + n /\ Run(rx, Consumed)'
  BY ArrivedTail
<1>3. ArrivedInv'
  BY <1>1, <1>2 DEF ArrivedInv
<1>4. OtherDevice' = OtherDevice
  BY DEF OtherDevice
<1>5. HeaderInv'
  BY <1>4 DEF HeaderInv
<1> QED
  BY <1>3, <1>5 DEF ArrivalInv

(* The record is popped: the parser is at the next one.                    *)
LEMMA RecordPopped ==
  ASSUME ArrivalInv, rx # <<>>, AtRecord, Next1.len <= Len(rx),
         Next1.kind \notin {"otherDevice", "e"},
         rx' = Pop(rx, Next1.len), UNCHANGED <<file, sent>>
  PROVE  Next1.len \in 0 .. Len(rx) /\ AtRecord'
<1> DEFINE i == Consumed + 1
           n == Next1.len
<1>1. /\ i \in 1 .. Len(file) /\ Next1 = file[i] /\ n \in Nat \ {0} /\ file \in Files
      /\ Len(file) \in Nat /\ Consumed \in Nat /\ Len(rx) \in Nat
  BY NextByte, Lengths DEF ArrivalInv, TypeInv, FileInv
<1>2. file[i].at = 1
  BY <1>1 DEF AtRecord
<1>3. /\ \A j \in i .. i + n - 1 : j <= Len(file) /\ file[j].kind = file[i].kind
      /\ i + n <= Len(file) => file[i + n].at = 1
  BY <1>1, <1>2, FieldPopped
<1>4. n \in 0 .. Len(rx)
  BY <1>1
<1>5. Consumed' = Consumed + n
  BY <1>4, ArrivedTail
<1>6. ASSUME NEW j \in 1 .. Consumed + n PROVE file[j].kind \notin {"otherDevice", "e"}
  <2>1. CASE j \in 1 .. Consumed
    BY <2>1 DEF AtRecord
  <2>2. CASE j \in i .. i + n - 1
    BY <1>1, <1>3, <2>2
  <2>3. j \in 1 .. Consumed \/ j \in i .. i + n - 1
    BY <1>1
  <2> QED
    BY <2>1, <2>2, <2>3
<1>7. Consumed + n < Len(file) => file[Consumed + n + 1].at = 1
  <2>1. Consumed + n + 1 = i + n
    BY <1>1
  <2> QED
    BY <1>1, <1>3, <2>1
<1> HIDE DEF n
<1>8. AtRecord'
  BY <1>5, <1>6, <1>7 DEF AtRecord
<1> QED
  BY <1>4, <1>8 DEF n

LEMMA ArrivalProcess ==
  ASSUME ArrivalInv, TypeInv', Process, BuffersSuffice
  PROVE  ArrivalInv'
<1>sizes. /\ Len(rx) \in Nat /\ LongestWait \in Int /\ 5 <= LongestWait /\ Consumed \in Nat
          /\ Len(file) \in Nat /\ file \in Files /\ MagicLen \in Nat \ {0}
          /\ rx \in Seq(1 .. Len(file)) /\ Pop(rx, 0) = rx
  BY Lengths, SubSeqFull, UpdateAssumption
  DEF ArrivalInv, TypeInv, FileInv, RxInv, LongestWait, BuffersSuffice, Pop
<1>state. /\ m_state \in Header => AtRecord /\ wr = <<>>
          /\ m_state \in Image => ~OtherDevice
          /\ m_state = "FAILED" /\ OtherDevice => wr = <<>>
  BY DEF ArrivalInv, HeaderInv, TypeInv, LoadInv
<1>1. CASE NeedMore
  <2>1. /\ pc = "process" /\ ~HasNext /\ pc' = "pushLast"
        /\ UNCHANGED <<m_state, rx, wr, file, sent>>
    BY <1>1 DEF NeedMore, Returns
  <2>2. Len(rx) < LongestWait
    BY <2>1, Waits
  <2>3. Consumed' = Consumed
    BY <2>1 DEF Consumed
  <2>4. AtRecord => AtRecord'
    BY <2>1, <2>3 DEF AtRecord
  <2>5. 0 \in 0 .. Len(rx) /\ rx' = Pop(rx, 0) /\ Len(rx) - 0 < LongestWait
    BY <1>sizes, <2>1, <2>2
  <2> QED
    BY <1>state, <2>1, <2>4, <2>5, ParserStep
<1>2. CASE ReadMagic
  <2>1. pc = "process" /\ pc' = "push" /\ UNCHANGED <<file, sent, wr>> /\ m_state \in Header
    BY <1>2 DEF ReadMagic, Parsing, Returns, Header
  <2>2. CASE Starts({"magic"})
    <3>1. /\ rx # <<>> /\ Next1.kind = "magic" /\ Len(rx) >= MagicLen
          /\ rx' = Pop(rx, MagicLen) /\ m_state' = "READ_BITHDR_RECORDS"
      BY <1>2, <2>2 DEF ReadMagic, Parsing, HasNext, Has, Starts
    <3>2. Next1.len = MagicLen
      <4>1. \A i \in 1 .. Len(file) : file[i].kind = "magic" => file[i].len = MagicLen
        BY <1>sizes, UpdateAssumption DEF IsFile
      <4> QED
        BY <3>1, <4>1, NextByte
    <3>3. MagicLen \in 0 .. Len(rx) /\ AtRecord'
      BY <1>state, <2>1, <3>1, <3>2, RecordPopped
    <3> QED
      BY <2>1, <3>1, <3>3, ParserStep DEF Header, Image
  <2>3. CASE ~Starts({"magic"})
    <3>1. 0 \in 0 .. Len(rx) /\ rx' = Pop(rx, 0) /\ m_state' = "FAILED"
      BY <1>sizes, <1>2, <2>3 DEF ReadMagic
    <3> QED
      BY <1>state, <2>1, <3>1, ParserStep DEF Header, Image
  <2> QED
    BY <2>2, <2>3
<1>3. CASE ReadRecord
  <2>1. /\ pc = "process" /\ pc' = "push" /\ UNCHANGED <<file, sent, wr>> /\ m_state \in Header
        /\ rx' = Pop(rx, Next1.len) /\ Len(rx) >= 3
        /\ Next1.kind = "e" \/ Next1.len <= Len(rx)
        /\ m_state' = IF Next1.kind # "otherDevice" THEN m_state ELSE "FAILED"
        /\ m_state = "READ_BITHDR_RECORDS"
    BY <1>3, <1>sizes, NextByte, EmptySeq
    DEF ReadRecord, Parsing, HasNext, Has, Returns, Header, DeviceMatches
  <2>2. rx # <<>> /\ Next1.at = 1 /\ Next1.kind # "e"
    <3>1. rx # <<>>
      BY <1>sizes, <2>1, EmptySeq
    <3>2. Next1.at = 1
      BY <1>sizes, <1>state, <2>1, <3>1, NextByte DEF AtRecord
    <3> QED
      BY <1>3, <3>1, <3>2 DEF ReadRecord, Starts
  <2>3. Next1.len \in 0 .. Len(rx)
    BY <1>sizes, <2>1, <2>2, NextByte
  <2>4. CASE Next1.kind = "otherDevice"
    BY <1>state, <2>1, <2>3, <2>4, ParserStep DEF Header, Image
  <2>5. CASE Next1.kind # "otherDevice"
    <3>1. AtRecord'
      BY <1>state, <2>1, <2>2, <2>5, RecordPopped
    <3> QED
      BY <2>1, <2>3, <2>5, <3>1, ParserStep DEF Header, Image
  <2> QED
    BY <2>4, <2>5
<1>4. CASE ReadERecord
  <2>1. /\ pc = "process" /\ pc' = "push" /\ UNCHANGED <<file, sent, wr>> /\ m_state \in Header
        /\ rx # <<>> /\ Next1.kind = "e" /\ Next1.at = 1
        /\ m_state' \in {"SYNC_WAIT", "FAILED"}
    BY <1>4 DEF ReadERecord, Parsing, Returns, Starts, EraseFlashPartition, Header
  <2>2. ~OtherDevice
    <3> SUFFICES ASSUME NEW j \in 1 .. Len(file), file[j].kind = "otherDevice" PROVE FALSE
      BY DEF OtherDevice
    <3>1. Consumed + 1 \in 1 .. Len(file) /\ file[Consumed + 1].kind = "e"
      BY <2>1, NextByte
    <3>2. ~(j \in 1 .. Consumed)
      BY <1>state, <2>1 DEF AtRecord
    <3>3. j # Consumed + 1
      BY <3>1
    <3>4. Consumed + 1 < j
      BY <1>sizes, <3>2, <3>3
    <3> QED
      <4>1. \A k, l \in 1 .. Len(file) :
              file[k].kind = "e" /\ k < l => file[l].kind \notin HeaderKinds
        BY <1>sizes, UpdateAssumption DEF IsFile
      <4> QED
        BY <3>1, <3>4, <4>1 DEF HeaderKinds
  <2>3. PICK n \in 0 .. Len(rx) : rx' = Pop(rx, n)
    BY <1>4, ERecordPopped DEF ArrivalInv
  <2> QED
    BY <2>1, <2>2, <2>3, ParserStep DEF Header, Image
<1>5. CASE FindSync
  <2>1. PICK i \in 1 .. Len(rx) - 4 : rx' = Pop(rx, i + 3)
    BY <1>5 DEF FindSync
  <2>2. /\ pc = "process" /\ pc' = "push" /\ UNCHANGED <<file, sent>>
        /\ m_state \in Image /\ m_state' = "BITSTREAM"
    BY <1>5 DEF FindSync, Parsing, Returns, Image
  <2>3. i + 3 \in 0 .. Len(rx)
    BY <1>sizes
  <2> QED
    BY <1>state, <2>1, <2>2, <2>3, ParserStep DEF Header, Image
<1>6. CASE NoSync
  <2> DEFINE n == IF Len(rx) > 4 THEN Len(rx) - 4 ELSE 0
  <2>1. rx' = Pop(rx, n)
    BY <1>6 DEF NoSync
  <2>2. /\ pc = "process" /\ pc' = "pushLast" /\ UNCHANGED <<file, sent>>
        /\ m_state \in Image /\ m_state' = "SYNC_WAIT"
    BY <1>6 DEF NoSync, Parsing, Returns, Image
  <2>3. n \in 0 .. Len(rx) /\ Len(rx) - n < LongestWait
    BY <1>sizes
  <2> HIDE DEF n
  <2> QED
    BY <1>state, <2>1, <2>2, <2>3, ParserStep DEF Header, Image
<1>7. CASE ReadPacket
  <2>1. /\ pc = "process" /\ pc' = "push" /\ UNCHANGED <<file, sent>> /\ rx # <<>>
        /\ m_state \in Image /\ m_state' \in {"BITSTREAM", "DONE"}
        /\ rx' = Pop(rx, Next1.len) /\ Next1.len <= Len(rx)
    BY <1>7 DEF ReadPacket, Parsing, Returns, Image, HasNext, Has, Starts
  <2>2. Next1.len \in 0 .. Len(rx)
    BY <1>sizes, <2>1, NextByte
  <2> QED
    BY <1>state, <2>1, <2>2, ParserStep DEF Header, Image
<1>8. CASE ReadType2
  <2>1. /\ pc = "process" /\ pc' = "push" /\ UNCHANGED <<file, sent>>
        /\ m_state \in Image /\ m_state' = "BIG_WRITE" /\ rx' = Pop(rx, 4) /\ Len(rx) >= 4
    BY <1>8 DEF ReadType2, Parsing, Returns, Image, HasNext, Has
  <2>2. 4 \in 0 .. Len(rx)
    BY <1>sizes, <2>1
  <2> QED
    BY <1>state, <2>1, <2>2, ParserStep DEF Header, Image
<1>9. CASE BadPacket
  <2>1. /\ pc = "process" /\ pc' = "push" /\ UNCHANGED <<file, sent>> /\ rx' = Pop(rx, 0)
        /\ m_state \in Image /\ m_state' = "FAILED" /\ 0 \in 0 .. Len(rx)
    BY <1>9, <1>sizes DEF BadPacket, Parsing, Returns, Image
  <2> QED
    BY <1>state, <2>1, ParserStep DEF Header, Image
<1>10. CASE BigWrite
  <2> DEFINE n == BigWords
  <2>1. /\ n \in Nat /\ 4 * n \in 0 .. Len(rx) /\ m_bigWordLen - n \in Nat
        /\ m_bigWordLen - n # 0 => Len(rx) - 4 * n < 4
    BY <1>sizes DEF BigWords, ArrivalInv, TypeInv, ControlInv
  <2>2. /\ rx' = Pop(rx, 4 * n) /\ UNCHANGED <<file, sent>> /\ pc = "process"
        /\ m_state' \in {"BITSTREAM", "BIG_WRITE", "FAILED"} /\ m_state \in Image
        /\ pc' \in {"push", "pushLast"} /\ (pc' = "pushLast" => m_bigWordLen - n # 0)
    BY <1>10 DEF BigWrite, Parsing, Returns, Image
  <2> HIDE DEF n
  <2>3. pc' = "pushLast" => Len(rx) - 4 * n < LongestWait
    BY <1>sizes, <2>1, <2>2
  <2> QED
    BY <1>state, <2>1, <2>2, <2>3, ParserStep DEF Header, Image
<1>11. CASE DiscardRest
  <2>1. /\ pc = "process" /\ pc' = "pushLast" /\ UNCHANGED <<m_state, wr, file, sent>>
        /\ rx' = <<>> /\ m_state \in {"DONE", "FAILED"}
    BY <1>11 DEF DiscardRest, Returns
  <2>2. /\ Len(rx) \in 0 .. Len(rx) /\ rx' = Pop(rx, Len(rx))
        /\ Len(rx) - Len(rx) < LongestWait
    BY <1>sizes, <2>1, SubSeqEmpty DEF Pop
  <2> QED
    BY <1>state, <2>1, <2>2, ParserStep DEF Header, Image
<1> QED
  BY <1>1, <1>2, <1>3, <1>4, <1>5, <1>6, <1>7, <1>8, <1>9, <1>10, <1>11 DEF Process

(* A write can only fail the update and leaves what arrived alone.         *)
LEMMA ArrivalPush ==
  ASSUME ArrivalInv, TypeInv', PushBlock \/ PushedAll \/ FlushRest
  PROVE  ArrivalInv'
<1>sizes. Len(rx) \in Nat /\ LongestWait \in Int /\ MaxChunk \in Nat
  BY Lengths, UpdateAssumption DEF ArrivalInv, LongestWait
<1>1. /\ UNCHANGED <<rx, file, sent>> /\ m_state' \in {m_state, "FAILED"}
      /\ m_state' = "FAILED" \/ m_state' = m_state
      /\ \/ pc' = pc
         \/ pc = "push" /\ pc' = "process"
         \/ pc \in {"pushLast", "pushFlush", "flush"} /\ pc' \in {"idle", "flush", "closed"}
      /\ wr' = wr \/ m_state' = m_state \/ wr' = Pop(wr, Len(wr)) \/ m_state' \notin Header
      /\ \E n \in {WriteBlock, Len(wr)} : wr' = wr \/ wr' = Pop(wr, n)
  BY DEF PushBlock, PushedAll, FlushRest, WriteVerified, Pushing, Header
<1>2. Consumed' = Consumed /\ OtherDevice' = OtherDevice
  BY <1>1 DEF Consumed, OtherDevice
<1>3. ArrivedInv'
  BY <1>sizes, <1>1, <1>2 DEF ArrivalInv, ArrivedInv, Run
<1>4. AtRecord => AtRecord'
  BY <1>1, <1>2 DEF AtRecord
<1>5. wr = <<>> => wr' = <<>>
  <2> SUFFICES ASSUME wr = <<>> PROVE wr' = <<>>
    OBVIOUS
  <2>1. Len(wr) = 0 /\ WriteBlock \in Nat \ {0}
    BY EmptySeq, UpdateAssumption
  <2>2. Pop(wr, WriteBlock) = <<>> /\ Pop(wr, Len(wr)) = <<>>
    BY <2>1, SubSeqEmpty DEF Pop
  <2> QED
    BY <1>1, <2>2
<1>6. HeaderInv'
  <2>1. CASE m_state \in Header
    BY <1>1, <1>2, <1>4, <1>5, <2>1
    DEF ArrivalInv, HeaderInv, TypeInv, LoadInv, Header, Image
  <2>2. CASE m_state \in Image
    BY <1>1, <1>2, <2>2 DEF ArrivalInv, HeaderInv, Header, Image
  <2>3. CASE m_state = "FAILED"
    BY <1>1, <1>2, <1>5, <2>3 DEF ArrivalInv, HeaderInv, Header, Image
  <2> QED
    BY <2>1, <2>2, <2>3 DEF ArrivalInv, TypeInv, ControlInv, States, Header, Image
<1> QED
  BY <1>3, <1>6 DEF ArrivalInv

(* What a call of OnRxData brings goes behind what there is: there is room. *)
LEMMA ArrivalRx ==
  ASSUME ArrivalInv, OnRxData, BuffersSuffice
  PROVE  Consumed' = Consumed /\ ArrivedInv'
<1>sizes. /\ Len(rx) \in Nat /\ LongestWait = BufSize - MaxChunk - WriteBlock + 2
          /\ 5 <= LongestWait /\ MaxChunk \in Nat \ {0} /\ WriteBlock \in 1 .. BufSize
          /\ BufSize \in Nat /\ sent \in Nat /\ Consumed \in Nat /\ Len(file) \in Nat
          /\ rx \in Seq(1 .. Len(file))
  BY Lengths, UpdateAssumption DEF ArrivalInv, LongestWait, BuffersSuffice, TypeInv, RxInv
<1>1. PICK n \in 1 .. MaxChunk :
        /\ sent + n <= Len(file) /\ sent' = sent + n
        /\ IF Len(rx) + n <= BufSize
              THEN rx' = rx \o [i \in 1 .. n |-> sent + i] /\ pc' = "process"
              ELSE UNCHANGED <<rx, pc>>
  BY DEF OnRxData
<1>2. UNCHANGED <<m_state, wr, file>> /\ pc = "idle"
  BY DEF OnRxData
<1>3. Len(rx) < LongestWait /\ Len(rx) + n <= BufSize
  BY <1>sizes, <1>2 DEF ArrivalInv, ArrivedInv
<1> DEFINE t == [i \in 1 .. n |-> sent + i]
<1>4. t \in Seq(1 .. Len(file)) /\ Len(t) = n /\ \A i \in 1 .. n : t[i] = sent + i
  <2>1. t \in [1 .. n -> 1 .. Len(file)]
    BY <1>sizes, <1>1
  <2>2. t \in Seq(1 .. Len(file))
    BY <1>sizes, <2>1, SeqDef
  <2> QED
    BY <1>sizes, <2>1, <2>2, LenProperties
<1>5. rx' = rx \o t /\ pc' = "process"
  BY <1>1, <1>3
<1> HIDE DEF t
<1>6. Len(rx') = Len(rx) + n
  <2>1. Len(rx') = Len(rx) + Len(t)
    BY <1>sizes, <1>4, <1>5, ConcatProperties
  <2> QED
    BY <1>4, <2>1
<1>7. Consumed' = Consumed
  BY <1>sizes, <1>1, <1>6 DEF Consumed
<1>8. \A i \in 1 .. Len(rx) : rx'[i] = rx[i]
  BY <1>sizes, <1>4, <1>5, Joined
<1>9. \A i \in 1 .. Len(t) : rx'[Len(rx) + i] = t[i]
  BY <1>sizes, <1>4, <1>5, Joined
<1>10. ASSUME NEW i \in 1 .. Len(rx') PROVE rx'[i] = Consumed + i
  <2>1. CASE i <= Len(rx)
    BY <1>sizes, <1>6, <1>8, <2>1 DEF ArrivalInv, ArrivedInv, Run
  <2>2. CASE i > Len(rx)
    <3>1. i - Len(rx) \in 1 .. Len(t) /\ i = Len(rx) + (i - Len(rx))
      BY <1>sizes, <1>4, <1>6, <2>2
    <3>2. rx'[i] = t[i - Len(rx)]
      BY <1>9, <3>1
    <3>3. rx'[i] = sent + (i - Len(rx))
      BY <1>4, <3>1, <3>2
    <3> QED
      BY <1>sizes, <1>6, <3>3 DEF Consumed
  <2> QED
    BY <1>sizes, <1>6, <2>1, <2>2
<1>11. Run(rx, Consumed)'
  BY <1>7, <1>10 DEF Run
<1>12. ArrivedInv'
  BY <1>sizes, <1>1, <1>3, <1>5, <1>6, <1>11 DEF ArrivedInv
<1> QED
  BY <1>7, <1>12

LEMMA ArrivalCall ==
  ASSUME ArrivalInv, TypeInv', OnDeviceOpened \/ OnRxData \/ OnDeviceClosed, BuffersSuffice
  PROVE  ArrivalInv'
<1>sizes. /\ Len(rx) \in Nat /\ LongestWait = BufSize - MaxChunk - WriteBlock + 2
          /\ 5 <= LongestWait /\ MaxChunk \in Nat \ {0} /\ WriteBlock \in 1 .. BufSize
          /\ BufSize \in Nat /\ sent \in Nat /\ Consumed \in Nat /\ Len(file) \in Nat
          /\ rx \in Seq(1 .. Len(file))
  BY Lengths, UpdateAssumption DEF ArrivalInv, LongestWait, BuffersSuffice, TypeInv, RxInv
<1>1. CASE OnDeviceOpened
  <2>1. /\ pc' = "idle" /\ rx' = <<>> /\ m_state' = "READ_BITHDR" /\ sent' = 0
        /\ file' \in Files /\ Len(<<>>) = 0
    BY <1>1, EmptySeq DEF OnDeviceOpened
  <2>2. file'[1].at = 1
    <3>1. PICK f \in Files : f = file'
      BY <2>1
    <3>2. f[1].at = 1
      BY UpdateAssumption DEF IsFile
    <3> QED
      BY <3>1, <3>2
  <2>3. Consumed' = 0
    <3>1. Len(rx') = 0 /\ sent' = 0
      BY <2>1
    <3> QED
      BY <3>1 DEF Consumed
  <2>4. AtRecord'
    BY <2>2, <2>3 DEF AtRecord
  <2>5. ArrivedInv'
    BY <1>sizes, <2>1 DEF ArrivedInv, Run
  <2>6. HeaderInv'
    BY <2>1, <2>4 DEF HeaderInv, Header, Image
  <2> QED
    BY <2>5, <2>6 DEF ArrivalInv
<1>2. CASE OnRxData
  <2>1. Consumed' = Consumed /\ ArrivedInv'
    BY <1>2, ArrivalRx
  <2>2. UNCHANGED <<m_state, wr, file>>
    BY <1>2 DEF OnRxData
  <2>3. HeaderInv'
    BY <2>1, <2>2 DEF ArrivalInv, HeaderInv, AtRecord, OtherDevice
  <2> QED
    BY <2>1, <2>3 DEF ArrivalInv
<1>3. CASE OnDeviceClosed
  <2>1. /\ pc = "idle" /\ pc' \in {"closed", "pushFlush"}
        /\ UNCHANGED <<m_state, rx, wr, file, sent>>
    BY <1>3 DEF OnDeviceClosed
  <2>2. Consumed' = Consumed
    BY <2>1 DEF Consumed
  <2> QED
    BY <2>1, <2>2 DEF ArrivalInv, ArrivedInv, Run, HeaderInv, AtRecord, OtherDevice
<1> QED
  BY <1>1, <1>2, <1>3

LEMMA ArrivalStep ==
  ASSUME ArrivalInv, BuffersSuffice, [Next]_vars
  PROVE  ArrivalInv'
<1>1. TypeInv'
  BY TypeStep DEF ArrivalInv
<1>2. CASE UNCHANGED vars
  <2>1. Consumed' = Consumed
    BY <1>2 DEF vars, Consumed
  <2> QED
    BY <1>1, <1>2, <2>1 DEF vars, ArrivalInv, ArrivedInv, Run, HeaderInv, AtRecord, OtherDevice
<1> QED
  BY <1>1, <1>2, ArrivalCall, ArrivalProcess, ArrivalPush DEF Next, Handler

LEMMA ArrivalInit ==
  ASSUME BuffersSuffice
  PROVE  Init => ArrivalInv
<1> SUFFICES ASSUME Init PROVE ArrivalInv
  OBVIOUS
<1>1. Len(<<>>) = 0 /\ LongestWait \in Int /\ 5 <= LongestWait
  BY EmptySeq, UpdateAssumption DEF LongestWait, BuffersSuffice
<1>2. file[1].at = 1
  BY UpdateAssumption DEF Init, IsFile
<1>3. Consumed = 0
  <2>1. Len(rx) = 0 /\ sent = 0
    BY <1>1 DEF Init
  <2> QED
    BY <2>1 DEF Consumed
<1>4. ArrivedInv
  BY <1>1 DEF Init, ArrivedInv, Run
<1>5. HeaderInv
  BY <1>2, <1>3 DEF Init, HeaderInv, Header, Image, AtRecord
<1> QED
  BY <1>4, <1>5, InitTypes DEF ArrivalInv

(* Nothing is lost between the calls of OnRxData and the parser.           *)
THEOREM ArrivalInvariance ==
  ASSUME BuffersSuffice
  PROVE  Spec => []ArrivalInv
<1>1. Init => ArrivalInv
  BY ArrivalInit
<1>2. ArrivalInv /\ [Next]_vars => ArrivalInv'
  BY ArrivalStep
<1> QED
  BY <1>1, <1>2, PTL DEF Spec

(* A file for another FPGA does not touch the flash: OtherDeviceHarmless.  *)
(* Only the erase and the writes do; the erase is behind all records, and  *)
(* the write buffer is empty until then.                                   *)
THEOREM OtherDeviceRefused ==
  ASSUME BuffersSuffice
  PROVE  Spec => OtherDeviceHarmless
<1>1. ASSUME ArrivalInv, ArrivalInv', [Next]_vars
      PROVE  OtherDevice /\ file' = file /\ pc # "closed" => flash' = flash
  <2> SUFFICES ASSUME OtherDevice, file' = file, pc # "closed" PROVE flash' = flash
    OBVIOUS
  <2>1. wr = <<>> /\ Len(wr) = 0 /\ m_state \notin Image /\ m_wptr \in Nat
    BY <1>1, EmptySeq
    DEF ArrivalInv, HeaderInv, TypeInv, LoadInv, ControlInv, States, Header, Image
  <2>2. WriteBlock \in Nat \ {0}
    BY UpdateAssumption
  <2>3. CASE ReadERecord
    <3>1. m_state' # "SYNC_WAIT" /\ m_state = "READ_BITHDR_RECORDS"
      BY <1>1, <2>3 DEF ReadERecord, Parsing, ArrivalInv, HeaderInv, OtherDevice, Image
    <3>2. Consumed + 1 \in 1 .. Len(file) /\ file[Consumed + 1].kind = "e"
      BY <1>1, <2>3, NextByte DEF ReadERecord, Starts
    <3>3. PICK j \in 1 .. Len(file) : file[j].kind = "otherDevice"
      BY DEF OtherDevice
    <3>4. Len(file) \in Nat /\ Consumed \in Nat /\ file \in Files
      BY <1>1, Lengths DEF ArrivalInv, TypeInv, FileInv
    <3>5. ~(j \in 1 .. Consumed) /\ j # Consumed + 1
      BY <1>1, <3>1, <3>2, <3>3 DEF ArrivalInv, HeaderInv, AtRecord, Header
    <3>6. Consumed + 1 < j
      BY <3>4, <3>5
    <3>7. \A k, l \in 1 .. Len(file) :
            file[k].kind = "e" /\ k < l => file[l].kind \notin HeaderKinds
      BY <3>4, UpdateAssumption DEF IsFile
    <3> QED
      BY <3>2, <3>3, <3>6, <3>7 DEF HeaderKinds
  <2>4. CASE PushBlock
    BY <2>1, <2>2, <2>4 DEF PushBlock, MorePushes
  <2>5. CASE FlushRest
    <3>1. \A a \in Addr : ~(a \in Target(0))
      BY <2>1 DEF Target
    <3>2. /\ flash \in [Addr -> -2 .. Len(file)]
          /\ \/ flash' = [a \in Addr |-> IF a \in Target(0) THEN wr[a - m_wptr + 1] ELSE flash[a]]
             \/ flash' = [a \in Addr |-> IF a \in Target(0) THEN Mixed ELSE flash[a]]
      BY <1>1, <2>1, <2>5 DEF FlushRest, WriteVerified, ArrivalInv, TypeInv, FlashInv
    <3> QED
      BY <3>1, <3>2
  <2> QED
    BY <1>1, <2>3, <2>4, <2>5
    DEF Next, Handler, Process, OnDeviceOpened, OnRxData, OnDeviceClosed, NeedMore, ReadMagic,
        ReadRecord, FindSync, NoSync, ReadPacket, ReadType2, BadPacket, BigWrite, DiscardRest,
        PushedAll, FlashLeft, vars
<1>2. ArrivalInv /\ ArrivalInv' /\ [Next]_vars
        => [(\E i \in 1 .. Len(file) : file[i].kind = "otherDevice") /\ file' = file /\ pc # "closed"
              => flash' = flash]_vars
  BY <1>1 DEF OtherDevice
<1> QED
  BY <1>2, ArrivalInvariance, PTL DEF Spec, OtherDeviceHarmless

-----------------------------------------------------------------------------
(* Part four: the image.                                                   *)

(* The end of the image is the last byte of the command that ends it.      *)
LEMMA EndOfImage ==
  ASSUME NEW f \in Files, NEW i \in 1 .. Len(f), f[i].kind = "desync", f[i].at = 1
  PROVE  i + f[i].len - 1 <= Len(f) /\ ImageEnd(f) = i + f[i].len - 1
<1>1. IsFile(f) /\ Len(f) \in Nat /\ f[i].len \in Nat \ {0}
  BY FileShape, UpdateAssumption
<1> DEFINE n == f[i].len
           k == i + n - 1
<1>2. k <= Len(f) /\ f[k] = [f[i] EXCEPT !.at = n]
  <2>1. \A j \in 1 .. f[i].len :
          i + j - 1 <= Len(f) /\ f[i + j - 1] = [f[i] EXCEPT !.at = j]
    BY <1>1 DEF IsFile
  <2> QED
    BY <1>1, <2>1
<1>3. f[i] \in [kind : Kinds, len : Nat \ {0}, at : Nat \ {0}, words : Nat]
  BY <1>1, ElementOfSeq DEF IsFile
<1>4. k \in 1 .. Len(f) /\ n \in Nat
  BY <1>1, <1>2
<1> HIDE DEF k
<1>5. f[k].kind = "desync" /\ f[k].at = n /\ f[k].len = n
  BY <1>2, <1>3
<1> DEFINE e == ImageEnd(f)
<1>6. e \in 1 .. Len(f) /\ f[e].kind = "desync" /\ f[e].at = f[e].len
  BY <1>4, <1>5 DEF ImageEnd
<1> HIDE DEF e
<1>7. \A j, l \in 1 .. Len(f) :
        f[j].kind = f[l].kind /\ f[j].kind \in {"e", "desync"} =>
          f[j].len = f[l].len /\ (j = l <=> f[j].at = f[l].at)
  BY <1>1 DEF IsFile
<1>8. e = k
  BY <1>4, <1>5, <1>6, <1>7
<1> QED
  BY <1>2, <1>8 DEF e, k

(* The last byte of the file that is in flash.                             *)
Written == Start + (m_wptr - ImageOffset)
(* The last byte that is on its way to flash.                              *)
Passed == IF m_state = "DONE" THEN ImageEnd(file) ELSE Consumed

(* The image in flash, the write buffer and the receive buffer follow on   *)
(* one another.                                                            *)
FlowInv ==
  /\ Written + Len(wr) = Passed /\ Passed <= Len(file)
  /\ Run(wr, Written)
  /\ \A a \in ImageOffset .. m_wptr - 1 : flash[a] = a - ImageOffset + Start + 1
(* No call ended inside the five bytes in front of the image.              *)
CutInv == sent > 0 /\ file[sent].kind = "e" => file[sent].at \notin {3, 4}
ImageInv ==
  /\ ArrivalInv /\ CutInv
  /\ m_state \in Image /\ pc # "closed" => FlowInv
  /\ DoneMeansFlashed

(* The write buffer has room for all there is.                             *)
LEMMA RoomToPush ==
  ASSUME ArrivalInv, BuffersSuffice, pc = "process", m_state # "FAILED", NEW n \in 0 .. Len(rx)
  PROVE  Len(wr) + n <= BufSize
<1>1. /\ Len(rx) \in Nat /\ Len(wr) \in Nat /\ LongestWait = BufSize - MaxChunk - WriteBlock + 2
      /\ MaxChunk \in Nat /\ WriteBlock \in Nat /\ BufSize \in Nat
  BY Lengths, UpdateAssumption DEF ArrivalInv, LongestWait
<1>2. Len(rx) < LongestWait + MaxChunk /\ Len(wr) < WriteBlock
  BY DEF ArrivalInv, ArrivedInv, TypeInv, WrInv
<1> QED
  BY <1>1, <1>2

(* The parser passes on the first n bytes.                                 *)
LEMMA FlowMoves ==
  ASSUME ImageInv, m_state \in {"SYNC_WAIT", "BITSTREAM", "BIG_WRITE"}, pc = "process",
         NEW n \in 0 .. Len(rx), rx' = Pop(rx, n), wr' = wr \o SubSeq(rx, 1, n),
         UNCHANGED <<m_wptr, file, sent, flash>>,
         m_state' = "DONE" => Consumed + n = ImageEnd(file)
  PROVE  FlowInv'
<1>1. /\ rx \in Seq(1 .. Len(file)) /\ wr \in Seq(1 .. Len(file)) /\ Len(rx) \in Nat
      /\ Len(wr) \in Nat /\ Consumed \in Nat /\ sent \in Nat /\ sent <= Len(file)
      /\ Len(file) \in Nat /\ Start \in Nat /\ m_wptr \in Nat /\ ImageOffset \in Nat
  BY Lengths
  DEF ImageInv, ArrivalInv, TypeInv, RxInv, WrInv, LoadInv, LoadedFromImage, Image
<1>2. FlowInv /\ Passed = Consumed /\ Run(rx, Consumed) /\ Written \in Int
  BY <1>1 DEF ImageInv, ArrivalInv, ArrivedInv, Image, Passed, Written
<1> DEFINE w == wr \o SubSeq(rx, 1, n)
<1>3. Len(w) = Len(wr) + n /\ Run(w, Written)
  <2>1. Run(wr, Written) /\ Run(rx, Written + Len(wr))
    BY <1>2 DEF FlowInv
  <2> QED
    BY <1>1, <1>2, <2>1, RunMoves
<1>4. wr' = w
  OBVIOUS
<1> HIDE DEF w
<1>5. Consumed' = Consumed + n
  BY ArrivedTail DEF ImageInv
<1>6. Start' = Start /\ Written' = Written /\ Passed' = Consumed + n
  BY <1>5 DEF Start, ImageStart, Written, Passed, ImageEnd
<1>7. Consumed + n <= Len(file)
  BY <1>1 DEF Consumed
<1>8. Run(wr, Written)'
  BY <1>3, <1>4, <1>6 DEF Run
<1>9. Written' + Len(wr') = Passed'
  <2>1. Len(wr') = Len(wr) + n
    BY <1>3, <1>4
  <2>2. Written + Len(wr) = Consumed
    BY <1>2 DEF FlowInv
  <2>3. Len(wr) \in Nat /\ n \in Nat /\ Written \in Int /\ Consumed \in Nat
    BY <1>1, <1>2
  <2> QED
    BY <1>6, <2>1, <2>2, <2>3
<1> QED
  BY <1>2, <1>6, <1>7, <1>8, <1>9 DEF FlowInv

(* A verified write carries n bytes on to the flash.                       *)
LEMMA FlowWrites ==
  ASSUME ImageInv, ImageFits, m_state \in Image, pc # "closed",
         NEW n \in 0 .. Len(wr), WriteVerified(n), m_state' # "FAILED"
  PROVE  /\ m_state' = m_state /\ wr' = Pop(wr, n)
         /\ \A a \in ImageOffset .. m_wptr + n - 1 : flash'[a] = a - ImageOffset + Start + 1
<1>1. /\ wr \in Seq(1 .. Len(file)) /\ Len(wr) \in Nat /\ Len(file) \in Nat
      /\ Start \in Nat /\ m_wptr \in Nat /\ ImageOffset \in Nat /\ m_wptr >= ImageOffset
      /\ ImageSize \in Nat /\ file \in Files
  BY Lengths
  DEF ImageInv, ArrivalInv, TypeInv, WrInv, LoadInv, LoadedFromImage, FileInv
<1>2. FlowInv
  BY DEF ImageInv
<1>3. /\ m_state' = m_state /\ wr' = Pop(wr, n)
      /\ flash' = [a \in Addr |-> IF a \in Target(n) THEN wr[a - m_wptr + 1] ELSE flash[a]]
  BY DEF WriteVerified
<1>4. Len(file) - (Start - 5) <= ImageSize
  BY <1>1 DEF ImageFits, Start
<1>5. Written + Len(wr) <= Len(file) /\ Written = Start + (m_wptr - ImageOffset)
  BY <1>2 DEF FlowInv, Written
<1>6. ASSUME NEW a \in ImageOffset .. m_wptr + n - 1
      PROVE  flash'[a] = a - ImageOffset + Start + 1
  <2>1. a \in Addr
    BY <1>1, <1>4, <1>5 DEF Addr
  <2>2. CASE a < m_wptr
    <3>1. a \notin Target(n) /\ a \in ImageOffset .. m_wptr - 1
      BY <1>1, <2>2 DEF Target
    <3> QED
      BY <1>2, <1>3, <2>1, <3>1 DEF FlowInv
  <2>3. CASE a >= m_wptr
    <3>1. a \in Target(n) /\ a - m_wptr + 1 \in 1 .. Len(wr)
      BY <1>1, <2>3 DEF Target
    <3>2. flash'[a] = wr[a - m_wptr + 1]
      BY <1>3, <2>1, <3>1
    <3>3. wr[a - m_wptr + 1] = Written + (a - m_wptr + 1)
      BY <1>2, <3>1 DEF FlowInv, Run
    <3> QED
      BY <1>1, <1>5, <3>2, <3>3
  <2> QED
    BY <1>1, <2>2, <2>3
<1> QED
  BY <1>3, <1>6

(* The flow is kept by a parser step that leaves the image.                *)
LEMMA FlowEnds ==
  ASSUME m_state' \notin Image
  PROVE  (m_state \in Image /\ pc # "closed" => FlowInv)'
BY DEF Image

(* Enough of the 'e' record was in the buffer, so that what is consumed is *)
(* now what is in front of the image.                                      *)
LEMMA ImageStarts ==
  ASSUME ImageInv, ReadERecord, m_state' \in Image
  PROVE  FlowInv' /\ Consumed' = Start
<1>1. /\ rx \in Seq(1 .. Len(file)) /\ Len(rx) \in Nat /\ Consumed \in Nat /\ sent \in Nat
      /\ sent <= Len(file) /\ Len(file) \in Nat /\ ImageOffset \in Nat /\ file \in Files
  BY Lengths DEF ImageInv, ArrivalInv, TypeInv, RxInv, FileInv
<1>2. /\ rx # <<>> /\ Next1.kind = "e" /\ Next1.at = 1 /\ Len(rx) >= 3
      /\ UNCHANGED <<file, sent, wr, m_wptr>> /\ m_state \in Header
      /\ m_state' = "SYNC_WAIT"
  BY DEF ReadERecord, Parsing, HasNext, Has, Starts, EraseFlashPartition, Header, Image
<1>3. m_wptr = ImageOffset /\ wr = <<>> /\ Len(wr) = 0
  BY <1>2, EmptySeq DEF ImageInv, ArrivalInv, TypeInv, LoadInv
<1> DEFINE i == Consumed + 1
<1>4. i \in 1 .. Len(file) /\ file[i].kind = "e" /\ file[i].at = 1
  BY <1>2, NextByte DEF ImageInv
<1> HIDE DEF i
<1>5. i + 4 <= Len(file) /\ Start = i + 4
  BY <1>1, <1>4, StartOfImage DEF Start
<1>6. Len(rx) >= 5
  <2> SUFFICES ASSUME Len(rx) < 5 PROVE FALSE
    BY <1>1
  <2> DEFINE k == Len(rx)
  <2>0. k \in Nat /\ k >= 3 /\ k < 5
    BY <1>1, <1>2
  <2> HIDE DEF k
  <2>1. k \in {3, 4}
    BY <2>0
  <2>2. sent = i + k - 1 /\ sent > 0
    BY <1>1, <1>2 DEF i, k, Consumed
  <2>3. IsFile(file) /\ file[i].len = 5
    BY <1>1, <1>4, UpdateAssumption DEF IsFile
  <2>4. file[i + k - 1] = [file[i] EXCEPT !.at = k]
    <3>1. \A j \in 1 .. file[i].len : file[i + j - 1] = [file[i] EXCEPT !.at = j]
      BY <1>4, <2>3 DEF IsFile
    <3> QED
      BY <2>1, <2>3, <3>1
  <2>5. file[i] \in [kind : Kinds, len : Nat \ {0}, at : Nat \ {0}, words : Nat]
    BY <1>1, <1>4, <2>3, ElementOfSeq DEF IsFile
  <2>6. file[sent].kind = "e" /\ file[sent].at = k
    BY <1>4, <2>2, <2>4, <2>5
  <2> QED
    BY <2>1, <2>2, <2>6 DEF ImageInv, CutInv
<1>7. rx' = Pop(rx, 5) /\ 5 \in 0 .. Len(rx)
  BY <1>1, <1>6 DEF ReadERecord
<1>8. Consumed' = Consumed + 5
  BY <1>2, <1>7, ArrivedTail DEF ImageInv
<1>9. Start' = Start
  BY <1>2 DEF Start, ImageStart
<1>10. Written' = Start /\ Passed' = Start /\ Start <= Len(file) /\ Len(wr') = 0
  BY <1>1, <1>2, <1>3, <1>5, <1>8, <1>9 DEF Written, Passed, i
<1>11. Consumed' = Start
  BY <1>1, <1>5, <1>8 DEF i
<1>12. Start \in Int
  BY <1>1, <1>5 DEF i
<1>13. Run(wr, Written)'
  BY <1>10 DEF Run
<1>14. \A a \in ImageOffset .. m_wptr' - 1 : FALSE
  BY <1>1, <1>2, <1>3
<1> QED
  BY <1>2, <1>10, <1>11, <1>12, <1>13, <1>14 DEF FlowInv

(* What the parser does with the image, step by step.                      *)
LEMMA FlowProcess ==
  ASSUME ImageInv, ArrivalInv', BuffersSuffice, Process, m_state' \in Image
  PROVE  FlowInv'
<1>1. /\ rx \in Seq(1 .. Len(file)) /\ wr \in Seq(1 .. Len(file)) /\ Len(rx) \in Nat
      /\ Len(wr) \in Nat /\ Consumed \in Nat /\ Len(file) \in Nat /\ file \in Files
      /\ Pop(rx, 0) = rx /\ TypeInv /\ ArrivalInv /\ sent \in Nat
      /\ m_bigWordLen \in Nat
  BY Lengths, SubSeqFull
  DEF ImageInv, ArrivalInv, TypeInv, RxInv, WrInv, FileInv, ControlInv, Pop
<1>2. pc = "process" /\ UNCHANGED <<file, sent, m_wptr>>
  BY DEF Process, NeedMore, ReadMagic, ReadRecord, ReadERecord, FindSync, NoSync, ReadPacket,
         ReadType2, BadPacket, BigWrite, DiscardRest, Parsing
<1>3. CASE NeedMore \/ DiscardRest
  <2>1. UNCHANGED <<m_state, m_wptr, wr, flash, file>> /\ m_state \in Image
    BY <1>3 DEF NeedMore, DiscardRest
  <2>2. FlowInv
    BY <1>2, <2>1 DEF ImageInv
  <2>3. Start' = Start /\ Written' = Written
    BY <2>1 DEF Start, ImageStart, Written
  <2>4. Passed' = Passed
    <3>1. CASE NeedMore
      BY <2>1, <3>1 DEF NeedMore, Passed, Consumed, ImageEnd
    <3>2. CASE DiscardRest
      BY <2>1, <3>2 DEF DiscardRest, Passed, ImageEnd, Image
    <3> QED
      BY <1>3, <3>1, <3>2
  <2> QED
    BY <2>1, <2>2, <2>3, <2>4 DEF FlowInv, Run
<1>4. CASE ReadMagic \/ ReadRecord \/ BadPacket
  BY <1>4 DEF ReadMagic, ReadRecord, BadPacket, Parsing, Image
<1>5. CASE ReadERecord
  BY <1>5, ImageStarts
<1>6. CASE FindSync
  <2>1. PICK i \in 1 .. Len(rx) - 4 :
          /\ wr' = IF Len(Padded(i - 1)) + 4 <= BufSize
                     THEN Padded(i - 1) \o SubSeq(rx, i, i + 3) ELSE Padded(i - 1)
          /\ rx' = Pop(rx, i + 3)
    BY <1>6 DEF FindSync
  <2>2. m_state = "SYNC_WAIT" /\ m_state' = "BITSTREAM" /\ flash' = flash
    BY <1>6 DEF FindSync, Parsing, FlashLeft
  <2>3. i - 1 \in 0 .. Len(rx) /\ i + 3 \in 0 .. Len(rx)
    BY <1>1
  <2>4. Len(wr) + (i - 1) <= BufSize /\ Len(wr) + (i + 3) <= BufSize
    BY <1>1, <1>2, <2>2, <2>3, RoomToPush
  <2>5. Padded(i - 1) = wr \o SubSeq(rx, 1, i - 1)
    BY <1>1, <2>3, <2>4, PaddedBytes
  <2>6. /\ SubSeq(rx, 1, i - 1) \in Seq(1 .. Len(file)) /\ Len(SubSeq(rx, 1, i - 1)) = i - 1
        /\ SubSeq(rx, i, i + 3) \in Seq(1 .. Len(file))
    <3>1. /\ SubSeq(rx, 1, i - 1) \in Seq(1 .. Len(file))
          /\ Len(SubSeq(rx, 1, i - 1)) = i - 1
      BY <1>1, <2>3, FrontOfBuffer
    <3>2. i \in 1 .. Len(rx) + 1 /\ i + 3 \in i - 1 .. Len(rx)
      BY <1>1
    <3>3. SubSeq(rx, i, i + 3) \in Seq(1 .. Len(file))
      BY <1>1, <3>2, Part
    <3> QED
      BY <3>1, <3>3
  <2>7. Len(Padded(i - 1)) + 4 <= BufSize
    <3>1. Len(Padded(i - 1)) = Len(wr) + Len(SubSeq(rx, 1, i - 1))
      BY <1>1, <2>5, <2>6, ConcatProperties
    <3>2. Len(SubSeq(rx, 1, i - 1)) = i - 1 /\ Len(wr) \in Nat /\ BufSize \in Nat
      BY <1>1, <2>6, UpdateAssumption
    <3> QED
      BY <2>4, <3>1, <3>2
  <2>8. SubSeq(rx, 1, i - 1) \o SubSeq(rx, i, i + 3) = SubSeq(rx, 1, i + 3)
    BY <1>1, <2>3, ConcatAdjacentSubSeq
  <2>9. wr' = wr \o SubSeq(rx, 1, i + 3)
    <3>1. wr' = (wr \o SubSeq(rx, 1, i - 1)) \o SubSeq(rx, i, i + 3)
      BY <2>1, <2>5, <2>7
    <3> DEFINE t == SubSeq(rx, 1, i - 1)
               u == SubSeq(rx, i, i + 3)
               Bytes == 1 .. Len(file)
    <3>2. (wr \o t) \o u = wr \o (t \o u)
      <4>1. wr \in Seq(Bytes) /\ t \in Seq(Bytes) /\ u \in Seq(Bytes)
        BY <1>1, <2>6
      <4> HIDE DEF t, u, Bytes
      <4> QED
        BY <4>1, ConcatAssociative
    <3> QED
      BY <2>8, <3>1, <3>2
  <2> QED
    BY <1>2, <2>1, <2>2, <2>3, <2>9, FlowMoves
<1>7. CASE NoSync
  <2> DEFINE n == IF Len(rx) > 4 THEN Len(rx) - 4 ELSE 0
  <2>1. /\ wr' = Padded(n) /\ rx' = Pop(rx, n) /\ flash' = flash
        /\ m_state = "SYNC_WAIT" /\ m_state' = "SYNC_WAIT"
    BY <1>7 DEF NoSync, Parsing, FlashLeft
  <2>2. n \in 0 .. Len(rx)
    BY <1>1
  <2> HIDE DEF n
  <2>3. Len(wr) + n <= BufSize
    BY <1>1, <1>2, <2>1, <2>2, RoomToPush
  <2>4. wr' = wr \o SubSeq(rx, 1, n)
    BY <1>1, <2>1, <2>2, <2>3, PaddedBytes
  <2> QED
    BY <1>2, <2>1, <2>2, <2>4, FlowMoves
<1>8. CASE ReadPacket
  <2> DEFINE n == Next1.len
  <2>1. /\ PushWr(First(n)) /\ rx' = Pop(rx, n) /\ flash' = flash /\ m_state = "BITSTREAM"
        /\ m_state' = IF Next1.kind = "desync" THEN "DONE" ELSE m_state
        /\ rx # <<>> /\ Next1.at = 1 /\ n <= Len(rx)
    BY <1>8 DEF ReadPacket, Parsing, FlashLeft, HasNext, Has, Starts
  <2>2. /\ Consumed + 1 \in 1 .. Len(file) /\ Next1 = file[Consumed + 1]
        /\ n \in 0 .. Len(rx)
    BY <1>1, <2>1, NextByte
  <2>3. m_state' = "DONE" => Consumed + n = ImageEnd(file)
    <3> SUFFICES ASSUME m_state' = "DONE" PROVE Consumed + n = ImageEnd(file)
      OBVIOUS
    <3>1. file[Consumed + 1].kind = "desync" /\ file[Consumed + 1].at = 1
      BY <2>1, <2>2
    <3>2. ImageEnd(file) = (Consumed + 1) + file[Consumed + 1].len - 1
      BY <1>1, <2>2, <3>1, EndOfImage
    <3>3. Consumed \in Nat /\ n \in Nat /\ n = file[Consumed + 1].len
      BY <1>1, <2>2
    <3> QED
      BY <3>2, <3>3
  <2> HIDE DEF n
  <2>4. Len(wr) + n <= BufSize
    BY <1>1, <1>2, <2>1, <2>2, RoomToPush
  <2>5. wr' = wr \o SubSeq(rx, 1, n)
    BY <1>1, <2>1, <2>2, <2>4, PushedBytes
  <2> QED
    BY <1>2, <2>1, <2>2, <2>3, <2>5, FlowMoves
<1>9. CASE ReadType2
  <2>1. /\ PushWr(First(4)) /\ rx' = Pop(rx, 4) /\ flash' = flash /\ m_state = "BITSTREAM"
        /\ m_state' = "BIG_WRITE" /\ Len(rx) >= 4
    BY <1>9 DEF ReadType2, Parsing, FlashLeft, HasNext, Has
  <2>2. 4 \in 0 .. Len(rx)
    BY <1>1, <2>1
  <2>3. Len(wr) + 4 <= BufSize
    BY <1>1, <1>2, <2>1, <2>2, RoomToPush
  <2>4. wr' = wr \o SubSeq(rx, 1, 4)
    BY <1>1, <2>1, <2>2, <2>3, PushedBytes
  <2> QED
    BY <1>2, <2>1, <2>2, <2>4, FlowMoves
<1>10. CASE BigWrite
  <2> DEFINE n == 4 * BigWords
  <2>1. n \in 0 .. Len(rx)
    BY <1>1 DEF BigWords
  <2>2. /\ PushWr(First(n)) /\ rx' = Pop(rx, n) /\ flash' = flash /\ m_state = "BIG_WRITE"
        /\ m_state' \in {"BITSTREAM", "BIG_WRITE", "FAILED"}
    BY <1>10 DEF BigWrite, Parsing, FlashLeft
  <2> HIDE DEF n
  <2>3. Len(wr) + n <= BufSize
    BY <1>1, <1>2, <2>1, <2>2, RoomToPush
  <2>4. wr' = wr \o SubSeq(rx, 1, n)
    BY <1>1, <2>1, <2>2, <2>3, PushedBytes
  <2> QED
    BY <1>2, <2>1, <2>2, <2>4, FlowMoves
<1> QED
  BY <1>3, <1>4, <1>5, <1>6, <1>7, <1>8, <1>9, <1>10 DEF Process

(* Writing to flash keeps the flow, and the last write completes it.       *)
LEMMA FlowPush ==
  ASSUME ImageInv, ArrivalInv', ImageFits, PushBlock \/ PushedAll \/ FlushRest
  PROVE  /\ (m_state \in Image /\ pc # "closed" => FlowInv)'
         /\ DoneMeansFlashed'
<1>1. /\ wr \in Seq(1 .. Len(file)) /\ Len(wr) \in Nat /\ Len(file) \in Nat
      /\ m_wptr \in Nat /\ ImageOffset \in Nat /\ m_wptr >= ImageOffset
      /\ WriteBlock \in Nat \ {0}
  BY Lengths, UpdateAssumption DEF ImageInv, ArrivalInv, TypeInv, WrInv, LoadInv
<1>2. /\ UNCHANGED <<rx, file, sent>> /\ m_state' \in {m_state, "FAILED"}
      /\ pc # "closed"
  BY DEF PushBlock, PushedAll, FlushRest, WriteVerified, Pushing
<1>3. Start' = Start /\ ImageEnd(file)' = ImageEnd(file) /\ Consumed' = Consumed
  BY <1>2 DEF Start, ImageStart, ImageEnd, Consumed
<1>4. CASE m_state' = "FAILED"
  BY <1>4 DEF Image, DoneMeansFlashed
<1>5. CASE m_state' # "FAILED" /\ PushBlock
  <2>1. /\ WriteVerified(WriteBlock) /\ m_wptr' = m_wptr + WriteBlock /\ pc' = pc
        /\ Len(wr) >= WriteBlock
    BY <1>5 DEF PushBlock, MorePushes, NextWptr
  <2>2. WriteBlock \in 0 .. Len(wr)
    BY <1>1, <2>1
  <2>3. CASE m_state \notin Image
    BY <1>2, <1>5, <2>1, <2>3 DEF DoneMeansFlashed
  <2>4. CASE m_state \in Image
    <3>1. /\ m_state' = m_state /\ wr' = Pop(wr, WriteBlock)
          /\ \A a \in ImageOffset .. m_wptr + WriteBlock - 1 :
               flash'[a] = a - ImageOffset + Start + 1
      BY <1>2, <1>5, <2>1, <2>2, <2>4, FlowWrites
    <3>2. FlowInv /\ Start \in Nat
      BY <1>1, <1>2, <2>4 DEF ImageInv, ArrivalInv, TypeInv, LoadInv, LoadedFromImage
    <3>3. Written' = Written + WriteBlock /\ Passed' = Passed /\ Written \in Int
      BY <1>1, <1>2, <1>3, <2>1, <3>1, <3>2 DEF Written, Passed
    <3>4. Len(wr') = Len(wr) - WriteBlock
      BY <1>1, <2>2, <3>1, Popped
    <3>5. Run(wr, Written)'
      <4>1. \A k \in 1 .. Len(wr) - WriteBlock : wr'[k] = wr[WriteBlock + k]
        BY <1>1, <2>2, <3>1, Popped
      <4>2. ASSUME NEW k \in 1 .. Len(wr') PROVE wr'[k] = Written' + k
        <5>1. WriteBlock + k \in 1 .. Len(wr) /\ k \in 1 .. Len(wr) - WriteBlock
          BY <1>1, <3>4
        <5>2. wr'[k] = Written + (WriteBlock + k)
          BY <3>2, <4>1, <5>1 DEF FlowInv, Run
        <5> QED
          BY <1>1, <3>3, <5>2
      <4> QED
        BY <4>2 DEF Run
    <3>6. Written' + Len(wr') = Passed'
      <4>1. Written + Len(wr) = Passed
        BY <3>2 DEF FlowInv
      <4>2. Written \in Int /\ Len(wr) \in Nat /\ WriteBlock \in Nat
        BY <1>1, <3>3
      <4> QED
        BY <3>3, <3>4, <4>1, <4>2
    <3>7. Passed' <= Len(file')
      BY <1>2, <3>2, <3>3 DEF FlowInv
    <3>8. \A a \in ImageOffset .. m_wptr' - 1 : flash'[a] = a - ImageOffset + Start' + 1
      <4>1. m_wptr' = m_wptr + WriteBlock /\ m_wptr \in Nat /\ WriteBlock \in Nat
        BY <1>1, <2>1
      <4>2. m_wptr' - 1 = m_wptr + WriteBlock - 1
        BY <4>1
      <4> QED
        BY <1>3, <3>1, <4>2
    <3>9. FlowInv'
      BY <3>5, <3>6, <3>7, <3>8 DEF FlowInv
    <3> QED
      BY <1>2, <2>1, <3>9 DEF DoneMeansFlashed
  <2> QED
    BY <2>3, <2>4
<1>6. CASE PushedAll
  <2>1. UNCHANGED <<m_state, m_wptr, wr, flash>> /\ pc' # "closed"
    BY <1>6 DEF PushedAll, Pushing
  <2>2. Written' = Written /\ Passed' = Passed
    BY <1>3, <2>1 DEF Written, Passed
  <2>3. FlowInv => FlowInv'
    BY <1>2, <1>3, <2>1, <2>2 DEF FlowInv, Run
  <2> QED
    BY <1>2, <2>1, <2>3 DEF ImageInv, DoneMeansFlashed
<1>7. CASE m_state' # "FAILED" /\ FlushRest
  <2>1. WriteVerified(Len(wr)) /\ pc' = "closed" /\ Len(wr) \in 0 .. Len(wr)
    BY <1>1, <1>7 DEF FlushRest
  <2>2. ASSUME m_state' = "DONE" PROVE InFlash'
    <3>1. m_state = "DONE"
      BY <1>2, <2>2
    <3>2. \A a \in ImageOffset .. m_wptr + Len(wr) - 1 :
            flash'[a] = a - ImageOffset + Start + 1
      BY <1>2, <1>7, <2>1, <3>1, FlowWrites DEF Image
    <3>3. FlowInv /\ Start \in Nat
      BY <1>1, <1>2, <3>1 DEF ImageInv, ArrivalInv, TypeInv, LoadInv, LoadedFromImage, Image
    <3>4. Start + (m_wptr - ImageOffset) + Len(wr) = ImageEnd(file)
      BY <3>1, <3>3 DEF FlowInv, Written, Passed
    <3>5. ASSUME NEW i \in Start + 1 .. ImageEnd(file)
          PROVE  flash'[ImageOffset + i - Start - 1] = i
      <4> DEFINE a == ImageOffset + i - Start - 1
      <4>1. a \in ImageOffset .. m_wptr + Len(wr) - 1 /\ a - ImageOffset + Start + 1 = i
        BY <1>1, <3>3, <3>4
      <4> HIDE DEF a
      <4>2. flash'[a] = i
        BY <3>2, <4>1
      <4> QED
        BY <4>2 DEF a
    <3> QED
      BY <1>3, <3>5 DEF InFlash, Start
  <2> QED
    BY <2>1, <2>2 DEF DoneMeansFlashed
<1> QED
  BY <1>4, <1>5, <1>6, <1>7

(* Calls from outside leave the flow alone or begin anew.                  *)
LEMMA FlowCall ==
  ASSUME ImageInv, ArrivalInv', OnDeviceOpened \/ OnRxData \/ OnDeviceClosed,
         BuffersSuffice, ~CutsE
  PROVE  ImageInv'
<1>1. CASE OnDeviceOpened
  <2>1. m_state' = "READ_BITHDR" /\ sent' = 0
    BY <1>1 DEF OnDeviceOpened
  <2> QED
    BY <2>1 DEF ImageInv, CutInv, Image, DoneMeansFlashed
<1>2. CASE OnRxData
  <2>1. PICK n \in 1 .. MaxChunk :
          /\ sent + n <= Len(file)
          /\ CutsE \/ file[sent + n].kind # "e" \/ file[sent + n].at \notin {3, 4}
          /\ sent' = sent + n
          /\ IF Len(rx) + n <= BufSize
               THEN rx' = rx \o [i \in 1 .. n |-> sent + i] /\ pc' = "process"
               ELSE UNCHANGED <<rx, pc>>
    BY <1>2 DEF OnRxData
  <2>2. UNCHANGED <<m_state, m_wptr, wr, flash, file>> /\ pc = "idle"
    BY <1>2 DEF OnRxData
  <2>3. CutInv'
    BY <2>1, <2>2 DEF CutInv
  <2>4. pc' # "closed"
    BY <2>1, <2>2
  <2>5. Consumed' = Consumed
    BY <1>2, ArrivalRx DEF ImageInv
  <2>6. Start' = Start /\ Written' = Written /\ Passed' = Passed
    BY <2>2, <2>5 DEF Start, ImageStart, Written, Passed, ImageEnd
  <2>7. FlowInv => FlowInv'
    BY <2>2, <2>6 DEF FlowInv, Run
  <2> QED
    BY <2>2, <2>3, <2>4, <2>7 DEF ImageInv, DoneMeansFlashed
<1>3. CASE OnDeviceClosed
  <2>1. /\ UNCHANGED <<m_state, m_wptr, rx, wr, flash, file, sent>> /\ pc = "idle"
        /\ pc' = "closed" => m_state = "FAILED"
    BY <1>3 DEF OnDeviceClosed
  <2>2. Start' = Start /\ Written' = Written /\ Passed' = Passed
    BY <2>1 DEF Start, ImageStart, Written, Passed, ImageEnd, Consumed
  <2>3. FlowInv => FlowInv'
    BY <2>1, <2>2 DEF FlowInv, Run
  <2>4. CutInv'
    BY <2>1 DEF ImageInv, CutInv
  <2> QED
    BY <2>1, <2>3, <2>4 DEF ImageInv, DoneMeansFlashed
<1> QED
  BY <1>1, <1>2, <1>3

LEMMA ImageStep ==
  ASSUME ImageInv, BuffersSuffice, ImageFits, ~CutsE, [Next]_vars
  PROVE  ImageInv'
<1>1. ArrivalInv'
  BY ArrivalStep DEF ImageInv
<1>2. CASE UNCHANGED vars
  <2>1. Start' = Start /\ Written' = Written /\ Passed' = Passed
    BY <1>2 DEF vars, Start, ImageStart, Written, Passed, ImageEnd, Consumed
  <2>2. FlowInv => FlowInv'
    BY <1>2, <2>1 DEF vars, FlowInv, Run
  <2>3. CutInv' /\ DoneMeansFlashed'
    BY <1>2 DEF vars, ImageInv, CutInv, DoneMeansFlashed, InFlash, ImageStart, ImageEnd
  <2> QED
    BY <1>1, <1>2, <2>2, <2>3 DEF vars, ImageInv
<1>3. CASE Process
  <2>1. UNCHANGED <<file, sent>> /\ pc' # "closed"
    BY <1>3 DEF Process, NeedMore, ReadMagic, ReadRecord, ReadERecord, FindSync, NoSync,
                ReadPacket, ReadType2, BadPacket, BigWrite, DiscardRest, Parsing, Returns
  <2>2. CutInv' /\ DoneMeansFlashed'
    BY <2>1 DEF ImageInv, CutInv, DoneMeansFlashed
  <2>3. m_state' \in Image => FlowInv'
    BY <1>1, <1>3, FlowProcess
  <2> QED
    BY <1>1, <2>2, <2>3 DEF ImageInv
<1>4. CASE PushBlock \/ PushedAll \/ FlushRest
  <2>1. CutInv'
    BY <1>4 DEF ImageInv, CutInv, PushBlock, PushedAll, FlushRest
  <2> QED
    BY <1>1, <1>4, <2>1, FlowPush DEF ImageInv
<1>5. CASE OnDeviceOpened \/ OnRxData \/ OnDeviceClosed
  BY <1>1, <1>5, FlowCall
<1> QED
  BY <1>2, <1>3, <1>4, <1>5 DEF Next, Handler

(* An update that ended in DONE has every byte of the image in its place:  *)
(* DoneMeansFlashed, if no call of OnRxData ends between the bytes that    *)
(* show the 'e' record and the end of it.  Image, write buffer and receive *)
(* buffer never lose touch, and DONE is at the image's last byte.          *)
THEOREM DoneIsFlashed ==
  ASSUME BuffersSuffice, ImageFits, ~CutsE
  PROVE  Spec => []DoneMeansFlashed
<1>1. Init => ImageInv
  <2>1. Init => ArrivalInv
    BY ArrivalInit
  <2> QED
    BY <2>1 DEF Init, ImageInv, CutInv, Image, DoneMeansFlashed
<1>2. ImageInv /\ [Next]_vars => ImageInv'
  BY ImageStep
<1>3. ImageInv => DoneMeansFlashed
  BY DEF ImageInv
<1> QED
  BY <1>1, <1>2, <1>3, PTL DEF Spec

-----------------------------------------------------------------------------
(* Part five: a sound file is not refused.                                 *)

(* The parser can do no more with what is there.                           *)
Stuck ==
  \/ m_state = "DONE" \/ ~HasNext
  \/ m_state = "SYNC_WAIT" /\ Len(rx) <= 4

(* Where the parser is in a file, whose parts are at e, s and d.           *)
PacketIn(s, d, i) == i \in s + 4 .. d /\ Packet(file, i)
Progress(e, s, d) ==
  /\ Bitstream(file, e, s, d)
  /\ m_state = "SYNC_WAIT" => Consumed < s
  /\ m_state = "BITSTREAM" => PacketIn(s, d, Consumed + 1)
  /\ m_state = "BIG_WRITE" => PacketIn(s, d, Consumed + 4 * m_bigWordLen + 1)
Placed == \E e, s, d \in 1 .. Len(file) : Progress(e, s, d)

(* Flash that is still to be written is blank, and so is what the blank    *)
(* check sees in front of the partition.                                   *)
BlankBehind == \A a \in Addr : a >= m_wptr => flash[a] = Blank
BlankInFront == \A a \in 0 .. ImageOffset - 1 : a \notin Golden => flash[a] = Blank

Good == Sound(file) /\ ~faulty
GoodInv ==
  /\ m_state # "FAILED"
  /\ m_state = "READ_BITHDR" => Consumed = 0
  /\ m_state \in Image /\ pc # "closed" => BlankBehind
  /\ pc \notin {"process", "push"} => Stuck
  /\ Placed
SoundInv == ImageInv /\ BlankInFront /\ (Good => GoodInv)

(* No step touches what is in front of the partition.                      *)
LEMMA FrontIsLeft ==
  ASSUME SoundInv, [Next]_vars
  PROVE  BlankInFront'
<1>1. /\ m_wptr \in Nat /\ ImageOffset \in Nat /\ m_wptr >= ImageOffset /\ ImageSize \in Nat
      /\ BlankInFront
  BY UpdateAssumption DEF SoundInv, ImageInv, ArrivalInv, TypeInv, LoadInv
<1> SUFFICES ASSUME NEW a \in 0 .. ImageOffset - 1, a \notin Golden PROVE flash'[a] = Blank
  BY DEF BlankInFront
<1>2. a \in Addr /\ flash[a] = Blank
  BY <1>1 DEF Addr, BlankInFront
<1>3. CASE flash' = flash
  BY <1>2, <1>3
<1>4. CASE OnDeviceOpened
  BY <1>2, <1>4 DEF OnDeviceOpened, Blank
<1>5. CASE ReadERecord
  <2>1. PICK n \in Int : flash' = ErasedSectors(n)
    <3>1. NumSectors \in Int
      BY UpdateAssumption DEF NumSectors
    <3> QED
      BY <1>5, <3>1 DEF ReadERecord, EraseFlashPartition
  <2>2. \A k \in Int : ~(a \in ImageOffset .. ImageOffset + k * SectorSize - 1)
    BY <1>1
  <2> QED
    BY <1>2, <2>1, <2>2 DEF ErasedSectors
<1>6. CASE PushBlock \/ FlushRest
  <2>1. PICK n \in {WriteBlock, Len(wr)} : WriteVerified(n)
    BY <1>6 DEF PushBlock, FlushRest
  <2>2. ~(a \in Target(n))
    BY <1>1 DEF Target
  <2> QED
    BY <1>2, <2>1, <2>2 DEF WriteVerified
<1> QED
  BY <1>3, <1>4, <1>5, <1>6
  DEF Next, Handler, Process, OnRxData, OnDeviceClosed, NeedMore, ReadMagic, ReadRecord, FindSync,
      NoSync, ReadPacket, ReadType2, BadPacket, BigWrite, DiscardRest, PushedAll, FlashLeft, vars

(* An erase that does not fail leaves the whole partition blank.           *)
LEMMA EraseBlanks ==
  ASSUME SoundInv, PartitionErasable, EraseFlashPartition, ~faulty',
         m_wptr' = m_wptr, m_wptr = ImageOffset
  PROVE  m_state' = "SYNC_WAIT" /\ BlankBehind'
<1>1. /\ ImageOffset \in Nat /\ ImageSize \in Nat /\ BlankInFront
      /\ Golden \cap (0 .. ImageSize - 1) = {}
  BY UpdateAssumption DEF SoundInv, PartitionErasable
<1>2. /\ flash' = ErasedSectors(NumSectors)
      /\ m_state' = IF BlankCheck(flash') THEN "SYNC_WAIT" ELSE "FAILED"
  BY DEF EraseFlashPartition
<1>3. flash' = [a \in Addr |-> IF a \in ImageOffset .. ImageOffset + ImageSize - 1
                               THEN Blank ELSE flash[a]]
  BY <1>2 DEF ErasedSectors, PartitionErasable
<1>4. ASSUME NEW a \in Addr, a >= ImageOffset PROVE flash'[a] = Blank
  <2>1. a \in ImageOffset .. ImageOffset + ImageSize - 1
    BY <1>1, <1>4 DEF Addr
  <2> QED
    BY <1>3, <2>1
<1>5. ASSUME NEW a \in 0 .. ImageSize - 1 PROVE flash'[a] = Blank
  <2>1. a \in Addr
    BY <1>1 DEF Addr
  <2>2. CASE a >= ImageOffset
    BY <1>4, <2>1, <2>2
  <2>3. CASE a < ImageOffset
    <3>1. a \in 0 .. ImageOffset - 1 /\ a \notin Golden
      BY <1>1, <2>3
    <3>2. ~(a \in ImageOffset .. ImageOffset + ImageSize - 1)
      BY <1>1, <2>3
    <3> QED
      BY <1>1, <1>3, <2>1, <3>1, <3>2 DEF BlankInFront
  <2> QED
    BY <1>1, <2>2, <2>3
<1>6. BlankCheck(flash')
  BY <1>5 DEF BlankCheck
<1>7. BlankBehind'
  BY <1>4 DEF BlankBehind
<1> QED
  BY <1>2, <1>6, <1>7

(* A write goes to blank cells and fails only if the flash does.           *)
LEMMA WriteSucceeds ==
  ASSUME SoundInv, Good, m_state \in Image, pc # "closed",
         NEW n \in 0 .. Len(wr), WriteVerified(n), ~faulty'
  PROVE  /\ m_state' = m_state
         /\ \A a \in Addr : a >= m_wptr + n => flash'[a] = Blank
<1>1. m_wptr \in Nat /\ n \in Nat /\ BlankBehind
  BY Lengths DEF SoundInv, GoodInv, ImageInv, ArrivalInv, TypeInv, LoadInv
<1>2. TargetBlank(n)
  BY <1>1 DEF TargetBlank, Target, BlankBehind
<1>3. /\ flash' = [a \in Addr |-> IF a \in Target(n) THEN wr[a - m_wptr + 1] ELSE flash[a]]
      /\ m_state' = m_state
  BY <1>2 DEF WriteVerified
<1>4. ASSUME NEW a \in Addr, a >= m_wptr + n PROVE flash'[a] = Blank
  <2>1. a \in Int
    BY UpdateAssumption DEF Addr
  <2>2. ~(a \in Target(n)) /\ a >= m_wptr
    BY <1>1, <1>4, <2>1 DEF Target
  <2> QED
    BY <1>1, <1>3, <2>2 DEF BlankBehind
<1> QED
  BY <1>3, <1>4

(* A step that leaves the parser alone leaves it stuck or not, and where   *)
(* it is.                                                                  *)
LEMMA ParserLeft ==
  ASSUME UNCHANGED <<m_state, m_bigWordLen, rx, file, sent>>
  PROVE  Consumed' = Consumed /\ (Stuck => Stuck') /\ (Placed => Placed')
<1>1. Consumed' = Consumed
  BY DEF Consumed
<1>2. HasNext' = HasNext
  BY Zenon DEF HasNext, Has, Starts, Next1
<1>3. Stuck => Stuck'
  BY <1>2 DEF Stuck
<1>4. ASSUME NEW e, NEW s, NEW d, Progress(e, s, d) PROVE Progress(e, s, d)'
  BY <1>1, <1>4 DEF Progress, PacketIn
<1> QED
  BY <1>1, <1>3, <1>4 DEF Placed

(* What the parser does with a sound file.                                 *)
LEMMA SoundProcess ==
  ASSUME SoundInv, Process, BuffersSuffice, PartitionErasable, Good'
  PROVE  GoodInv'
<1>1. /\ rx \in Seq(1 .. Len(file)) /\ Len(rx) \in Nat /\ Len(wr) \in Nat /\ Consumed \in Nat
      /\ Len(file) \in Nat /\ file \in Files /\ sent \in Nat /\ m_bigWordLen \in Nat
      /\ MagicLen \in Nat \ {0} /\ Run(rx, Consumed)
      /\ TypeInv /\ ArrivalInv /\ ImageInv
  BY Lengths, UpdateAssumption
  DEF SoundInv, ImageInv, ArrivalInv, ArrivedInv, TypeInv, RxInv, FileInv, ControlInv
<1>2. /\ pc = "process" /\ UNCHANGED <<file, sent, m_wptr>> /\ pc' \in {"push", "pushLast"}
      /\ faulty' = faulty \/ faulty' = TRUE
  BY DEF Process, NeedMore, ReadMagic, ReadRecord, ReadERecord, FindSync, NoSync, ReadPacket,
         ReadType2, BadPacket, BigWrite, DiscardRest, Parsing, Returns, FlashLeft,
         EraseFlashPartition
<1>3. Good /\ GoodInv /\ ~faulty'
  BY <1>2 DEF Good, SoundInv
<1>4. PICK e, s, d \in 1 .. Len(file) : Progress(e, s, d)
  BY <1>3 DEF GoodInv, Placed
<1>5. Bitstream(file, e, s, d) /\ Bitstream(file', e, s, d)
  BY <1>2, <1>4 DEF Progress
<1>6. ASSUME flash' = flash, m_state' \in Image => m_state \in Image, m_state' # "FAILED",
             m_state' = "READ_BITHDR" => Consumed' = 0, pc' = "pushLast" => Stuck',
             m_state' = "SYNC_WAIT" => Consumed' < s,
             m_state' = "BITSTREAM" => PacketIn(s, d, Consumed' + 1),
             m_state' = "BIG_WRITE" => PacketIn(s, d, Consumed' + 4 * m_bigWordLen' + 1)
      PROVE  GoodInv'
  <2>1. Progress(e, s, d)'
    BY <1>2, <1>5, <1>6 DEF Progress, PacketIn
  <2>2. Placed'
    BY <1>2, <2>1 DEF Placed
  <2>3. m_state' \in Image => BlankBehind'
    BY <1>2, <1>3, <1>6 DEF GoodInv, BlankBehind
  <2> QED
    BY <1>2, <1>6, <2>2, <2>3 DEF GoodInv
<1>7. CASE NeedMore
  <2>1. /\ UNCHANGED <<m_state, m_bigWordLen, m_wptr, rx, flash, file, sent>> /\ ~HasNext
        /\ pc' = "pushLast"
    BY <1>7 DEF NeedMore, Returns
  <2>2. Stuck' /\ Placed' /\ Consumed' = Consumed
    BY <1>3, <2>1, ParserLeft DEF Stuck, GoodInv
  <2> QED
    BY <1>2, <1>3, <2>1, <2>2 DEF GoodInv, BlankBehind
<1>8. CASE ReadMagic
  <2>1. /\ m_state = "READ_BITHDR" /\ HasNext /\ flash' = flash /\ pc' = "push"
        /\ Starts({"magic"}) => m_state' = "READ_BITHDR_RECORDS"
    BY <1>8 DEF ReadMagic, Parsing, FlashLeft, Returns
  <2>2. Len(rx) >= MagicLen
    BY <2>1 DEF HasNext, Has
  <2>3. rx # <<>>
    BY <1>1, <2>2, EmptySeq
  <2>4. Consumed = 0
    BY <1>3, <2>1 DEF GoodInv
  <2>5. Next1 = file[1]
    <3>1. Next1 = file[Consumed + 1]
      BY <1>1, <2>3, NextByte
    <3> QED
      BY <2>4, <3>1
  <2>6. file[1].kind = "magic" /\ file[1].at = 1
    BY <1>1, <1>3, UpdateAssumption DEF Good, Sound, IsFile
  <2>7. m_state' = "READ_BITHDR_RECORDS"
    BY <2>1, <2>3, <2>5, <2>6 DEF Starts
  <2> QED
    BY <1>6, <2>1, <2>7 DEF Image
<1>9. CASE ReadRecord
  <2>1. /\ m_state = "READ_BITHDR_RECORDS" /\ HasNext /\ flash' = flash /\ pc' = "push"
        /\ Next1.kind # "otherDevice" => m_state' = "READ_BITHDR_RECORDS"
    BY <1>9 DEF ReadRecord, Parsing, FlashLeft, Returns, DeviceMatches
  <2>2. Len(rx) >= 3
    BY <2>1 DEF HasNext, Has
  <2>3. rx # <<>>
    BY <1>1, <2>2, EmptySeq
  <2>4. Next1.kind # "otherDevice"
    BY <1>1, <1>3, <2>3, NextByte DEF Good, Sound
  <2> QED
    BY <1>6, <2>1, <2>4 DEF Image
<1>10. CASE ReadERecord
  <2>1. /\ EraseFlashPartition /\ m_state = "READ_BITHDR_RECORDS" /\ pc' = "push"
        /\ rx # <<>> /\ Next1.kind = "e" /\ Next1.at = 1
    BY <1>10 DEF ReadERecord, Parsing, Returns, Starts
  <2>2. m_wptr = ImageOffset
    BY <1>1, <2>1 DEF TypeInv, LoadInv, Header
  <2>3. m_state' = "SYNC_WAIT" /\ BlankBehind'
    BY <1>2, <1>3, <2>1, <2>2, EraseBlanks
  <2>4. Consumed' = Start
    BY <1>1, <1>10, <2>3, ImageStarts DEF Image
  <2>5. Start = e + 4
    BY <1>1, <1>5, StartOfImage DEF Start, Bitstream
  <2>6. Consumed' < s
    BY <1>5, <2>4, <2>5 DEF Bitstream
  <2>7. Placed'
    BY <1>2, <1>5, <2>3, <2>6 DEF Placed, Progress
  <2> QED
    BY <2>1, <2>3, <2>7 DEF GoodInv
<1>11. CASE FindSync
  <2>1. PICK i \in 1 .. Len(rx) - 4 : SyncAt(i) /\ rx' = Pop(rx, i + 3)
    BY <1>11 DEF FindSync
  <2>2. /\ m_state = "SYNC_WAIT" /\ m_state' = "BITSTREAM" /\ flash' = flash /\ pc' = "push"
    BY <1>11 DEF FindSync, Parsing, FlashLeft, Returns
  <2>3. i \in 1 .. Len(rx) /\ i + 3 \in 0 .. Len(rx)
    BY <1>1
  <2>4. rx[i] = Consumed + i /\ rx[i] \in 1 .. Len(file)
    BY <1>1, <2>3, ElementOfSeq DEF Run
  <2>5. rx[i] = s
    BY <1>5, <2>1, <2>4 DEF Bitstream, SyncAt
  <2>6. Consumed' = Consumed + (i + 3)
    BY <1>1, <1>2, <2>1, <2>3, ArrivedTail
  <2>7. Consumed' + 1 = s + 4
    BY <1>1, <2>4, <2>5, <2>6
  <2>8. PacketIn(s, d, s + 4)
    BY <1>1, <1>5 DEF PacketIn, Bitstream
  <2> QED
    BY <1>6, <2>2, <2>7, <2>8 DEF Image
<1>12. CASE NoSync
  <2> DEFINE n == IF Len(rx) > 4 THEN Len(rx) - 4 ELSE 0
  <2>1. /\ rx' = Pop(rx, n) /\ ~ \E i \in 1 .. Len(rx) - 4 : SyncAt(i)
        /\ m_state = "SYNC_WAIT" /\ m_state' = "SYNC_WAIT" /\ flash' = flash
    BY <1>12 DEF NoSync, Parsing, FlashLeft
  <2>2. n \in 0 .. Len(rx) /\ Len(rx) - n <= 4 /\ (n # 0 => n = Len(rx) - 4)
    BY <1>1
  <2> HIDE DEF n
  <2>3. Consumed' = Consumed + n /\ Len(rx') = Len(rx) - n
    BY <1>1, <1>2, <2>1, <2>2, ArrivedTail
  <2>4. Consumed < s
    BY <1>4, <2>1 DEF Progress
  <2>5. Consumed + n < s
    <3> SUFFICES ASSUME Consumed + n >= s PROVE FALSE
      BY <1>1, <2>2
    <3> DEFINE i == s - Consumed
    <3>1. i \in 1 .. Len(rx) - 4 /\ i \in 1 .. Len(rx) /\ Consumed + i = s
      BY <1>1, <2>2, <2>4
    <3> HIDE DEF i
    <3>2. rx[i] = s
      BY <1>1, <3>1 DEF Run
    <3>3. SyncAt(i)
      BY <1>5, <3>2 DEF SyncAt, Bitstream
    <3> QED
      BY <2>1, <3>1, <3>3
  <2>6. Stuck'
    BY <2>1, <2>2, <2>3 DEF Stuck
  <2> QED
    BY <1>6, <2>1, <2>3, <2>5, <2>6 DEF Image
<1>13. CASE ReadPacket
  <2> DEFINE n == Next1.len
  <2>1. /\ rx # <<>> /\ Next1.kind \in Packets /\ rx' = Pop(rx, n) /\ n <= Len(rx)
        /\ m_state = "BITSTREAM" /\ flash' = flash /\ pc' = "push"
        /\ m_state' = IF Next1.kind = "desync" THEN "DONE" ELSE m_state
    BY <1>13 DEF ReadPacket, Parsing, FlashLeft, Returns, HasNext, Has, Starts
  <2>2. Next1 = file[Consumed + 1] /\ n \in Nat /\ n \in 0 .. Len(rx)
    BY <1>1, <2>1, NextByte
  <2>3. n = file[Consumed + 1].len
    BY <2>2
  <2> HIDE DEF n
  <2>4. Consumed' = Consumed + n
    BY <1>1, <1>2, <2>1, <2>2, ArrivedTail
  <2>5. CASE Next1.kind = "desync"
    BY <1>6, <2>1, <2>5 DEF Image
  <2>6. CASE Next1.kind # "desync"
    <3>1. PacketIn(s, d, Consumed + 1)
      BY <1>4, <2>1 DEF Progress
    <3>2. Consumed + 1 \in s + 4 .. d - 1
      BY <1>1, <1>5, <2>2, <2>6, <3>1 DEF PacketIn, Bitstream
    <3>3. Behind(file, Consumed + 1) = Consumed + 1 + n
      BY <2>1, <2>2, <2>3, <2>6 DEF Behind, Packets
    <3>4. Consumed + 1 + n <= d /\ Packet(file, Consumed + 1 + n)
      BY <1>5, <3>1, <3>2, <3>3 DEF PacketIn, Bitstream
    <3>5. Consumed' + 1 = Consumed + 1 + n /\ Consumed + 1 + n \in s + 4 .. d
      BY <1>1, <2>2, <2>4, <3>2, <3>4
    <3>6. PacketIn(s, d, Consumed' + 1)
      BY <3>4, <3>5 DEF PacketIn
    <3> QED
      BY <1>6, <2>1, <2>6, <3>6 DEF Image
  <2> QED
    BY <2>5, <2>6
<1>14. CASE ReadType2
  <2>1. /\ rx # <<>> /\ Next1.kind = "type2" /\ rx' = Pop(rx, 4) /\ Len(rx) >= 4
        /\ m_state = "BITSTREAM" /\ m_state' = "BIG_WRITE" /\ flash' = flash /\ pc' = "push"
        /\ m_bigWordLen' = Next1.words
    BY <1>14 DEF ReadType2, Parsing, FlashLeft, Returns, HasNext, Has, Starts
  <2>2. Consumed + 1 \in 1 .. Len(file) /\ Next1 = file[Consumed + 1] /\ 4 \in 0 .. Len(rx)
    BY <1>1, <2>1, NextByte
  <2> DEFINE w == file[Consumed + 1].words
  <2>3. w \in Nat /\ m_bigWordLen' = w
    BY <1>1, <2>1, <2>2, FileShape
  <2>4. Consumed' = Consumed + 4
    BY <1>1, <1>2, <2>1, <2>2, ArrivedTail
  <2>5. PacketIn(s, d, Consumed + 1)
    BY <1>4, <2>1 DEF Progress
  <2>6. Consumed + 1 \in s + 4 .. d - 1
    BY <1>1, <1>5, <2>1, <2>2, <2>5 DEF PacketIn, Bitstream
  <2>7. Behind(file, Consumed + 1) = Consumed + 1 + (4 + 4 * w)
    BY <2>1, <2>2 DEF Behind
  <2> HIDE DEF w
  <2>8. /\ Consumed + 1 + (4 + 4 * w) <= d /\ Packet(file, Consumed + 1 + (4 + 4 * w))
    BY <1>5, <2>5, <2>6, <2>7 DEF PacketIn, Bitstream
  <2>9. /\ Consumed' + 4 * m_bigWordLen' + 1 = Consumed + 1 + (4 + 4 * w)
        /\ Consumed + 1 + (4 + 4 * w) \in s + 4 .. d
    BY <1>1, <2>3, <2>4, <2>6, <2>8
  <2>10. PacketIn(s, d, Consumed' + 4 * m_bigWordLen' + 1)
    BY <2>8, <2>9 DEF PacketIn
  <2> QED
    BY <1>6, <2>1, <2>10 DEF Image
<1>15. CASE BadPacket
  <2>1. m_state = "BITSTREAM" /\ HasNext /\ ~Starts(Packets \cup {"type2"})
    BY <1>15 DEF BadPacket, Parsing
  <2>2. Len(rx) >= 4
    BY <2>1 DEF HasNext, Has
  <2>3. rx # <<>>
    BY <1>1, <2>2, EmptySeq
  <2>4. Next1 = file[Consumed + 1]
    BY <1>1, <2>3, NextByte
  <2>5. Packet(file, Consumed + 1)
    BY <1>4, <2>1 DEF Progress, PacketIn
  <2> QED
    BY <2>1, <2>3, <2>4, <2>5 DEF Starts, Packet
<1>16. CASE BigWrite
  <2> DEFINE n == BigWords
  <2>1. /\ n \in Nat /\ 4 * n \in 0 .. Len(rx) /\ m_bigWordLen - n \in Nat
        /\ m_bigWordLen - n # 0 => Len(rx) - 4 * n < 4
    BY <1>1 DEF BigWords
  <2>2. /\ rx' = Pop(rx, 4 * n) /\ m_state = "BIG_WRITE" /\ flash' = flash
        /\ m_bigWordLen' = m_bigWordLen - n
        /\ m_state' = IF m_bigWordLen - n = 0 THEN "BITSTREAM"
                       ELSE IF Fits(First(4 * n)) THEN "BIG_WRITE" ELSE "FAILED"
        /\ pc' = "pushLast" => m_bigWordLen - n # 0
    BY <1>16 DEF BigWrite, Parsing, FlashLeft, Returns
  <2> HIDE DEF n
  <2>3. Consumed' = Consumed + 4 * n /\ Len(rx') = Len(rx) - 4 * n
    BY <1>1, <1>2, <2>1, <2>2, ArrivedTail
  <2>4. Fits(First(4 * n))
    <3>1. Len(wr) + 4 * n <= BufSize
      BY <1>1, <1>2, <2>1, <2>2, RoomToPush
    <3>2. Len(First(4 * n)) = 4 * n
      BY <1>1, <2>1, FrontOfBuffer DEF First
    <3> QED
      BY <3>1, <3>2 DEF Fits
  <2>5. PacketIn(s, d, Consumed + 4 * m_bigWordLen + 1)
    BY <1>4, <2>2 DEF Progress
  <2>6. Consumed' + 4 * m_bigWordLen' + 1 = Consumed + 4 * m_bigWordLen + 1
    BY <1>1, <2>1, <2>2, <2>3
  <2>7. m_bigWordLen - n = 0 => Consumed' + 1 = Consumed + 4 * m_bigWordLen + 1
    BY <1>1, <2>1, <2>3
  <2>8. m_bigWordLen - n # 0 => Stuck'
    <3> SUFFICES ASSUME m_bigWordLen - n # 0 PROVE Stuck'
      OBVIOUS
    <3>1. m_state' = "BIG_WRITE"
      BY <2>2, <2>4
    <3>2. ~(Len(rx') >= 4)
      BY <1>1, <2>1, <2>3
    <3>3. ~HasNext'
      BY <3>1, <3>2 DEF HasNext, Has
    <3> QED
      BY <3>3 DEF Stuck
  <2> QED
    BY <1>6, <2>2, <2>4, <2>5, <2>6, <2>7, <2>8 DEF Image
<1>17. CASE DiscardRest
  <2>1. m_state = "DONE" /\ m_state' = "DONE" /\ flash' = flash
    BY <1>3, <1>17 DEF DiscardRest, GoodInv
  <2>2. Stuck'
    BY <2>1 DEF Stuck
  <2> QED
    BY <1>6, <2>1, <2>2 DEF Image
<1> QED
  BY <1>7, <1>8, <1>9, <1>10, <1>11, <1>12, <1>13, <1>14, <1>15, <1>16, <1>17 DEF Process

(* Writing a sound file to flash.                                          *)
LEMMA SoundPush ==
  ASSUME SoundInv, PushBlock \/ PushedAll \/ FlushRest, Good'
  PROVE  GoodInv'
<1>1. /\ Len(wr) \in Nat /\ WriteBlock \in Nat \ {0} /\ m_wptr \in Nat
      /\ UNCHANGED <<m_bigWordLen, rx, file, sent>> /\ pc # "closed"
      /\ m_state \in Header => Len(wr) = 0
      /\ m_state \in States
  BY Lengths, UpdateAssumption, EmptySeq
  DEF SoundInv, ImageInv, ArrivalInv, TypeInv, LoadInv, ControlInv, PushBlock, PushedAll, FlushRest,
      Pushing
<1>2. faulty => faulty'
  BY Zenon DEF PushBlock, PushedAll, FlushRest, WriteVerified
<1>3. Good /\ GoodInv /\ ~faulty'
  BY <1>1, <1>2 DEF Good, SoundInv
<1>4. m_state' = m_state => Consumed' = Consumed /\ (Stuck => Stuck') /\ Placed'
  BY <1>1, <1>3, ParserLeft DEF GoodInv
<1>5. CASE PushBlock
  <2>1. /\ WriteVerified(WriteBlock) /\ Len(wr) >= WriteBlock /\ pc' = pc
        /\ m_state' # "FAILED" => m_wptr' = m_wptr + WriteBlock
    BY <1>5 DEF PushBlock, MorePushes, NextWptr
  <2>2. WriteBlock \in 0 .. Len(wr) /\ m_state \in Image
    BY <1>1, <1>3, <2>1 DEF GoodInv, States, Header, Image
  <2>3. /\ m_state' = m_state
        /\ \A a \in Addr : a >= m_wptr + WriteBlock => flash'[a] = Blank
    BY <1>1, <1>3, <2>1, <2>2, WriteSucceeds
  <2>4. BlankBehind'
    BY <1>3, <2>1, <2>3 DEF GoodInv, BlankBehind
  <2> QED
    BY <1>3, <1>4, <2>1, <2>3, <2>4 DEF GoodInv
<1>6. CASE PushedAll
  <2>1. /\ UNCHANGED <<m_state, m_wptr, flash>>
        /\ \/ pc = "push" /\ pc' = "process"
           \/ pc \notin {"process", "push"} /\ pc' # "closed"
    BY <1>6 DEF PushedAll, Pushing
  <2> QED
    BY <1>1, <1>3, <1>4, <2>1 DEF GoodInv, BlankBehind
<1>7. CASE FlushRest
  <2>1. WriteVerified(Len(wr)) /\ pc = "flush" /\ pc' = "closed" /\ Len(wr) \in 0 .. Len(wr)
    BY <1>1, <1>7 DEF FlushRest
  <2>2. m_state' = m_state
    <3>1. CASE m_state \in Image
      BY <1>1, <1>3, <2>1, <3>1, WriteSucceeds
    <3>2. CASE m_state \in Header
      <4>1. TargetBlank(Len(wr))
        BY <1>1, <3>2 DEF TargetBlank, Target
      <4> QED
        BY <1>3, <2>1, <4>1 DEF WriteVerified
    <3> QED
      BY <1>1, <1>3, <3>1, <3>2 DEF GoodInv, States, Header, Image
  <2> QED
    BY <1>3, <1>4, <2>1, <2>2 DEF GoodInv
<1> QED
  BY <1>5, <1>6, <1>7

(* Before the first byte the parser waits for the header.                  *)
LEMMA SoundBegins ==
  ASSUME SoundFilesWhole, NEW f \in Files, Sound(f)
  PROVE  \E e, s, d \in 1 .. Len(f) : Bitstream(f, e, s, d)
BY DEF SoundFilesWhole

(* Calls from outside, while a sound file arrives.                         *)
LEMMA SoundCall ==
  ASSUME SoundInv, OnDeviceOpened \/ OnRxData \/ OnDeviceClosed, BuffersSuffice,
         SoundFilesWhole, Good'
  PROVE  GoodInv'
<1>1. CASE OnDeviceOpened
  <2>1. /\ pc' = "idle" /\ rx' = <<>> /\ m_state' = "READ_BITHDR" /\ sent' = 0
        /\ file' \in Files
    BY <1>1 DEF OnDeviceOpened
  <2>2. Len(rx') = 0
    BY <2>1, EmptySeq
  <2>3. Consumed' = 0
    <3>1. Len(rx') = 0 /\ sent' = 0
      BY <2>1, <2>2
    <3> QED
      BY <3>1 DEF Consumed
  <2>4. Stuck'
    <3>1. ~(Len(rx') >= MagicLen)
      BY <2>2, UpdateAssumption
    <3>2. ~HasNext'
      BY <2>1, <3>1 DEF HasNext, Has
    <3> QED
      BY <3>2 DEF Stuck
  <2>5. Placed'
    <3>1. Sound(file')
      BY DEF Good
    <3>2. PICK e, s, d \in 1 .. Len(file') : Bitstream(file', e, s, d)
      BY <2>1, <3>1, SoundBegins
    <3>3. Progress(e, s, d)'
      BY <2>1, <3>2 DEF Progress
    <3> QED
      BY <3>2, <3>3 DEF Placed
  <2> QED
    BY <2>1, <2>3, <2>4, <2>5 DEF GoodInv, Image
<1>2. CASE OnRxData
  <2>1. /\ UNCHANGED <<m_state, m_bigWordLen, m_wptr, flash, file, faulty>> /\ pc = "idle"
        /\ pc' = "process" \/ (UNCHANGED rx /\ \E n \in 1 .. MaxChunk : sent' = sent + n)
    BY <1>2 DEF OnRxData
  <2>2. Consumed' = Consumed
    BY <1>2, ArrivalRx DEF SoundInv, ImageInv
  <2>3. pc' = "process"
    <3> SUFFICES ASSUME UNCHANGED rx, NEW n \in 1 .. MaxChunk, sent' = sent + n PROVE FALSE
      BY <2>1
    <3>1. Len(rx) \in Nat /\ sent \in Nat
      BY Lengths DEF SoundInv, ImageInv, ArrivalInv
    <3> QED
      BY <2>2, <3>1 DEF Consumed
  <2>4. Good /\ GoodInv
    BY <2>1 DEF Good, SoundInv
  <2>5. Placed'
    <3>1. PICK e, s, d \in 1 .. Len(file) : Progress(e, s, d)
      BY <2>4 DEF GoodInv, Placed
    <3>2. Progress(e, s, d)'
      BY <2>1, <2>2, <3>1 DEF Progress, PacketIn
    <3> QED
      BY <2>1, <3>1, <3>2 DEF Placed
  <2> QED
    BY <2>1, <2>2, <2>3, <2>4, <2>5 DEF GoodInv, BlankBehind
<1>3. CASE OnDeviceClosed
  <2>1. /\ UNCHANGED <<m_state, m_bigWordLen, m_wptr, rx, flash, file, sent, faulty>>
        /\ pc = "idle" /\ (m_state # "FAILED" => pc' = "pushFlush")
    BY <1>3 DEF OnDeviceClosed
  <2>2. Good /\ GoodInv
    BY <2>1 DEF Good, SoundInv
  <2>3. Consumed' = Consumed /\ Stuck' /\ Placed'
    BY <2>1, <2>2, ParserLeft DEF GoodInv
  <2> QED
    BY <2>1, <2>2, <2>3 DEF GoodInv, BlankBehind
<1> QED
  BY <1>1, <1>2, <1>3

LEMMA SoundInit ==
  ASSUME SoundFilesWhole, BuffersSuffice
  PROVE  Init => SoundInv
<1> SUFFICES ASSUME Init PROVE SoundInv
  OBVIOUS
<1>1. ImageInv
  <2>1. ArrivalInv
    BY ArrivalInit
  <2> QED
    BY <2>1 DEF Init, ImageInv, CutInv, Image, DoneMeansFlashed
<1>2. BlankInFront
  BY UpdateAssumption DEF Init, BlankInFront, Addr
<1>3. Len(rx) = 0 /\ sent = 0 /\ m_state = "READ_BITHDR" /\ pc = "closed" /\ file \in Files
  BY EmptySeq DEF Init
<1>4. Consumed = 0
  BY <1>3 DEF Consumed
<1>5. Stuck
  <2>1. ~HasNext
    BY <1>3, UpdateAssumption DEF HasNext, Has
  <2> QED
    BY <2>1 DEF Stuck
<1>6. Good => Placed
  BY <1>3, SoundBegins DEF Good, Placed, Progress
<1> QED
  BY <1>1, <1>2, <1>3, <1>4, <1>5, <1>6 DEF SoundInv, GoodInv, Image

LEMMA SoundStep ==
  ASSUME SoundInv, BuffersSuffice, ImageFits, SoundFilesWhole, PartitionErasable, ~CutsE,
         [Next]_vars
  PROVE  SoundInv'
<1>1. ImageInv' /\ BlankInFront'
  BY ImageStep, FrontIsLeft DEF SoundInv
<1> SUFFICES ASSUME Good' PROVE GoodInv'
  BY <1>1 DEF SoundInv
<1>2. CASE Process
  BY <1>2, SoundProcess
<1>3. CASE PushBlock \/ PushedAll \/ FlushRest
  BY <1>3, SoundPush
<1>4. CASE OnDeviceOpened \/ OnRxData \/ OnDeviceClosed
  BY <1>4, SoundCall
<1>5. CASE UNCHANGED vars
  <2>1. UNCHANGED <<m_state, m_bigWordLen, m_wptr, rx, flash, file, sent, faulty, pc>>
    BY <1>5 DEF vars
  <2>2. Good /\ GoodInv
    BY <2>1 DEF Good, SoundInv
  <2>3. Consumed' = Consumed /\ (Stuck => Stuck') /\ Placed'
    BY <2>1, <2>2, ParserLeft DEF GoodInv
  <2> QED
    BY <2>1, <2>2, <2>3 DEF GoodInv, BlankBehind
<1> QED
  BY <1>2, <1>3, <1>4, <1>5 DEF Next, Handler

(* When all of a sound file has arrived, the parser is only ever stuck at  *)
(* its end: whatever it waits for in another state is there.               *)
LEMMA StuckAtEnd ==
  ASSUME SoundInv, Good, Stuck, sent = Len(file)
  PROVE  m_state = "DONE"
<1>1. /\ Len(rx) \in Nat /\ Consumed \in Nat /\ Len(file) \in Nat /\ file \in Files
      /\ Consumed + Len(rx) = Len(file) /\ m_bigWordLen \in Nat /\ m_state \in States
      /\ ArrivalInv /\ GoodInv /\ IsFile(file) /\ MagicLen \in Nat \ {0}
  BY Lengths, UpdateAssumption
  DEF SoundInv, ImageInv, ArrivalInv, TypeInv, FileInv, ControlInv, Consumed
<1>2. PICK e, s, d \in 1 .. Len(file) : Progress(e, s, d)
  BY <1>1 DEF GoodInv, Placed
<1>3. Bitstream(file, e, s, d)
  BY <1>2 DEF Progress
<1>4. e + 4 < s /\ s + 4 <= d /\ file[e].kind = "e" /\ file[e].at = 1
  BY <1>3 DEF Bitstream
<1>5. \A i \in 1 .. Len(file) : file[i].at = 1 => i + file[i].len - 1 <= Len(file)
  <2> SUFFICES ASSUME NEW i \in 1 .. Len(file), file[i].at = 1
               PROVE  i + file[i].len - 1 <= Len(file)
    OBVIOUS
  <2>1. \A k \in 1 .. file[i].len : i + k - 1 <= Len(file)
    BY <1>1 DEF IsFile
  <2>2. file[i].len \in Nat \ {0}
    BY <1>1, FileShape
  <2> QED
    BY <2>1, <2>2
<1>6. file[d].len \in Nat /\ file[d].len >= 4 /\ d + file[d].len - 1 <= Len(file)
  BY <1>1, <1>3, <1>5, FileShape DEF Bitstream, Packet
<1>7. d + 3 <= Len(file)
  BY <1>1, <1>6
<1>8. m_state # "READ_BITHDR"
  <2> SUFFICES ASSUME m_state = "READ_BITHDR" PROVE FALSE
    OBVIOUS
  <2>1. Len(rx) = Len(file)
    BY <1>1 DEF GoodInv
  <2>2. file[1].kind = "magic" /\ file[1].at = 1 /\ 1 \in 1 .. Len(file)
    BY <1>1, FileShape DEF Good, Sound, IsFile
  <2>3. file[1].len = MagicLen
    BY <1>1, <2>2 DEF IsFile
  <2>4. MagicLen <= Len(file)
    BY <1>1, <1>5, <2>2, <2>3
  <2>5. ~HasNext
    BY DEF Stuck
  <2> QED
    BY <2>1, <2>4, <2>5 DEF HasNext, Has
<1>9. m_state # "READ_BITHDR_RECORDS"
  <2> SUFFICES ASSUME m_state = "READ_BITHDR_RECORDS" PROVE FALSE
    OBVIOUS
  <2>1. AtRecord
    BY <1>1 DEF ArrivalInv, HeaderInv, Header
  <2>2. Consumed < e
    BY <1>1, <1>4, <2>1 DEF AtRecord
  <2> DEFINE i == Consumed + 1
             n == file[i].len
  <2>3. i \in 1 .. Len(file) /\ file[i].at = 1 /\ n \in Nat \ {0} /\ i <= e
    BY <1>1, <2>1, <2>2, FileShape DEF AtRecord
  <2>4. Len(rx) >= 3
    BY <1>1, <1>4, <1>7, <2>2
  <2>5. rx # <<>>
    BY <1>1, <2>4, EmptySeq
  <2>6. Next1 = file[i]
    BY <1>1, <2>5, NextByte
  <2>7. i + n - 1 <= Len(file)
    BY <1>5, <2>3
  <2>8. Len(rx) >= n
    BY <1>1, <2>3, <2>7
  <2>9. ~HasNext
    BY DEF Stuck
  <2> HIDE DEF i
  <2> QED
    BY <2>4, <2>6, <2>8, <2>9 DEF HasNext, Has
<1>10. m_state # "SYNC_WAIT"
  <2> SUFFICES ASSUME m_state = "SYNC_WAIT" PROVE FALSE
    OBVIOUS
  <2>1. HasNext
    BY DEF HasNext
  <2>2. Len(rx) <= 4 /\ Consumed < s
    BY <1>2, <2>1 DEF Stuck, Progress
  <2> QED
    BY <1>1, <1>4, <1>7, <2>2
<1>11. m_state # "BITSTREAM"
  <2> SUFFICES ASSUME m_state = "BITSTREAM" PROVE FALSE
    OBVIOUS
  <2> DEFINE i == Consumed + 1
             n == file[i].len
  <2>1. i \in s + 4 .. d /\ Packet(file, i)
    BY <1>2 DEF Progress, PacketIn
  <2>2. i \in 1 .. Len(file) /\ file[i].at = 1 /\ n \in Nat
    BY <1>1, <2>1, FileShape DEF Packet
  <2>3. i + n - 1 <= Len(file)
    BY <1>5, <2>2
  <2>4. Len(rx) >= 4 /\ Len(rx) >= n
    BY <1>1, <1>7, <2>1, <2>2, <2>3
  <2>5. rx # <<>>
    BY <1>1, <2>4, EmptySeq
  <2>6. Next1 = file[i]
    BY <1>1, <2>5, NextByte
  <2>7. ~HasNext
    BY DEF Stuck
  <2> HIDE DEF i
  <2> QED
    BY <2>4, <2>6, <2>7 DEF HasNext, Has
<1>12. m_state # "BIG_WRITE"
  <2> SUFFICES ASSUME m_state = "BIG_WRITE" PROVE FALSE
    OBVIOUS
  <2>1. Consumed + 4 * m_bigWordLen + 1 \in s + 4 .. d
    BY <1>2 DEF Progress, PacketIn
  <2>2. Len(rx) >= 4
    BY <1>1, <1>7, <2>1
  <2>3. ~HasNext
    BY DEF Stuck
  <2> QED
    BY <2>2, <2>3 DEF HasNext, Has
<1> QED
  BY <1>1, <1>8, <1>9, <1>10, <1>11, <1>12 DEF GoodInv, States

(* A sound file that arrived in full, with no flash access failing, is     *)
(* accepted and in flash: SoundFileFlashed, if the erase reaches the end   *)
(* of the partition, the blank check meets nothing in front of it, and no  *)
(* call of OnRxData ends inside the 'e' record.                            *)
THEOREM SoundIsFlashed ==
  ASSUME BuffersSuffice, ImageFits, SoundFilesWhole, PartitionErasable, ~CutsE
  PROVE  Spec => []SoundFileFlashed
<1>1. Init => SoundInv
  BY SoundInit
<1>2. SoundInv /\ [Next]_vars => SoundInv'
  BY SoundStep
<1>3. SoundInv => SoundFileFlashed
  <2> SUFFICES ASSUME SoundInv, pc = "closed", sent = Len(file), Good
               PROVE  m_state = "DONE" /\ InFlash
    BY DEF SoundFileFlashed, Good
  <2>1. Stuck
    BY DEF SoundInv, GoodInv
  <2>2. m_state = "DONE"
    BY <2>1, StuckAtEnd
  <2> QED
    BY <2>2 DEF SoundInv, ImageInv, DoneMeansFlashed
<1> QED
  BY <1>1, <1>2, <1>3, PTL DEF Spec

=============================================================================
