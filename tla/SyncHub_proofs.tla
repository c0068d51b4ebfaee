--------------------------- MODULE SyncHub_proofs ---------------------------
(***************************************************************************)
(* Proofs about the hub, for any devices, contents and bounds.             *)
(*                                                                         *)
(* SyncHub: the hub implements the log it promises, and what it told       *)
(* survives.                                                               *)
(*                                                                         *)
(* SyncPairing, the gate in front of it: a pairing is one key that two     *)
(* sides share and keep, and what a device is told of its pairing is so.   *)
(***************************************************************************)
EXTENDS SyncHub, SyncPairing, SequenceTheorems, FiniteSetTheorems, TLAPS

-----------------------------------------------------------------------------
(* The log: its inductive invariant *)

Running == phase # "closed"

\* The push running has put its line in the file and not yet its segment in the log.
Pending(d) == phase \in {"written", "synced"} /\ d = Current.device

\* A file is whole lines in order, but for the last one, which a stop may have torn.
InOrder(lines) ==
  \A i \in 1..Len(lines) : lines[i].seq = i \/ (i = Len(lines) /\ lines[i] = TornLine)

Whole(lines) == \A i \in 1..Len(lines) : lines[i].seq = i

Types ==
  /\ file \in [Device -> Seq(Line)]
  /\ log \in [Device -> Seq(Body)]
  /\ phase = "closed" => \A d \in Device : log[d] = <<>>
  /\ half \in [Device -> BOOLEAN]
  /\ queue \in Seq(Segment)
  /\ phase \in {"closed", "open", "written", "synced"}
  /\ phase \in {"written", "synced"} => queue # <<>>
  /\ acked \subseteq Segment /\ served \subseteq Segment
  /\ crashes \in 0..MaxCrashes

FilesInOrder ==
  \A d \in Device : /\ InOrder(file[d])
                    /\ Running => Whole(file[d]) /\ half[d] = FALSE

\* In memory is what the files hold, but for the line of the push that is running.
LogIsFiles ==
  Running => \A d \in Device :
    /\ Len(file[d]) = IF Pending(d) THEN Len(log[d]) + 1 ELSE Len(log[d])
    /\ \A i \in 1..Len(log[d]) : log[d][i] = file[d][i].body
    /\ Pending(d) => file[d][Len(file[d])] = CurrentLine

\* What was told is a line of a file, and not the one of a push still running.
ToldIsFiled ==
  \A s \in acked \cup served :
    /\ s.seq <= Len(file[s.device])
    /\ file[s.device][s.seq] = [seq |-> s.seq, body |-> s.body]
    /\ Running => s.seq <= Len(log[s.device])

HubInv == Types /\ FilesInOrder /\ LogIsFiles /\ ToldIsFiled

-----------------------------------------------------------------------------
(* The clean prefix of a file *)

LEMMA LineFacts ==
  ASSUME NEW line \in Line
  PROVE  /\ line.seq \in 0..MaxSeq
         /\ line.seq # 0 => line.seq \in 1..MaxSeq /\ line.body \in Body
         /\ line = TornLine <=> line.seq = 0
         /\ line = [seq |-> line.seq, body |-> line.body]
BY HubBoundAssumption DEF Line, TornLine

\* CleanLength is the one length that fits its definition.
LEMMA CleanLengthIs ==
  ASSUME NEW lines \in Seq(Line), NEW n \in 0..Len(lines),
         \A i \in 1..n : lines[i].seq = i,
         n < Len(lines) => lines[n + 1].seq # n + 1
  PROVE  CleanLength(lines) = n
<1> DEFINE Fits(m) == /\ \A i \in 1..m : lines[i].seq = i
                      /\ m < Len(lines) => lines[m + 1].seq # m + 1
<1>1. Len(lines) \in Nat
  OBVIOUS
<1>2. Fits(n)
  OBVIOUS
<1>3. ASSUME NEW m \in 0..Len(lines), Fits(m)
      PROVE  m = n
  <2>1. CASE m < n
    <3>1. m + 1 \in 1..n
      BY <2>1, <1>1
    <3> QED
      BY <3>1, <2>1, <1>3, <1>2, <1>1
  <2>2. CASE n < m
    <3>1. n + 1 \in 1..m
      BY <2>2, <1>1
    <3> QED
      BY <3>1, <2>2, <1>3, <1>2, <1>1
  <2> QED
    BY <2>1, <2>2, <1>1
<1>4. CleanLength(lines) = CHOOSE m \in 0..Len(lines) : Fits(m)
  BY DEF CleanLength
<1> HIDE DEF Fits
<1> QED
  BY <1>2, <1>3, <1>4

\* The lines of a file that count.
Good(lines) ==
  IF lines # <<>> /\ lines[Len(lines)] = TornLine THEN Len(lines) - 1 ELSE Len(lines)

LEMMA GoodIsClean ==
  ASSUME NEW lines \in Seq(Line), InOrder(lines)
  PROVE  /\ Good(lines) \in 0..Len(lines)
         /\ \A i \in 1..Good(lines) : lines[i].seq = i /\ lines[i].body \in Body
         /\ CleanLength(lines) = Good(lines)
         /\ Clean(lines) = SubSeq(lines, 1, Good(lines))
         /\ Whole(lines) <=> Good(lines) = Len(lines)
<1>1. Len(lines) \in Nat /\ (lines # <<>> => Len(lines) > 0)
  OBVIOUS
<1>2. \A i \in 1..Len(lines) : lines[i] \in Line
  OBVIOUS
<1>3. Good(lines) \in 0..Len(lines)
  BY <1>1 DEF Good
<1>4. ASSUME NEW i \in 1..Good(lines)
      PROVE  lines[i].seq = i /\ lines[i].body \in Body
  <2>1. i \in 1..Len(lines) /\ (i = Len(lines) => lines[i] # TornLine)
    BY <1>1, <1>3 DEF Good
  <2>2. lines[i].seq = i
    BY <2>1 DEF InOrder
  <2> QED
    BY <2>1, <2>2, <1>2, LineFacts
<1>5. Good(lines) < Len(lines) => lines[Good(lines) + 1].seq # Good(lines) + 1
  <2> SUFFICES ASSUME Good(lines) < Len(lines)
               PROVE  lines[Good(lines) + 1].seq # Good(lines) + 1
    OBVIOUS
  <2>1. lines # <<>> /\ lines[Len(lines)] = TornLine /\ Good(lines) + 1 = Len(lines)
    BY <1>1 DEF Good
  <2> QED
    BY <2>1, <1>1 DEF TornLine
<1>6. CleanLength(lines) = Good(lines)
  BY <1>3, <1>4, <1>5, CleanLengthIs
<1>7. Whole(lines) <=> Good(lines) = Len(lines)
  <2>1. ASSUME Whole(lines)
        PROVE  Good(lines) = Len(lines)
    BY <2>1, <1>1 DEF Whole, Good, TornLine
  <2>2. ASSUME Good(lines) = Len(lines)
        PROVE  Whole(lines)
    BY <2>2, <1>4 DEF Whole
  <2> QED
    BY <2>1, <2>2
<1> QED
  BY <1>3, <1>4, <1>6, <1>7 DEF Clean

\* What loading makes of a file: whole lines, their segments' bodies.
LEMMA CleanIsWhole ==
  ASSUME NEW lines \in Seq(Line), InOrder(lines)
  PROVE  /\ Clean(lines) \in Seq(Line)
         /\ Len(Clean(lines)) = Good(lines)
         /\ \A i \in 1..Good(lines) : Clean(lines)[i] = lines[i]
         /\ Whole(Clean(lines))
         /\ Bodies(Clean(lines)) = [i \in 1..Good(lines) |-> lines[i].body]
         /\ Bodies(Clean(lines)) \in Seq(Body)
         /\ Len(Bodies(Clean(lines))) = Good(lines)
<1> DEFINE n == Good(lines)
<1>1. n \in 0..Len(lines) /\ Len(lines) \in Nat
  BY GoodIsClean
<1>2. Clean(lines) = SubSeq(lines, 1, n)
  BY GoodIsClean
<1>3. \A i \in 1..n : lines[i] \in Line /\ lines[i].seq = i /\ lines[i].body \in Body
  BY GoodIsClean, <1>1, ElementOfSeq
<1> HIDE DEF n
<1>4. /\ Clean(lines) \in Seq(Line)
      /\ Len(Clean(lines)) = n
      /\ \A i \in 1..n : Clean(lines)[i] = lines[i]
  BY <1>1, <1>2, <1>3
<1>5. Whole(Clean(lines))
  BY <1>1, <1>3, <1>4 DEF Whole
<1>6. Bodies(Clean(lines)) = [i \in 1..n |-> lines[i].body]
  BY <1>4 DEF Bodies
<1>7. Bodies(Clean(lines)) \in Seq(Body) /\ Len(Bodies(Clean(lines))) = n
  BY <1>1, <1>3, <1>6
<1> QED
  BY <1>4, <1>5, <1>6, <1>7 DEF n

-----------------------------------------------------------------------------
(* The invariant is inductive *)

LEMMA TypeFacts ==
  ASSUME Types
  PROVE  /\ \A d \in Device : file[d] \in Seq(Line) /\ Len(file[d]) \in Nat
         /\ \A d \in Device : log[d] \in Seq(Body) /\ Len(log[d]) \in Nat
         /\ \A s \in acked \cup served : s \in Segment
         /\ queue # <<>> => /\ Current \in Segment /\ CurrentLine \in Line
                            /\ Tail(queue) \in Seq(Segment)
                            /\ CurrentLine.seq = Current.seq /\ CurrentLine.body = Current.body
                            /\ CurrentLine.seq # 0
<1>1. queue # <<>> => Current \in Segment /\ Tail(queue) \in Seq(Segment)
  BY HeadTailProperties DEF Types, Current
<1>2. Current \in Segment => /\ CurrentLine \in Line
                             /\ CurrentLine.seq = Current.seq /\ CurrentLine.body = Current.body
                             /\ CurrentLine.seq # 0
  BY HubBoundAssumption DEF CurrentLine, Segment, Line
<1>3. \A d \in Device : file[d] \in Seq(Line) /\ log[d] \in Seq(Body)
  BY DEF Types
<1> QED
  BY <1>1, <1>2, <1>3 DEF Types

\* The log is never ahead of the files.
LEMMA LogBehindFiles ==
  ASSUME HubInv, Running, NEW d \in Device
  PROVE  /\ Len(log[d]) <= Len(file[d])
         /\ \A i \in 1..Len(log[d]) : log[d][i] = file[d][i].body
<1>1. Len(log[d]) \in Nat /\ Len(file[d]) \in Nat
  BY TypeFacts DEF HubInv
<1>2. /\ Len(file[d]) = IF Pending(d) THEN Len(log[d]) + 1 ELSE Len(log[d])
      /\ \A i \in 1..Len(log[d]) : log[d][i] = file[d][i].body
  BY DEF HubInv, LogIsFiles
<1> QED
  BY <1>1, <1>2

LEMMA HubInit == Init => HubInv
BY HubBoundAssumption DEF Init, HubInv, Types, FilesInOrder, LogIsFiles, ToldIsFiled, InOrder, Running

LEMMA OpenStep == HubInv /\ Open => HubInv'
<1> SUFFICES ASSUME HubInv, Open PROVE HubInv'
  OBVIOUS
<1>1. \A d \in Device : file[d] \in Seq(Line) /\ InOrder(file[d])
  BY DEF HubInv, Types, FilesInOrder
<1>2. /\ file' = [d \in Device |-> Clean(file[d])]
      /\ half' = [d \in Device |-> FALSE]
      /\ log' = [d \in Device |-> Bodies(Clean(file[d]))]
      /\ phase = "closed" /\ phase' = "open"
      /\ queue' = queue /\ acked' = acked /\ served' = served /\ crashes' = crashes
  BY DEF Open
<1>3. ASSUME NEW d \in Device
      PROVE  /\ file'[d] \in Seq(Line) /\ Whole(file'[d]) /\ Len(file'[d]) = Good(file[d])
             /\ log'[d] \in Seq(Body) /\ Len(log'[d]) = Good(file[d])
             /\ Good(file[d]) \in 0..Len(file[d])
             /\ \A i \in 1..Good(file[d]) : file'[d][i] = file[d][i] /\ log'[d][i] = file[d][i].body
  BY <1>1, <1>2, CleanIsWhole, GoodIsClean
<1>4. Types'
  BY <1>2, <1>3 DEF HubInv, Types
<1>5. FilesInOrder'
  BY <1>2, <1>3 DEF FilesInOrder, Whole, InOrder
<1>6. LogIsFiles'
  <2>1. \A e : ~Pending(e)'
    BY <1>2 DEF Pending
  <2>2. \A d \in Device : /\ Len(file'[d]) = Len(log'[d])
                          /\ \A i \in 1..Len(log'[d]) : log'[d][i] = file'[d][i].body
    BY <1>3
  <2> QED
    BY <2>1, <2>2 DEF LogIsFiles
<1>7. ToldIsFiled'
  <2> SUFFICES ASSUME NEW s \in acked \cup served
               PROVE  /\ s.seq <= Len(file'[s.device])
                      /\ file'[s.device][s.seq] = [seq |-> s.seq, body |-> s.body]
                      /\ s.seq <= Len(log'[s.device])
    BY <1>2 DEF ToldIsFiled
  <2>1. s.device \in Device /\ s.seq \in 1..MaxSeq
    BY DEF HubInv, Types, Segment
  <2>2. s.seq <= Len(file[s.device]) /\ file[s.device][s.seq] = [seq |-> s.seq, body |-> s.body]
    BY DEF HubInv, ToldIsFiled
  <2>3. s.seq <= Good(file[s.device])
    BY <2>1, <2>2, <1>1 DEF Good, TornLine
  <2> QED
    BY <2>1, <2>2, <2>3, <1>3
<1> QED
  BY <1>4, <1>5, <1>6, <1>7 DEF HubInv

\* A push arriving behind the one that runs leaves the head of the queue.
LEMMA PushStep ==
  ASSUME HubInv, NEW segment \in Segment, Push(segment)
  PROVE  HubInv'
<1>1. queue' = Append(queue, segment)
      /\ UNCHANGED <<file, half, log, phase, acked, served, crashes>>
  BY DEF Push
<1>2. queue' \in Seq(Segment) /\ queue' # <<>> /\ (queue # <<>> => Head(queue') = Head(queue))
  BY <1>1, AppendProperties, HeadTailAppend DEF HubInv, Types
<1>3. Types' /\ FilesInOrder' /\ ToldIsFiled'
  BY <1>1, <1>2 DEF HubInv, Types, FilesInOrder, ToldIsFiled, Running
<1>4. phase \in {"written", "synced"} => Current' = Current /\ CurrentLine' = CurrentLine
  BY <1>2 DEF HubInv, Types, Current, CurrentLine
<1>5. LogIsFiles'
  BY <1>1, <1>4 DEF HubInv, LogIsFiles, Pending, Running
<1> QED
  BY <1>3, <1>5 DEF HubInv

LEMMA AnsweredStep == HubInv /\ (AckAgain \/ Refuse) => HubInv'
<1> SUFFICES ASSUME HubInv, AckAgain \/ Refuse PROVE HubInv'
  OBVIOUS
<1>1. /\ queue # <<>> /\ phase = "open" /\ queue' = Tail(queue)
      /\ UNCHANGED <<file, half, log, phase, served, crashes>>
      /\ acked' = acked \/ (acked' = acked \cup {Current} /\ Duplicate)
  BY DEF AckAgain, Refuse
<1>2. Current \in Segment /\ Tail(queue) \in Seq(Segment)
  BY <1>1, TypeFacts DEF HubInv
<1>3. Types' /\ FilesInOrder' /\ LogIsFiles'
  BY <1>1, <1>2 DEF HubInv, Types, FilesInOrder, LogIsFiles, Running, Pending
<1>4. ToldIsFiled'
  <2>1. CASE acked' = acked
    BY <2>1, <1>1 DEF HubInv, ToldIsFiled, Running
  <2>2. CASE acked' = acked \cup {Current} /\ Duplicate
    <3> DEFINE d == Current.device
    <3>1. d \in Device /\ Current.seq \in 1..Len(log[d]) /\ log[d][Current.seq] = Current.body
      BY <2>2, <1>2, TypeFacts DEF Duplicate, Logged, HubInv, Segment
    <3>2. Current.seq <= Len(file[d]) /\ file[d][Current.seq].body = Current.body
      BY <3>1, <1>1, TypeFacts DEF HubInv, LogIsFiles, Running, Pending
    <3>3. file[d][Current.seq].seq = Current.seq /\ file[d][Current.seq] \in Line
      BY <3>1, <3>2, <1>1, TypeFacts DEF HubInv, FilesInOrder, Running, Whole
    <3>4. file[d][Current.seq] = [seq |-> Current.seq, body |-> Current.body]
      BY <3>2, <3>3, LineFacts
    <3> HIDE DEF d
    <3>5. \A s \in acked \cup served :
            /\ s.seq <= Len(file[s.device]) /\ s.seq <= Len(log[s.device])
            /\ file[s.device][s.seq] = [seq |-> s.seq, body |-> s.body]
      BY <1>1 DEF HubInv, ToldIsFiled, Running
    <3>6. Current.seq <= Len(log[d])
      BY <3>1, TypeFacts DEF HubInv
    <3> QED
      BY <3>2, <3>4, <3>5, <3>6, <2>2, <1>1 DEF ToldIsFiled, d
  <2> QED
    BY <2>1, <2>2, <1>1
<1> QED
  BY <1>3, <1>4 DEF HubInv

LEMMA WriteStep == HubInv /\ Write => HubInv'
<1> SUFFICES ASSUME HubInv, Write PROVE HubInv'
  OBVIOUS
<1> DEFINE d == Current.device
<1>1. /\ queue # <<>> /\ phase = "open" /\ phase' = "written"
      /\ UNCHANGED <<log, queue, acked, served, crashes>>
      /\ Current.seq = Len(log[d]) + 1
  BY DEF Write, Extends, Logged
<1>2. /\ Current \in Segment /\ d \in Device /\ CurrentLine \in Line
      /\ CurrentLine.seq = Current.seq /\ CurrentLine.body = Current.body
      /\ file[d] \in Seq(Line) /\ log[d] \in Seq(Body) /\ Len(log[d]) \in Nat
  BY <1>1, TypeFacts DEF HubInv, Segment
<1>3. file' = [file EXCEPT ![d] = Append(file[d], CurrentLine)] /\ half' = [half EXCEPT ![d] = FALSE]
  BY <1>1, <1>2 DEF Write, Appended, HubInv, FilesInOrder, Running
<1>4. Len(file[d]) = Len(log[d])
  BY <1>1, <1>2 DEF HubInv, LogIsFiles, Running, Pending
<1>5. /\ file'[d] \in Seq(Line)
      /\ Len(file'[d]) = Len(log[d]) + 1
      /\ \A i \in 1..Len(log[d]) : file'[d][i] = file[d][i]
      /\ file'[d][Len(log[d]) + 1] = CurrentLine
      /\ \A e \in Device \ {d} : file'[e] = file[e] /\ half'[e] = half[e]
      /\ half'[d] = FALSE
  <2> HIDE DEF d
  <2>1. file \in [Device -> Seq(Line)] /\ half \in [Device -> BOOLEAN]
    BY DEF HubInv, Types
  <2>2. file'[d] = Append(file[d], CurrentLine) /\ half'[d] = FALSE
        /\ \A e \in Device \ {d} : file'[e] = file[e] /\ half'[e] = half[e]
    BY <2>1, <1>2, <1>3
  <2> QED
    BY <2>2, <1>2, <1>4, AppendProperties
<1> HIDE DEF d
<1>6. Types'
  <2>1. file' \in [Device -> Seq(Line)] /\ half' \in [Device -> BOOLEAN]
    BY <1>2, <1>3, <1>5 DEF HubInv, Types
  <2> QED
    BY <1>1, <2>1 DEF HubInv, Types
<1>7. FilesInOrder'
  <2>1. \A e \in Device : Whole(file[e]) /\ half[e] = FALSE
    BY <1>1 DEF HubInv, FilesInOrder, Running
  <2>2. Whole(file'[d])
    <3>1. \A i \in 1..Len(log[d]) : file'[d][i].seq = i
      BY <2>1, <1>2, <1>4, <1>5 DEF Whole
    <3>2. file'[d][Len(log[d]) + 1].seq = Len(log[d]) + 1
      BY <1>1, <1>2, <1>5
    <3> QED
      BY <3>1, <3>2, <1>2, <1>5 DEF Whole
  <2>3. \A e \in Device : Whole(file'[e]) /\ half'[e] = FALSE
    BY <2>1, <2>2, <1>5
  <2> QED
    BY <2>3, <1>1 DEF FilesInOrder, Whole, InOrder
<1>8. LogIsFiles'
  <2>1. Current' = Current /\ CurrentLine' = CurrentLine
    BY <1>1 DEF Current, CurrentLine
  <2>2. ASSUME NEW e \in Device
        PROVE  /\ Len(file'[e]) = IF e = d THEN Len(log'[e]) + 1 ELSE Len(log'[e])
               /\ \A i \in 1..Len(log'[e]) : log'[e][i] = file'[e][i].body
               /\ e = d => file'[e][Len(file'[e])] = CurrentLine
    <3>1. /\ Len(file[e]) = Len(log[e])
          /\ \A i \in 1..Len(log[e]) : log[e][i] = file[e][i].body
      BY <1>1 DEF HubInv, LogIsFiles, Running, Pending
    <3> QED
      BY <3>1, <1>1, <1>2, <1>4, <1>5
  <2>3. \A e : Pending(e)' <=> e = d
    BY <1>1, <2>1 DEF Pending, d
  <2> QED
    BY <2>1, <2>2, <2>3 DEF LogIsFiles
<1>9. ToldIsFiled'
  <2> SUFFICES ASSUME NEW s \in acked \cup served
               PROVE  /\ s.seq <= Len(file'[s.device])
                      /\ file'[s.device][s.seq] = [seq |-> s.seq, body |-> s.body]
                      /\ s.seq <= Len(log[s.device])
    BY <1>1 DEF ToldIsFiled
  <2>1. s.device \in Device /\ s.seq \in 1..MaxSeq
    BY DEF HubInv, Types, Segment
  <2>2. /\ s.seq <= Len(file[s.device]) /\ s.seq <= Len(log[s.device])
        /\ file[s.device][s.seq] = [seq |-> s.seq, body |-> s.body]
    BY <1>1 DEF HubInv, ToldIsFiled, Running
  <2>3. CASE s.device # d
    BY <2>1, <2>2, <2>3, <1>5
  <2>4. CASE s.device = d
    <3>1. s.seq \in 1..Len(log[d])
      BY <2>1, <2>2, <2>4, <1>2
    <3>2. file'[d][s.seq] = file[d][s.seq] /\ s.seq <= Len(file'[d])
      BY <3>1, <1>2, <1>5
    <3> QED
      BY <2>2, <2>4, <3>2
  <2> QED
    BY <2>3, <2>4
<1> QED
  BY <1>6, <1>7, <1>8, <1>9 DEF HubInv

LEMMA SyncStep == HubInv /\ Sync => HubInv'
<1> SUFFICES ASSUME HubInv, Sync PROVE HubInv'
  OBVIOUS
<1>1. /\ phase = "written" /\ phase' = "synced"
      /\ UNCHANGED <<file, half, log, queue, acked, served, crashes>>
  BY DEF Sync
<1>2. Types' /\ FilesInOrder' /\ ToldIsFiled'
  BY <1>1 DEF HubInv, Types, FilesInOrder, ToldIsFiled, Running
<1>3. LogIsFiles'
  <2>1. Current' = Current /\ CurrentLine' = CurrentLine
    BY <1>1 DEF Current, CurrentLine
  <2> QED
    BY <2>1, <1>1 DEF HubInv, LogIsFiles, Running, Pending
<1> QED
  BY <1>2, <1>3 DEF HubInv

\* The file's last line becomes the log's last segment.
LEMMA ApplyStep == HubInv /\ Apply => HubInv'
<1> SUFFICES ASSUME HubInv, Apply PROVE HubInv'
  OBVIOUS
<1> DEFINE d == Current.device
<1>1. /\ queue # <<>> /\ phase = "synced" /\ phase' = "open"
      /\ queue' = Tail(queue) /\ acked' = acked \cup {Current}
      /\ log' = [log EXCEPT ![d] = Append(@, Current.body)]
      /\ UNCHANGED <<file, half, served, crashes>>
  BY DEF Apply, HubInv, Types
<1>2. /\ Current \in Segment /\ d \in Device /\ Tail(queue) \in Seq(Segment)
      /\ Current.body \in Body /\ Current.seq \in 1..MaxSeq
      /\ CurrentLine.seq = Current.seq /\ CurrentLine.body = Current.body
      /\ file[d] \in Seq(Line) /\ log[d] \in Seq(Body) /\ Len(log[d]) \in Nat
  BY <1>1, TypeFacts DEF HubInv, Segment
<1>3. /\ Len(file[d]) = Len(log[d]) + 1 /\ file[d][Len(log[d]) + 1] = CurrentLine
      /\ \A i \in 1..Len(log[d]) : log[d][i] = file[d][i].body
  BY <1>1, <1>2 DEF HubInv, LogIsFiles, Running, Pending
<1>4. \A e \in Device : Whole(file[e]) /\ half[e] = FALSE
  BY <1>1 DEF HubInv, FilesInOrder, Running
<1>5. Current.seq = Len(log[d]) + 1
  BY <1>2, <1>3, <1>4 DEF Whole
<1> HIDE DEF d
<1>6. /\ log'[d] \in Seq(Body)
      /\ Len(log'[d]) = Len(log[d]) + 1
      /\ \A i \in 1..Len(log[d]) : log'[d][i] = log[d][i]
      /\ log'[d][Len(log[d]) + 1] = Current.body
      /\ \A e \in Device \ {d} : log'[e] = log[e]
      /\ log' \in [Device -> Seq(Body)]
  <2>1. log \in [Device -> Seq(Body)]
    BY DEF HubInv, Types
  <2>2. log'[d] = Append(log[d], Current.body) /\ \A e \in Device \ {d} : log'[e] = log[e]
    BY <2>1, <1>1, <1>2
  <2>3. log'[d] \in Seq(Body)
    BY <2>2, <1>2, AppendProperties
  <2> QED
    BY <2>1, <2>2, <2>3, <1>1, <1>2, AppendProperties
<1>7. Types'
  BY <1>1, <1>2, <1>6 DEF HubInv, Types
<1>8. FilesInOrder'
  BY <1>1, <1>4 DEF HubInv, FilesInOrder
<1>9. LogIsFiles'
  <2>1. ASSUME NEW e \in Device
        PROVE  /\ Len(file[e]) = Len(log'[e])
               /\ \A i \in 1..Len(log'[e]) : log'[e][i] = file[e][i].body
    <3>1. CASE e = d
      BY <3>1, <1>2, <1>3, <1>6
    <3>2. CASE e # d
      BY <3>2, <1>1, <1>6 DEF HubInv, LogIsFiles, Running, Pending, d
    <3> QED
      BY <3>1, <3>2
  <2> QED
    BY <2>1, <1>1 DEF LogIsFiles, Pending
<1>10. ToldIsFiled'
  <2> SUFFICES ASSUME NEW s \in acked \cup {Current} \cup served
               PROVE  /\ s.seq <= Len(file[s.device]) /\ s.seq <= Len(log'[s.device])
                      /\ file[s.device][s.seq] = [seq |-> s.seq, body |-> s.body]
    BY <1>1 DEF ToldIsFiled
  <2>1. CASE s = Current
    BY <2>1, <1>2, <1>3, <1>5, <1>6 DEF d, CurrentLine
  <2>2. CASE s \in acked \cup served
    <3>1. /\ s.seq <= Len(file[s.device]) /\ s.seq <= Len(log[s.device])
          /\ file[s.device][s.seq] = [seq |-> s.seq, body |-> s.body]
      BY <2>2, <1>1 DEF HubInv, ToldIsFiled, Running
    <3>2. s.device \in Device /\ s.seq \in Nat
      <4>1. acked \cup served \subseteq Segment
        BY DEF HubInv, Types
      <4> QED
        BY <2>2, <4>1 DEF Segment
    <3>3. CASE s.device = d
      <4>1. Len(log[d]) <= Len(log'[d]) /\ s.seq <= Len(log[d])
        BY <3>1, <3>3, <1>2, <1>6
      <4> QED
        BY <4>1, <3>1, <3>2, <3>3, <1>2, <1>6
    <3>4. CASE s.device # d
      BY <3>1, <3>2, <3>4, <1>6
    <3> QED
      BY <3>3, <3>4
  <2> QED
    BY <2>1, <2>2
<1> QED
  BY <1>7, <1>8, <1>9, <1>10 DEF HubInv

\* A pull reads the log in memory, at any step of a push.
LEMMA PullStep ==
  ASSUME HubInv, NEW have \in Vector, Pull(have)
  PROVE  /\ HubInv'
         /\ \A s \in served' : s \in served \/
              (s \in Segment /\ s.seq \in 1..Len(log[s.device]) /\ log[s.device][s.seq] = s.body)
<1>1. /\ Running /\ UNCHANGED <<file, half, log, queue, phase, acked, crashes>>
      /\ served' = served \cup
           UNION {{[device |-> d, seq |-> i, body |-> log[d][i]] :
                     i \in (have[d] + 1)..Len(log[d])} : d \in Device}
  BY DEF Pull, Running
<1>2. ASSUME NEW d \in Device, NEW i \in (have[d] + 1)..Len(log[d])
      PROVE  /\ i \in 1..Len(log[d]) /\ i \in 1..MaxSeq /\ log[d][i] \in Body
             /\ i <= Len(file[d])
             /\ file[d][i] = [seq |-> i, body |-> log[d][i]]
  <2>1. /\ log[d] \in Seq(Body) /\ Len(log[d]) \in Nat
        /\ file[d] \in Seq(Line) /\ Len(file[d]) \in Nat
    BY TypeFacts DEF HubInv
  <2>2. have[d] \in Nat
    BY HubBoundAssumption DEF Vector
  <2>3. i \in 1..Len(log[d])
    BY <2>1, <2>2
  <2>4. Len(log[d]) <= Len(file[d]) /\ log[d][i] = file[d][i].body
    BY <2>3, <1>1, LogBehindFiles
  <2>5. file[d][i].seq = i /\ file[d][i] \in Line
    BY <2>1, <2>3, <2>4, <1>1 DEF HubInv, FilesInOrder, Whole
  <2> QED
    BY <2>1, <2>3, <2>4, <2>5, LineFacts
<1>3. ASSUME NEW s \in served', s \notin served
      PROVE  /\ s \in Segment /\ s.seq \in 1..Len(log[s.device]) /\ log[s.device][s.seq] = s.body
             /\ s.seq <= Len(file[s.device])
             /\ file[s.device][s.seq] = [seq |-> s.seq, body |-> s.body]
  <2>1. PICK d \in Device : \E i \in (have[d] + 1)..Len(log[d]) :
          s = [device |-> d, seq |-> i, body |-> log[d][i]]
    BY <1>1, <1>3
  <2> QED
    BY <2>1, <1>2 DEF Segment
<1>4. served' \subseteq Segment
  BY <1>3 DEF HubInv, Types
<1>5. Types' /\ FilesInOrder' /\ LogIsFiles'
  <2>1. Current' = Current /\ CurrentLine' = CurrentLine
    BY <1>1 DEF Current, CurrentLine
  <2> QED
    BY <2>1, <1>1, <1>4 DEF HubInv, Types, FilesInOrder, LogIsFiles, Running, Pending
<1>6. ToldIsFiled'
  <2> SUFFICES ASSUME NEW s \in acked \cup served'
               PROVE  /\ s.seq <= Len(file[s.device]) /\ s.seq <= Len(log[s.device])
                      /\ file[s.device][s.seq] = [seq |-> s.seq, body |-> s.body]
    BY <1>1 DEF ToldIsFiled
  <2>1. CASE s \in acked \cup served
    BY <2>1, <1>1 DEF HubInv, ToldIsFiled
  <2>2. CASE s \in served' /\ s \notin served
    <3>1. s.device \in Device
      BY <2>2, <1>3 DEF Segment
    <3>2. Len(log[s.device]) \in Nat
      BY <3>1, TypeFacts DEF HubInv
    <3> QED
      BY <3>2, <2>2, <1>3
  <2> QED
    BY <2>1, <2>2
<1> QED
  BY <1>3, <1>5, <1>6 DEF HubInv

\* A crash takes at most the line of the push that was running, and that one was told to nobody.
LEMMA CrashStep == HubInv /\ Crash => HubInv'
<1> SUFFICES ASSUME HubInv, Crash PROVE HubInv'
  OBVIOUS
<1>1. /\ Running /\ crashes < MaxCrashes /\ phase' = "closed" /\ queue' = <<>>
      /\ crashes' = crashes + 1 /\ log' = [d \in Device |-> <<>>]
      /\ UNCHANGED <<acked, served>>
  BY DEF Crash, Running
<1>2. \A d \in Device : /\ file[d] \in Seq(Line) /\ Len(file[d]) \in Nat /\ Whole(file[d])
                        /\ log[d] \in Seq(Body) /\ Len(log[d]) \in Nat /\ Len(log[d]) <= Len(file[d])
  BY <1>1, TypeFacts, LogBehindFiles DEF HubInv, FilesInOrder
<1>3. ASSUME /\ file' \in [Device -> Seq(Line)] /\ half' \in [Device -> BOOLEAN]
             /\ \A d \in Device : /\ InOrder(file'[d])
                                  /\ Len(log[d]) <= Len(file'[d])
                                  /\ \A i \in 1..Len(log[d]) : file'[d][i] = file[d][i]
      PROVE  HubInv'
  <2>1. Types'
    BY <1>1, <1>3, HubBoundAssumption DEF HubInv, Types
  <2>2. FilesInOrder' /\ LogIsFiles'
    BY <1>1, <1>3 DEF FilesInOrder, LogIsFiles, Running
  <2>3. ToldIsFiled'
    <3> SUFFICES ASSUME NEW s \in acked \cup served
                 PROVE  /\ s.seq <= Len(file'[s.device])
                        /\ file'[s.device][s.seq] = [seq |-> s.seq, body |-> s.body]
      BY <1>1 DEF ToldIsFiled, Running
    <3>1. s.device \in Device /\ s.seq \in 1..MaxSeq
      BY DEF HubInv, Types, Segment
    <3>2. /\ s.seq <= Len(log[s.device])
          /\ file[s.device][s.seq] = [seq |-> s.seq, body |-> s.body]
      BY <1>1 DEF HubInv, ToldIsFiled
    <3>3. Len(file'[s.device]) \in Nat
      BY <3>1, <1>3
    <3> QED
      BY <3>1, <3>2, <3>3, <1>2, <1>3
  <2> QED
    BY <2>1, <2>2, <2>3 DEF HubInv
<1>4. CASE UNCHANGED <<file, half>>
  BY <1>2, <1>3, <1>4 DEF HubInv, Types, FilesInOrder
<1> DEFINE d == Current.device
           n == Len(file[d])
<1>5. CASE /\ phase = "written"
           /\ \/ file' = [file EXCEPT ![d] = SubSeq(@, 1, n - 1)] /\ UNCHANGED half
              \/ file' = [file EXCEPT ![d][n] = TornLine] /\ half' = [half EXCEPT ![d] = TRUE]
  <2>1. d \in Device
    BY <1>5, TypeFacts DEF HubInv, Types, Segment
  <2>2. n = Len(log[d]) + 1
    BY <2>1, <1>1, <1>5 DEF HubInv, LogIsFiles, Pending
  <2>3. file \in [Device -> Seq(Line)] /\ half \in [Device -> BOOLEAN] /\ half' \in [Device -> BOOLEAN]
    BY <1>5 DEF HubInv, Types
  <2> HIDE DEF d
  <2> HIDE DEF n
  <2>4. \A e \in Device \ {d} : file'[e] = file[e]
    BY <2>1, <2>3, <1>5
  <2>5. /\ file'[d] \in Seq(Line) /\ InOrder(file'[d]) /\ Len(log[d]) <= Len(file'[d])
        /\ \A i \in 1..Len(log[d]) : file'[d][i] = file[d][i]
    <3>1. file[d] \in Seq(Line) /\ Whole(file[d]) /\ Len(log[d]) \in Nat /\ n \in 1..Len(file[d])
          /\ n = Len(file[d])
      BY <2>1, <2>2, <1>2 DEF n
    <3>2. CASE file' = [file EXCEPT ![d] = SubSeq(@, 1, n - 1)]
      <4>1. file'[d] = SubSeq(file[d], 1, n - 1)
        BY <3>2, <2>1, <2>3
      <4>2. \A i \in 1..(n - 1) : file[d][i] \in Line
        BY <3>1, ElementOfSeq
      <4>3. /\ file'[d] \in Seq(Line) /\ Len(file'[d]) = n - 1
            /\ \A i \in 1..(n - 1) : file'[d][i] = file[d][i]
        BY <4>1, <4>2, <3>1
      <4> QED
        BY <4>3, <3>1, <2>2 DEF Whole, InOrder
    <3>3. CASE file' = [file EXCEPT ![d][n] = TornLine]
      <4>1. file'[d] = [file[d] EXCEPT ![n] = TornLine]
        BY <3>3, <2>1, <2>3
      <4>2. TornLine \in Line
        BY DEF TornLine, Line
      <4>3. /\ file'[d] \in Seq(Line) /\ Len(file'[d]) = n
            /\ \A i \in 1..n : file'[d][i] = IF i = n THEN TornLine ELSE file[d][i]
        BY <4>1, <4>2, <3>1, ExceptSeq
      <4> QED
        BY <4>3, <3>1, <2>2 DEF Whole, InOrder
    <3> QED
      BY <3>2, <3>3, <1>5
  <2>6. file' \in [Device -> Seq(Line)]
    BY <2>3, <2>5, <1>5
  <2> QED
    BY <2>3, <2>4, <2>5, <2>6, <1>2, <1>3 DEF Whole, InOrder
<1> QED
  BY <1>4, <1>5 DEF Crash

LEMMA HubNext == HubInv /\ [Next]_vars => HubInv'
<1> SUFFICES ASSUME HubInv, [Next]_vars PROVE HubInv'
  OBVIOUS
<1>1. CASE UNCHANGED vars
  BY <1>1 DEF vars, HubInv, Types, FilesInOrder, LogIsFiles, ToldIsFiled, Running, Pending, Current, CurrentLine
<1>2. CASE Next
  BY <1>2, OpenStep, PushStep, AnsweredStep, WriteStep, SyncStep, ApplyStep, PullStep, CrashStep DEF Next
<1> QED
  BY <1>1, <1>2

LEMMA HubInvariant == Spec => []HubInv
BY HubInit, HubNext, PTL DEF Spec

(* The log holds whole segments, under numbers a device gave them, and a push *)
(* is only ever under way for a request that is waiting (log.ts, hub.ts).     *)
THEOREM HubTypes == Spec => []TypeOK
<1>1. HubInv => TypeOK
  <2> SUFFICES ASSUME HubInv, NEW d \in Device
               PROVE  Len(log[d]) <= MaxSeq
    BY TypeFacts DEF TypeOK, HubInv, Types
  <2>1. Len(log[d]) \in Nat /\ file[d] \in Seq(Line) /\ Len(file[d]) \in Nat
    BY TypeFacts DEF HubInv
  <2>2. CASE Running /\ Len(log[d]) # 0
    <3>1. Len(log[d]) <= Len(file[d]) /\ Whole(file[d])
      BY <2>2, LogBehindFiles DEF HubInv, FilesInOrder
    <3>2. file[d][Len(log[d])].seq = Len(log[d]) /\ file[d][Len(log[d])] \in Line
      BY <2>1, <2>2, <3>1 DEF Whole
    <3> QED
      BY <2>1, <3>2, LineFacts, HubBoundAssumption
  <2>3. CASE Len(log[d]) = 0
    BY <2>3, HubBoundAssumption
  <2>4. CASE ~Running
    BY <2>4, HubBoundAssumption DEF HubInv, Types, Running
  <2> QED
    BY <2>2, <2>3, <2>4
<1> QED
  BY <1>1, HubInvariant, PTL

-----------------------------------------------------------------------------
(* What survives *)

(* Everything the hub acknowledged to a device or gave to a reader is what a  *)
(* reopening finds, at any moment, however often the process stopped between  *)
(* the steps of a push (sync-segment-store.ts:5-9, hub.ts:43-44).             *)
THEOREM AckedSurvives == Spec => []AckedKept
<1>1. HubInv => AckedKept
  <2> SUFFICES ASSUME HubInv, NEW s \in acked
               PROVE  s.seq <= Len(Durable[s.device]) /\ Durable[s.device][s.seq] = s.body
    BY DEF AckedKept
  <2>1. s.device \in Device /\ s.seq \in 1..MaxSeq
    BY DEF HubInv, Types, Segment
  <2>2. file[s.device] \in Seq(Line) /\ InOrder(file[s.device])
    BY <2>1, TypeFacts DEF HubInv, FilesInOrder
  <2>3. s.seq <= Len(file[s.device]) /\ file[s.device][s.seq] = [seq |-> s.seq, body |-> s.body]
    BY DEF HubInv, ToldIsFiled
  <2>4. s.seq \in 1..Good(file[s.device])
    BY <2>1, <2>2, <2>3 DEF Good, TornLine
  <2>5. Durable[s.device] = [i \in 1..Good(file[s.device]) |-> file[s.device][i].body]
        /\ Len(Durable[s.device]) = Good(file[s.device])
    BY <2>1, <2>2, CleanIsWhole DEF Durable
  <2>6. Good(file[s.device]) \in Nat
    BY <2>2, GoodIsClean
  <2> QED
    BY <2>1, <2>3, <2>4, <2>5, <2>6
<1> QED
  BY <1>1, HubInvariant, PTL

-----------------------------------------------------------------------------
(* The refinement *)

SettledLength(d) ==
  IF phase = "written" /\ d = Current.device THEN Len(log[d]) ELSE Good(file[d])

SettledFacts ==
  \A d \in Device :
    /\ SettledLength(d) \in 0..Len(file[d]) /\ SettledLength(d) \in Nat
    /\ \A i \in 1..SettledLength(d) : file[d][i].seq = i /\ file[d][i].body \in Body
    /\ Settled[d] = [i \in 1..SettledLength(d) |-> file[d][i].body]
    /\ Settled[d] \in Seq(Body) /\ Len(Settled[d]) = SettledLength(d)

LEMMA SettledIs == HubInv => SettledFacts
<1> SUFFICES ASSUME HubInv, NEW d \in Device
             PROVE  /\ SettledLength(d) \in 0..Len(file[d]) /\ SettledLength(d) \in Nat
                    /\ \A i \in 1..SettledLength(d) : file[d][i].seq = i /\ file[d][i].body \in Body
                    /\ Settled[d] = [i \in 1..SettledLength(d) |-> file[d][i].body]
                    /\ Settled[d] \in Seq(Body) /\ Len(Settled[d]) = SettledLength(d)
  BY DEF SettledFacts
<1> DEFINE n == SettledLength(d)
<1>1. /\ file[d] \in Seq(Line) /\ Len(file[d]) \in Nat /\ InOrder(file[d])
      /\ log[d] \in Seq(Body) /\ Len(log[d]) \in Nat
  BY TypeFacts DEF HubInv, FilesInOrder
<1>2. /\ Durable[d] = [i \in 1..Good(file[d]) |-> file[d][i].body]
      /\ Durable[d] \in Seq(Body) /\ Len(Durable[d]) = Good(file[d])
      /\ Good(file[d]) \in 0..Len(file[d])
      /\ \A i \in 1..Good(file[d]) : file[d][i].seq = i /\ file[d][i].body \in Body
  BY <1>1, CleanIsWhole, GoodIsClean DEF Durable
<1>3. CASE phase = "written" /\ d = Current.device
  <2>1. Len(log[d]) <= Len(file[d]) /\ Whole(file[d])
    BY <1>3, LogBehindFiles DEF HubInv, FilesInOrder, Running
  <2>2. Good(file[d]) = Len(file[d])
    BY <2>1, <1>1, GoodIsClean
  <2>3. Settled[d] = SubSeq(Durable[d], 1, Len(log[d])) /\ n = Len(log[d])
    BY <1>3 DEF Settled, Logged, SettledLength
  <2>4. \A i \in 1..Len(log[d]) : Durable[d][i] = file[d][i].body
    BY <2>1, <2>2, <1>1, <1>2
  <2> HIDE DEF n
  <2>5. Settled[d] = [i \in 1..n |-> file[d][i].body]
    BY <2>1, <2>2, <2>3, <2>4, <1>1, <1>2
  <2>6. Settled[d] \in Seq(Body) /\ Len(Settled[d]) = n
    BY <2>1, <2>2, <2>3, <2>5, <1>1, <1>2
  <2> QED
    BY <2>1, <2>2, <2>3, <2>5, <2>6, <1>1, <1>2 DEF n
<1>4. CASE ~(phase = "written" /\ d = Current.device)
  BY <1>1, <1>2, <1>4 DEF Settled, SettledLength
<1> QED
  BY <1>3, <1>4

LEMMA SettledIsNext == HubInv' => SettledFacts'
BY SettledIs, PTL

LEMMA SettledIsFunction == Settled = [d \in Device |-> Settled[d]]
BY DEF Settled

Told == acked \cup served

\* Nothing told was not settled when it was told.
LEMMA ToldStep ==
  ASSUME Settled' = Settled, Told \subseteq Told', HubInv,
         \A s \in Told' \ Told :
           /\ s \in Segment /\ s.seq <= SettledLength(s.device)
           /\ file[s.device][s.seq].body = s.body
  PROVE  Promise!Next
<1>1. ASSUME NEW s \in Told' \ Told
      PROVE  s \in UNION {Promise!Held(d) : d \in Device}
  <2>1. /\ s.device \in Device /\ s.seq \in Nat \ {0} /\ s.seq <= SettledLength(s.device)
        /\ s = [device |-> s.device, seq |-> s.seq, body |-> s.body]
    BY <1>1 DEF Segment
  <2>2. /\ SettledLength(s.device) \in Nat
        /\ Settled[s.device] = [i \in 1..SettledLength(s.device) |-> file[s.device][i].body]
    BY <2>1, SettledIs DEF SettledFacts
  <2>3. s.seq \in DOMAIN Settled[s.device] /\ Settled[s.device][s.seq] = s.body
    BY <2>1, <2>2, <1>1
  <2>4. s \in Promise!Held(s.device)
    BY <2>1, <2>3 DEF Promise!Held
  <2> QED
    BY <2>1, <2>4
<1>2. Told' \subseteq Told \cup UNION {Promise!Held(d) : d \in Device}
  BY <1>1
<1> QED
  BY <1>2 DEF Promise!Next, Promise!Tell, Told

SameSettled(d) ==
  /\ SettledLength(d)' = SettledLength(d)
  /\ \A i \in 1..SettledLength(d) : file'[d][i] = file[d][i]

LEMMA SameSettledIsSame ==
  ASSUME HubInv, HubInv', NEW d \in Device, SameSettled(d)
  PROVE  Settled'[d] = Settled[d]
<1> DEFINE n == SettledLength(d)
<1>1. Settled[d] = [i \in 1..n |-> file[d][i].body]
  BY SettledIs DEF SettledFacts
<1>2. Settled'[d] = [i \in 1..n' |-> file'[d][i].body]
  BY SettledIsNext DEF SettledFacts
<1>3. n' = n /\ \A i \in 1..n : file'[d][i] = file[d][i]
  BY DEF SameSettled
<1> HIDE DEF n
<1> QED
  BY <1>1, <1>2, <1>3

LEMMA SettledKept ==
  ASSUME HubInv, HubInv', \A d \in Device : SameSettled(d)
  PROVE  Settled' = Settled
<1>1. ASSUME NEW d \in Device
      PROVE  Settled'[d] = Settled[d]
  BY SameSettledIsSame
<1>2. Settled' = [d \in Device |-> Settled'[d]]
  BY DEF Settled
<1> QED
  BY <1>1, <1>2, SettledIsFunction

LEMMA SettledGrows ==
  ASSUME HubInv, HubInv', NEW d \in Device, Told' = Told,
         \A e \in Device \ {d} : SameSettled(e),
         SettledLength(d)' = SettledLength(d) + 1,
         \A i \in 1..SettledLength(d) : file'[d][i] = file[d][i]
  PROVE  Promise!Next
<1> DEFINE n == SettledLength(d)
           body == file'[d][n + 1].body
<1>1. /\ n \in Nat
      /\ Settled[d] = [i \in 1..n |-> file[d][i].body]
      /\ Settled[d] \in Seq(Body) /\ Len(Settled[d]) = n
  BY SettledIs DEF SettledFacts
<1>2. /\ Settled'[d] = [i \in 1..(n + 1) |-> file'[d][i].body]
      /\ Settled'[d] \in Seq(Body) /\ Len(Settled'[d]) = n + 1
      /\ \A i \in 1..(n + 1) : file'[d][i].body \in Body
  BY SettledIsNext DEF SettledFacts
<1>3. \A i \in 1..n : file'[d][i] = file[d][i]
  OBVIOUS
<1> HIDE DEF n
<1>4. body \in Body
  BY <1>1, <1>2
<1> HIDE DEF body
<1>5. Settled'[d] = Append(Settled[d], body)
  <2>1. /\ Append(Settled[d], body) \in Seq(Body) /\ Len(Append(Settled[d], body)) = n + 1
        /\ \A i \in 1..n : Append(Settled[d], body)[i] = Settled[d][i]
        /\ Append(Settled[d], body)[n + 1] = body
    BY <1>1, <1>4, AppendProperties
  <2>2. ASSUME NEW i \in 1..(n + 1)
        PROVE  Settled'[d][i] = Append(Settled[d], body)[i]
    <3>1. Settled'[d][i] = file'[d][i].body
      BY <1>2
    <3>2. CASE i = n + 1
      BY <3>1, <3>2, <2>1 DEF body
    <3>3. CASE i # n + 1
      BY <3>1, <3>3, <2>1, <1>1, <1>3
    <3> QED
      BY <3>2, <3>3
  <2> QED
    BY <2>1, <2>2, <1>2, SeqEqual
<1>6. ASSUME NEW e \in Device \ {d}
      PROVE  Settled'[e] = Settled[e]
  BY SameSettledIsSame
<1>7. Settled' = [e \in Device |-> Settled'[e]] /\ Settled = [e \in Device |-> Settled[e]]
  BY DEF Settled
<1>8. Settled' = [Settled EXCEPT ![d] = Append(@, body)]
  BY <1>5, <1>6, <1>7
<1> QED
  BY <1>4, <1>8 DEF Promise!Next, Promise!Extend, Told

\* What counts of a file does not change while the file does not, and no push is past its write.
LEMMA FileKept ==
  ASSUME NEW d \in Device, file' = file,
         ~(phase = "written" /\ d = Current.device),
         ~(phase = "written" /\ d = Current.device)'
  PROVE  SameSettled(d)
BY DEF SameSettled, SettledLength

LEMMA FilesWhole ==
  ASSUME HubInv, Running, NEW d \in Device
  PROVE  Good(file[d]) = Len(file[d]) /\ Len(file[d]) \in Nat
BY TypeFacts, GoodIsClean DEF HubInv, FilesInOrder

LEMMA LoggedIsSettled ==
  ASSUME HubInv, Running, NEW d \in Device
  PROVE  Len(log[d]) <= SettledLength(d)
BY LogBehindFiles, FilesWhole, TypeFacts DEF SettledLength, HubInv

LEMMA OpenImplements ==
  ASSUME HubInv, HubInv', Open
  PROVE  Promise!Next
<1>1. ASSUME NEW d \in Device
      PROVE  SameSettled(d)
  <2>1. file[d] \in Seq(Line) /\ InOrder(file[d]) /\ file'[d] = Clean(file[d])
    BY TypeFacts DEF HubInv, FilesInOrder, Open
  <2>2. /\ Len(file'[d]) = Good(file[d])
        /\ \A i \in 1..Good(file[d]) : file'[d][i] = file[d][i]
        /\ file'[d] \in Seq(Line) /\ Whole(file'[d])
    BY <2>1, CleanIsWhole
  <2>3. Good(file'[d]) = Len(file'[d])
    BY <2>2, GoodIsClean DEF Whole, InOrder
  <2> QED
    BY <2>2, <2>3 DEF SameSettled, SettledLength, Open
<1> QED
  BY <1>1, SettledKept, ToldStep DEF Open, Told

LEMMA PushImplements ==
  ASSUME HubInv, HubInv', NEW segment \in Segment, Push(segment)
  PROVE  Promise!Next
<1>1. phase = "written" => Current' = Current
  BY HeadTailAppend DEF Push, Current, HubInv, Types
<1>2. \A d \in Device : SameSettled(d)
  BY <1>1 DEF Push, SameSettled, SettledLength
<1> QED
  BY <1>2, SettledKept, ToldStep DEF Push, Told

LEMMA AnswerImplements ==
  ASSUME HubInv, HubInv', AckAgain \/ Refuse
  PROVE  Promise!Next
<1>1. phase = "open" /\ phase' = "open" /\ file' = file /\ served' = served /\ queue # <<>>
      /\ (acked' = acked \/ (acked' = acked \cup {Current} /\ Duplicate))
  BY DEF AckAgain, Refuse
<1>2. Settled' = Settled
  BY <1>1, FileKept, SettledKept
<1>3. ASSUME NEW s \in Told' \ Told
      PROVE  /\ s \in Segment /\ s.seq <= SettledLength(s.device)
             /\ file[s.device][s.seq].body = s.body
  <2>1. s = Current /\ Duplicate
    BY <1>1, <1>3 DEF Told
  <2>2. s \in Segment /\ s.device \in Device /\ s.seq \in Nat \ {0}
        /\ s.seq <= Len(log[s.device]) /\ log[s.device][s.seq] = s.body
    BY <1>1, <2>1, TypeFacts DEF HubInv, Segment, Duplicate, Logged
  <2>3. /\ Len(log[s.device]) <= SettledLength(s.device) /\ SettledLength(s.device) \in Nat
        /\ Len(log[s.device]) \in Nat
        /\ \A i \in 1..Len(log[s.device]) : log[s.device][i] = file[s.device][i].body
    BY <1>1, <2>2, LoggedIsSettled, LogBehindFiles, SettledIs, TypeFacts DEF Running, HubInv, SettledFacts
  <2> QED
    BY <2>2, <2>3
<1> QED
  BY <1>1, <1>2, <1>3, ToldStep DEF Told

\* A line just written may still be lost: it is not promised yet.
LEMMA WriteImplements ==
  ASSUME HubInv, HubInv', Write
  PROVE  Promise!Next
<1> DEFINE d == Current.device
<1>1. /\ queue # <<>> /\ phase = "open" /\ phase' = "written" /\ Current' = Current
      /\ UNCHANGED <<log, queue, acked, served, crashes>>
      /\ file' = [file EXCEPT ![d] = Append(file[d], CurrentLine)]
  <2>1. half[d] = FALSE
    BY TypeFacts DEF Write, HubInv, FilesInOrder, Running, Segment
  <2> QED
    BY <2>1 DEF Write, Current, Appended
<1>2. d \in Device /\ file[d] \in Seq(Line) /\ CurrentLine \in Line /\ Len(log[d]) \in Nat
  BY <1>1, TypeFacts DEF HubInv, Segment
<1>3. Len(file[d]) = Len(log[d])
  BY <1>1, <1>2 DEF HubInv, LogIsFiles, Running, Pending
<1>4. file \in [Device -> Seq(Line)] /\ \A e \in Device : Good(file[e]) = Len(file[e])
  BY <1>1, FilesWhole DEF HubInv, Types, Running
<1> HIDE DEF d
<1>5. ASSUME NEW e \in Device
      PROVE  SameSettled(e)
  <2>1. CASE e = d
    <3>1. SettledLength(e) = Len(log[d]) /\ SettledLength(e)' = Len(log[d])
      BY <2>1, <1>1, <1>3, <1>4 DEF SettledLength, d
    <3>2. \A i \in 1..Len(log[d]) : file'[d][i] = file[d][i]
      BY <1>1, <1>2, <1>3, <1>4, AppendProperties
    <3> QED
      BY <2>1, <3>1, <3>2 DEF SameSettled
  <2>2. CASE e # d
    <3>1. file'[e] = file[e]
      BY <2>2, <1>1, <1>4
    <3> QED
      BY <2>2, <3>1, <1>1 DEF SameSettled, SettledLength, d
  <2> QED
    BY <2>1, <2>2
<1> QED
  BY <1>1, <1>5, SettledKept, ToldStep DEF Told

\* Synced, the line is promised.
LEMMA SyncImplements ==
  ASSUME HubInv, HubInv', Sync
  PROVE  Promise!Next
<1> DEFINE d == Current.device
<1>1. /\ phase = "written" /\ phase' = "synced" /\ Current' = Current /\ queue # <<>>
      /\ UNCHANGED <<file, half, log, queue, acked, served, crashes>>
  BY DEF Sync, Current, HubInv, Types
<1>2. d \in Device /\ Len(log[d]) \in Nat
  BY <1>1, TypeFacts DEF HubInv, Segment
<1>3. Len(file[d]) = Len(log[d]) + 1
  BY <1>1, <1>2 DEF HubInv, LogIsFiles, Running, Pending
<1>4. Good(file[d]) = Len(file[d])
  BY <1>1, <1>2, FilesWhole DEF Running
<1>5. SettledLength(d) = Len(log[d]) /\ SettledLength(d)' = Len(log[d]) + 1
  BY <1>1, <1>3, <1>4 DEF SettledLength
<1>6. \A e \in Device \ {d} : SameSettled(e)
  BY <1>1 DEF SameSettled, SettledLength
<1> QED
  BY <1>1, <1>2, <1>5, <1>6, SettledGrows DEF Told

LEMMA ApplyImplements ==
  ASSUME HubInv, HubInv', Apply
  PROVE  Promise!Next
<1> DEFINE d == Current.device
<1>1. phase = "synced" /\ phase' = "open" /\ file' = file /\ served' = served /\ queue # <<>>
      /\ acked' = acked \cup {Current}
  BY DEF Apply, HubInv, Types
<1>2. /\ Current \in Segment /\ d \in Device /\ Len(log[d]) \in Nat
      /\ CurrentLine.seq = Current.seq /\ CurrentLine.body = Current.body
  BY <1>1, TypeFacts DEF HubInv, Segment
<1>3. Len(file[d]) = Len(log[d]) + 1 /\ file[d][Len(file[d])] = CurrentLine
  BY <1>1, <1>2 DEF HubInv, LogIsFiles, Running, Pending
<1>4. Good(file[d]) = Len(file[d]) /\ Whole(file[d])
  BY <1>1, <1>2, FilesWhole DEF Running, HubInv, FilesInOrder
<1>5. Current.seq = Len(file[d]) /\ SettledLength(d) = Len(file[d])
  BY <1>1, <1>2, <1>3, <1>4 DEF Whole, SettledLength
<1>6. Settled' = Settled
  BY <1>1, FileKept, SettledKept
<1> QED
  BY <1>1, <1>2, <1>3, <1>5, <1>6, ToldStep DEF Told

LEMMA PullImplements ==
  ASSUME HubInv, HubInv', NEW have \in Vector, Pull(have)
  PROVE  Promise!Next
<1>1. /\ Running /\ UNCHANGED <<file, log, queue, phase, acked>> /\ served \subseteq served'
  BY DEF Pull, Running
<1>2. Current' = Current
  BY <1>1 DEF Current
<1>3. Settled' = Settled
  BY <1>1, <1>2 DEF Settled, Durable, Logged
<1>4. ASSUME NEW s \in Told' \ Told
      PROVE  /\ s \in Segment /\ s.seq <= SettledLength(s.device)
             /\ file[s.device][s.seq].body = s.body
  <2>1. s \in Segment /\ s.seq \in 1..Len(log[s.device]) /\ log[s.device][s.seq] = s.body
    BY <1>1, <1>4, PullStep DEF Told
  <2>2. s.device \in Device
    BY <2>1 DEF Segment
  <2>3. /\ Len(log[s.device]) <= SettledLength(s.device) /\ SettledLength(s.device) \in Nat
        /\ Len(log[s.device]) \in Nat
        /\ \A i \in 1..Len(log[s.device]) : log[s.device][i] = file[s.device][i].body
    BY <1>1, <2>2, LoggedIsSettled, LogBehindFiles, SettledIs, TypeFacts DEF HubInv, SettledFacts
  <2> QED
    BY <2>1, <2>3
<1> QED
  BY <1>1, <1>3, <1>4, ToldStep DEF Told

\* A stop before the sync may leave the line whole: then it is promised from there on.
LEMMA CrashImplements ==
  ASSUME HubInv, HubInv', Crash
  PROVE  Promise!Next
<1>1. Running /\ phase' = "closed" /\ UNCHANGED <<acked, served>>
  BY DEF Crash, Running
<1>2. \A e \in Device : Good(file[e]) = Len(file[e])
  BY <1>1, FilesWhole
<1>3. file \in [Device -> Seq(Line)]
  BY DEF HubInv, Types
<1>4. CASE phase # "written"
  <2>1. file' = file
    BY <1>4 DEF Crash
  <2> QED
    BY <2>1, <1>1, <1>4, FileKept, SettledKept, ToldStep DEF Told
<1>5. CASE phase = "written"
  <2>1. PICK d \in Device : d = Current.device /\ Len(log[d]) \in Nat /\ file[d] \in Seq(Line)
    BY <1>5, TypeFacts DEF HubInv, Types, Segment
  <2> DEFINE n == Len(file[d])
  <2>2. n = Len(log[d]) + 1 /\ Whole(file[d])
    BY <1>1, <1>5, <2>1 DEF HubInv, LogIsFiles, Pending, FilesInOrder
  <2>3. SettledLength(d) = n - 1
    BY <1>5, <2>1, <2>2 DEF SettledLength
  <2>4. SettledLength(d)' = Good(file'[d])
    BY <1>1 DEF SettledLength
  <2>5. ASSUME NEW e \in Device \ {d}, file'[e] = file[e]
        PROVE  SameSettled(e)
    BY <2>1, <2>5, <1>1 DEF SameSettled, SettledLength
  <2>6. CASE file' = file
    <3>1. SettledLength(d)' = SettledLength(d) + 1
      BY <2>1, <2>2, <2>3, <2>4, <2>6, <1>2
    <3> QED
      BY <3>1, <2>1, <2>5, <2>6, <1>1, SettledGrows DEF Told
  <2> HIDE DEF n
  <2>7. n \in 1..Len(file[d]) /\ n = Len(file[d]) /\ n - 1 = Len(log[d])
    BY <2>1, <2>2 DEF n
  <2>8. ASSUME Good(file'[d]) = n - 1,
               \A i \in 1..(n - 1) : file'[d][i] = file[d][i],
               \A e \in Device \ {d} : file'[e] = file[e]
        PROVE  Promise!Next
    <3>1. SameSettled(d)
      BY <2>3, <2>4, <2>8 DEF SameSettled
    <3> QED
      BY <3>1, <2>5, <2>8, <1>1, SettledKept, ToldStep DEF Told
  <2>9. CASE file' = [file EXCEPT ![d] = SubSeq(@, 1, n - 1)]
    <3>1. file'[d] = SubSeq(file[d], 1, n - 1) /\ \A e \in Device \ {d} : file'[e] = file[e]
      BY <2>9, <2>1, <1>3
    <3>2. \A i \in 1..(n - 1) : file[d][i] \in Line
      BY <2>1, <2>7, ElementOfSeq
    <3>3. /\ file'[d] \in Seq(Line) /\ Len(file'[d]) = n - 1
          /\ \A i \in 1..(n - 1) : file'[d][i] = file[d][i]
      BY <2>1, <2>7, <3>1, <3>2
    <3>4. Whole(file'[d])
      <4>1. \A i \in 1..n : file[d][i].seq = i
        BY <2>2, <2>7 DEF Whole
      <4>2. \A i \in 1..(n - 1) : i \in 1..n /\ file'[d][i] = file[d][i]
        BY <3>3, <2>7
      <4>3. \A i \in 1..(n - 1) : file'[d][i].seq = i
        BY <4>1, <4>2
      <4> QED
        BY <4>3, <3>3 DEF Whole
    <3>5. Good(file'[d]) = n - 1
      BY <3>3, <3>4, GoodIsClean DEF Whole, InOrder
    <3> QED
      BY <3>1, <3>3, <3>5, <2>8
  <2>10. CASE file' = [file EXCEPT ![d][n] = TornLine]
    <3>1. file'[d] = [file[d] EXCEPT ![n] = TornLine] /\ \A e \in Device \ {d} : file'[e] = file[e]
      BY <2>10, <2>1, <1>3
    <3>2. TornLine \in Line
      BY DEF TornLine, Line
    <3>3. /\ file'[d] \in Seq(Line) /\ Len(file'[d]) = n
          /\ \A i \in 1..n : file'[d][i] = IF i = n THEN TornLine ELSE file[d][i]
      BY <2>1, <2>7, <3>1, <3>2, ExceptSeq
    <3>4. Good(file'[d]) = n - 1
      BY <3>3, <2>7 DEF Good
    <3> QED
      BY <3>1, <3>3, <3>4, <2>7, <2>8
  <2> QED
    BY <2>1, <2>6, <2>9, <2>10, <1>5 DEF Crash, n
<1> QED
  BY <1>4, <1>5

(* The hub implements the log it promises: at every moment each device's log   *)
(* only grows at its end, and only what is in it is ever acknowledged or       *)
(* served, through stops at any step of a push and whatever devices send.      *)
THEOREM Implementation == Spec => KeepsPromise
<1>1. Init => Promise!Init
  <2> SUFFICES ASSUME Init PROVE Promise!Init
    OBVIOUS
  <2>1. HubInv /\ phase = "closed" /\ \A d \in Device : file[d] = <<>>
    BY HubInit DEF Init
  <2>2. ASSUME NEW d \in Device
        PROVE  Settled[d] = <<>>
    <3>1. SettledLength(d) = 0
      BY <2>1 DEF SettledLength, Good
    <3>2. Settled[d] \in Seq(Body) /\ Len(Settled[d]) = SettledLength(d)
      BY <2>1, SettledIs DEF SettledFacts
    <3> QED
      BY <3>1, <3>2, EmptySeq
  <2>3. Settled = [d \in Device |-> <<>>]
    BY <2>2, SettledIsFunction
  <2> QED
    BY <2>3 DEF Init, Promise!Init
<1>2. HubInv /\ HubInv' /\ [Next]_vars => [Promise!Next]_<<Settled, acked \cup served>>
  <2> SUFFICES ASSUME HubInv, HubInv', [Next]_vars
               PROVE  [Promise!Next]_<<Settled, acked \cup served>>
    OBVIOUS
  <2>1. CASE Next
    BY <2>1, OpenImplements, PushImplements, AnswerImplements, WriteImplements, SyncImplements,
       ApplyImplements, PullImplements, CrashImplements DEF Next
  <2>2. CASE UNCHANGED vars
    BY <2>2 DEF vars, Settled, Durable, Current, Logged
  <2> QED
    BY <2>1, <2>2
<1> QED
  BY <1>1, <1>2, HubInvariant, PTL DEF Spec, KeepsPromise, Promise!Spec

-----------------------------------------------------------------------------
(* Pairing: its inductive invariant.  The hub's "paired" replies, which    *)
(* are never unsaid, stand for every pairing there has been.               *)

Secret == [code : Nat, device : Nat, hub : Nat]
Label == [id : Nat, key : Secret]
Pairing == [id : Nat, key : Secret, from : Nat, unlinked : BOOLEAN, over : BOOLEAN]
Request == [call : {"pair", "sync", "unpair"}, secret : Secret, pairing : Label, by : Phone]
Status == {"paired", "unpaired", "unlinked", "answered"}
HubReply == [call : Nat, secret : Secret, status : Status, id : Nat]
Outcome == [call : {"none", "pair", "sync", "unpair"}, pairing : Label,
            as : Status \cup {"nothing", "not the hub"}]

PairingTypes ==
  /\ shown \in Nat /\ code \in 0..shown
  /\ pairings \subseteq Pairing /\ saved = pairings
  /\ requests \in Seq(Request)
  /\ replies \subseteq HubReply
  /\ paired \in [Phone -> Label]
  /\ asking \in [Phone -> Nat]
  /\ told \in [Phone -> Outcome]

Enrolments == {r \in replies : r.status = "paired"}
Enrolled == Cardinality(Enrolments)

\* Each enrolment has a number of its own and a code of its own.
EnrolmentsDiffer ==
  /\ IsFiniteSet(Enrolments)
  /\ \A r \in Enrolments :
       /\ r.id \in 1..Enrolled
       /\ \E c \in 1..shown : c # code /\ r.secret = CodeSecret(c)
  /\ \A r, s \in Enrolments : r.id = s.id \/ r.secret = s.secret => r = s

\* The hub's side and the device's side of a pairing are of one enrolment.
OfEnrolments ==
  /\ \A p \in pairings : \E r \in Enrolments :
       r.id = p.id /\ p.key = SharedSecret(r.call, r.id) /\ r.secret = CodeSecret(p.from)
  /\ \A p, q \in pairings : p.id = q.id => p = q
  /\ \A d \in Phone : paired[d] # NoPairing => \E r \in Enrolments :
       r.id = paired[d].id /\ paired[d].key = SharedSecret(r.call, r.id) /\ requests[r.call].by = d

\* Every enrolment is known, or its device asked to end it, or its time is over.
EnrolmentsKnown ==
  \A r \in Enrolments : r.id \in {p.id : p \in pairings} \cup partings \cup forgotten

CallsNumbered ==
  /\ \A d \in Phone : asking[d] # 0 => asking[d] \in DOMAIN requests /\ requests[asking[d]].by = d
  /\ \A r \in replies : r.call \in DOMAIN requests
  /\ \A n \in DOMAIN requests : requests[n].call = "unpair" => requests[n].pairing.id \in partings

\* A pairing that no longer opens anything, and never will again.
Ended(id) == id \in 1..Enrolled /\ \A p \in pairings : p.id = id => p.unlinked

RepliesTrue ==
  /\ \A p \in pairings : p.unlinked => p.id \in unlinks
  /\ \A r \in replies : LET id == requests[r.call].pairing.id IN
       /\ r.status \in {"unpaired", "unlinked"} => Ended(id)
       /\ r.status = "unlinked" => id \in unlinks
  /\ \A d \in Phone :
       /\ told[d].as \in {"unpaired", "unlinked"} => Ended(told[d].pairing.id)
       /\ told[d].as = "unlinked" => told[d].pairing.id \in unlinks

PairingInv ==
  /\ PairingTypes /\ EnrolmentsDiffer /\ OfEnrolments /\ EnrolmentsKnown /\ CallsNumbered /\ RepliesTrue

-----------------------------------------------------------------------------
(* The invariant is inductive *)

LEMMA SecretFacts ==
  /\ \A c \in Nat : CodeSecret(c) \in Secret
  /\ \A c, e \in Nat : CodeSecret(c) = CodeSecret(e) => c = e
  /\ \A d, h \in Nat : SharedSecret(d, h) \in Secret /\ SharedSecret(d, h).device = d
  /\ NoPairing \in Label /\ NoPairing.id = 0
<1>1. \A c \in Nat : CodeSecret(c) \in Secret /\ CodeSecret(c).code = c
  BY DEF CodeSecret, Secret
<1>2. \A d, h \in Nat : SharedSecret(d, h) \in Secret /\ SharedSecret(d, h).device = d
  BY DEF SharedSecret, Secret
<1>3. NoPairing \in Label /\ NoPairing.id = 0
  BY <1>1 DEF NoPairing, Label
<1>4. \A c, e \in Nat : CodeSecret(c) = CodeSecret(e) => c = e
  BY <1>1
<1> QED
  BY <1>1, <1>2, <1>3, <1>4

LEMMA PairingInitially == PairingInit => PairingInv
<1> SUFFICES ASSUME PairingInit PROVE PairingInv
  OBVIOUS
<1>1. PairingTypes
  BY SecretFacts DEF PairingInit, PairingTypes, Outcome, Nothing, Status
<1>2. Enrolments = {} /\ IsFiniteSet(Enrolments) /\ Enrolled = 0
  BY FS_EmptySet DEF PairingInit, Enrolments, Enrolled
<1>3. /\ pairings = {} /\ replies = {} /\ requests = <<>>
      /\ \A d \in Phone : paired[d] = NoPairing /\ asking[d] = 0 /\ told[d].as = "nothing"
  BY DEF PairingInit, Nothing
<1> QED
  BY <1>1, <1>2, <1>3 DEF PairingInv, EnrolmentsDiffer, OfEnrolments, EnrolmentsKnown, CallsNumbered, RepliesTrue

\* A step of the hub that enrols nobody: pairings may be marked or dropped, never changed otherwise.
HubStep ==
  /\ UNCHANGED <<shown, requests, paired, asking, told, partings>>
  /\ code' \in {code, 0}
  /\ pairings' \subseteq Pairing /\ saved' = pairings'
  /\ \A p \in pairings' : \E q \in pairings :
       p.id = q.id /\ p.key = q.key /\ p.from = q.from /\ (q.unlinked => p.unlinked)
  /\ \A p, q \in pairings' : p.id = q.id => p = q
  /\ \A q \in pairings : q.id \in {p.id : p \in pairings'} \cup partings \cup forgotten'
  /\ forgotten \subseteq forgotten' /\ unlinks \subseteq unlinks'
  /\ \A p \in pairings' : p.unlinked => p.id \in unlinks'
  /\ replies \subseteq replies' /\ replies' \subseteq HubReply
  /\ \A r \in replies' \ replies :
       /\ r.status # "paired" /\ r.call \in DOMAIN requests
       /\ r.status \in {"unpaired", "unlinked"} =>
            LET id == requests[r.call].pairing.id
            IN id \in 1..Enrolled /\ \A p \in pairings' : p.id = id => p.unlinked
       /\ r.status = "unlinked" => requests[r.call].pairing.id \in unlinks'

LEMMA HubStepKeeps ==
  ASSUME PairingInv, HubStep
  PROVE  PairingInv'
<1> USE DEF PairingInv
<1>1. PairingTypes'
  BY DEF PairingTypes, HubStep
<1>2. Enrolments' = Enrolments /\ Enrolled' = Enrolled
  BY DEF Enrolments, Enrolled, HubStep
<1>3. EnrolmentsDiffer'
  <2>1. 0 \notin 1..shown
    BY DEF PairingTypes
  <2> QED
    BY <2>1, <1>2 DEF EnrolmentsDiffer, HubStep
<1>4. OfEnrolments'
  <2>1. ASSUME NEW p \in pairings'
        PROVE  \E r \in Enrolments :
                 r.id = p.id /\ p.key = SharedSecret(r.call, r.id) /\ r.secret = CodeSecret(p.from)
    <3>1. PICK q \in pairings : p.id = q.id /\ p.key = q.key /\ p.from = q.from
      BY DEF HubStep
    <3> QED
      BY <3>1 DEF OfEnrolments
  <2>2. \A p, q \in pairings' : p.id = q.id => p = q
    BY DEF HubStep
  <2>3. \A d \in Phone : paired'[d] # NoPairing => \E r \in Enrolments :
          r.id = paired'[d].id /\ paired'[d].key = SharedSecret(r.call, r.id) /\ requests'[r.call].by = d
    BY DEF OfEnrolments, HubStep
  <2> QED
    BY <2>1, <2>2, <2>3, <1>2 DEF OfEnrolments
<1>5. EnrolmentsKnown'
  BY <1>2 DEF EnrolmentsKnown, HubStep
<1>6. CallsNumbered'
  BY DEF CallsNumbered, HubStep
<1>7. ASSUME NEW id, Ended(id)
      PROVE  Ended(id)'
  BY <1>2, <1>7 DEF Ended, HubStep
<1>8. RepliesTrue'
  <2>1. ASSUME NEW r \in replies'
        PROVE  LET id == requests[r.call].pairing.id IN
                 /\ r.status \in {"unpaired", "unlinked"} => Ended(id)'
                 /\ r.status = "unlinked" => id \in unlinks'
    <3>1. CASE r \in replies
      BY <3>1, <1>7 DEF RepliesTrue, HubStep
    <3>2. CASE r \notin replies
      BY <3>2, <1>2 DEF HubStep, Ended
    <3> QED
      BY <3>1, <3>2
  <2>2. ASSUME NEW d \in Phone
        PROVE  /\ told[d].as \in {"unpaired", "unlinked"} => Ended(told[d].pairing.id)'
               /\ told[d].as = "unlinked" => told[d].pairing.id \in unlinks'
    BY <1>7 DEF RepliesTrue, HubStep
  <2>3. requests' = requests /\ told' = told /\ \A p \in pairings' : p.unlinked => p.id \in unlinks'
    BY DEF HubStep
  <2> QED
    BY <2>1, <2>2, <2>3 DEF RepliesTrue
<1> QED
  BY <1>1, <1>3, <1>4, <1>5, <1>6, <1>8

\* What is saved is what is kept, less the unlinked pairings whose time is over.
LEMMA ChangedFacts ==
  ASSUME NEW now, changed(now)
  PROVE  /\ pairings' \subseteq now /\ saved' = pairings' /\ forgotten \subseteq forgotten'
         /\ \A p \in now : p.id \in {q.id : q \in pairings'} \cup forgotten'
         /\ \A p \in now : ~p.over => p \in pairings'
BY DEF changed

LEMMA MarkedPairing ==
  ASSUME PairingInv, NEW p \in pairings
  PROVE  /\ [p EXCEPT !.unlinked = TRUE] \in Pairing
         /\ [p EXCEPT !.unlinked = TRUE].id = p.id
         /\ [p EXCEPT !.unlinked = TRUE].key = p.key
         /\ [p EXCEPT !.unlinked = TRUE].from = p.from
         /\ [p EXCEPT !.unlinked = TRUE].unlinked = TRUE
         /\ [p EXCEPT !.over = TRUE] \in Pairing
         /\ [p EXCEPT !.over = TRUE].id = p.id
         /\ [p EXCEPT !.over = TRUE].key = p.key
         /\ [p EXCEPT !.over = TRUE].from = p.from
         /\ [p EXCEPT !.over = TRUE].unlinked = p.unlinked
<1>1. p \in Pairing
  BY DEF PairingInv, PairingTypes
<1> QED
  BY <1>1 DEF Pairing

LEMMA UnlinkStep ==
  ASSUME PairingInv, NEW p \in pairings, unlink(p)
  PROVE  PairingInv'
<1> DEFINE marked == [p EXCEPT !.unlinked = TRUE]
           now == (pairings \ {p}) \cup {marked}
<1>1. /\ marked \in Pairing /\ marked.id = p.id /\ marked.key = p.key /\ marked.from = p.from
      /\ marked.unlinked = TRUE
  BY MarkedPairing
<1>2. /\ pairings \subseteq Pairing /\ replies \subseteq HubReply
      /\ \A q, r \in pairings : q.id = r.id => q = r
      /\ \A q \in pairings : q.unlinked => q.id \in unlinks
  BY DEF PairingInv, PairingTypes, OfEnrolments, RepliesTrue
<1>3. changed(now) /\ unlinks' = unlinks \cup {p.id}
      /\ UNCHANGED <<shown, code, forwarded, deviceVars, replies, restarts>>
  BY DEF unlink
<1> HIDE DEF marked
<1>4. /\ pairings' \subseteq now /\ saved' = pairings' /\ forgotten \subseteq forgotten'
      /\ \A q \in now : q.id \in {r.id : r \in pairings'} \cup forgotten'
  BY <1>3, ChangedFacts
<1>5. HubStep
  BY <1>1, <1>2, <1>3, <1>4 DEF HubStep, deviceVars
<1> QED
  BY <1>5, HubStepKeeps

LEMMA LapseStep ==
  ASSUME PairingInv, NEW p \in pairings, Lapse(p)
  PROVE  PairingInv'
<1> DEFINE marked == [p EXCEPT !.over = TRUE]
<1>1. /\ marked \in Pairing /\ marked.id = p.id /\ marked.key = p.key /\ marked.from = p.from
      /\ marked.unlinked = p.unlinked
  BY MarkedPairing
<1>2. /\ pairings \subseteq Pairing /\ replies \subseteq HubReply /\ saved = pairings
      /\ \A q, r \in pairings : q.id = r.id => q = r
      /\ \A q \in pairings : q.unlinked => q.id \in unlinks
  BY DEF PairingInv, PairingTypes, OfEnrolments, RepliesTrue
<1>3. /\ pairings' = (pairings \ {p}) \cup {marked} /\ saved' = (saved \ {p}) \cup {marked}
      /\ UNCHANGED <<shown, code, forwarded, unlinks, forgotten, deviceVars, replies, restarts>>
  BY DEF Lapse
<1> HIDE DEF marked
<1>4. HubStep
  BY <1>1, <1>2, <1>3 DEF HubStep, deviceVars
<1> QED
  BY <1>4, HubStepKeeps

LEMMA RestartStep == PairingInv /\ Restart => PairingInv'
<1> SUFFICES ASSUME PairingInv, Restart PROVE PairingInv'
  OBVIOUS
<1>1. /\ pairings \subseteq Pairing /\ replies \subseteq HubReply /\ saved = pairings
      /\ \A q, r \in pairings : q.id = r.id => q = r
      /\ \A q \in pairings : q.unlinked => q.id \in unlinks
  BY DEF PairingInv, PairingTypes, OfEnrolments, RepliesTrue
<1>2. HubStep
  BY <1>1 DEF HubStep, deviceVars, Restart
<1> QED
  BY <1>2, HubStepKeeps

LEMMA RequestFacts ==
  ASSUME PairingInv, NEW n \in DOMAIN requests
  PROVE  /\ n \in Nat \ {0} /\ n \in 1..Len(requests) /\ Len(requests) \in Nat
         /\ requests[n] \in Request /\ requests[n].secret \in Secret /\ requests[n].by \in Phone
         /\ requests[n].pairing \in Label
<1>1. requests \in Seq(Request)
  BY DEF PairingInv, PairingTypes
<1>2. n \in 1..Len(requests) /\ Len(requests) \in Nat /\ requests[n] \in Request
  BY <1>1
<1> QED
  BY <1>2 DEF Request

\* The number of a pairing is that of an enrolment.
LEMMA NumberedPairings ==
  ASSUME PairingInv, NEW p \in pairings
  PROVE  p.id \in 1..Enrolled
BY DEF PairingInv, OfEnrolments, EnrolmentsDiffer

LEMMA HandleStep ==
  ASSUME PairingInv, NEW n \in DOMAIN requests, handle(n)
  PROVE  PairingInv'
<1>1. PICK p \in opened(n) :
       \/ /\ p.unlinked
          /\ Reply(n, "unlinked", p.id)
          /\ UNCHANGED <<pairings, saved, forgotten, forwarded>>
       \/ /\ ~p.unlinked /\ requests[n].call = "unpair"
          /\ changed(pairings \ {p})
          /\ Reply(n, "unpaired", p.id)
          /\ UNCHANGED forwarded
       \/ /\ ~p.unlinked /\ requests[n].call = "sync"
          /\ changed(pairings) \/ UNCHANGED <<pairings, saved, forgotten>>
          /\ forwarded' = forwarded \cup {n}
          /\ UNCHANGED replies
  BY DEF handle
<1>2. /\ UNCHANGED <<shown, code, unlinks, restarts>>
      /\ UNCHANGED <<requests, paired, asking, told, partings>>
  BY DEF handle, deviceVars
<1>3. p \in pairings /\ p.id = requests[n].pairing.id
  BY DEF opened
<1>4. /\ pairings \subseteq Pairing /\ replies \subseteq HubReply /\ saved = pairings
      /\ \A q, r \in pairings : q.id = r.id => q = r
      /\ \A q \in pairings : q.unlinked => q.id \in unlinks
      /\ requests[n].call = "unpair" => requests[n].pairing.id \in partings
  BY DEF PairingInv, PairingTypes, OfEnrolments, RepliesTrue, CallsNumbered
<1>5. p.id \in 1..Enrolled /\ p.id \in Nat
  BY <1>3, <1>4, NumberedPairings DEF Pairing
<1>6. ASSUME NEW status \in Status, Reply(n, status, p.id)
      PROVE  /\ replies \subseteq replies' /\ replies' \subseteq HubReply
             /\ \A r \in replies' \ replies : r.call = n /\ r.status = status
  <2> DEFINE r == [call |-> n, secret |-> requests[n].secret, status |-> status, id |-> p.id]
  <2>1. replies' = replies \cup {r}
    BY <1>6 DEF Reply
  <2>2. r \in HubReply /\ r.call = n /\ r.status = status
    BY <1>5, RequestFacts DEF HubReply
  <2> HIDE DEF r
  <2> QED
    BY <2>1, <2>2, <1>4
<1>7. CASE /\ p.unlinked
           /\ Reply(n, "unlinked", p.id)
           /\ UNCHANGED <<pairings, saved, forgotten, forwarded>>
  <2>1. /\ replies \subseteq replies' /\ replies' \subseteq HubReply
        /\ \A r \in replies' \ replies : r.call = n /\ r.status = "unlinked"
    BY <1>6, <1>7 DEF Status
  <2>2. HubStep
    BY <2>1, <1>2, <1>3, <1>4, <1>5, <1>7 DEF HubStep
  <2> QED
    BY <2>2, HubStepKeeps
<1>8. CASE /\ ~p.unlinked /\ requests[n].call = "unpair"
           /\ changed(pairings \ {p})
           /\ Reply(n, "unpaired", p.id)
           /\ UNCHANGED forwarded
  <2>1. /\ replies \subseteq replies' /\ replies' \subseteq HubReply
        /\ \A r \in replies' \ replies : r.call = n /\ r.status = "unpaired"
    BY <1>6, <1>8 DEF Status
  <2>2. /\ pairings' \subseteq pairings \ {p} /\ saved' = pairings' /\ forgotten \subseteq forgotten'
        /\ \A q \in pairings \ {p} : q.id \in {r.id : r \in pairings'} \cup forgotten'
    BY <1>8, ChangedFacts
  <2>3. HubStep
    BY <2>1, <2>2, <1>2, <1>3, <1>4, <1>5, <1>8 DEF HubStep
  <2> QED
    BY <2>3, HubStepKeeps
<1>9. CASE /\ ~p.unlinked /\ requests[n].call = "sync"
           /\ changed(pairings) \/ UNCHANGED <<pairings, saved, forgotten>>
           /\ forwarded' = forwarded \cup {n}
           /\ UNCHANGED replies
  <2>1. /\ pairings' \subseteq pairings /\ saved' = pairings' /\ forgotten \subseteq forgotten'
        /\ \A q \in pairings : q.id \in {r.id : r \in pairings'} \cup forgotten'
    BY <1>4, <1>9, ChangedFacts
  <2>2. HubStep
    BY <2>1, <1>2, <1>4, <1>9 DEF HubStep
  <2> QED
    BY <2>2, HubStepKeeps
<1> QED
  BY <1>1, <1>7, <1>8, <1>9

LEMMA ForwardStep ==
  ASSUME PairingInv, NEW n \in DOMAIN requests, forward(n)
  PROVE  PairingInv'
<1> DEFINE r == [call |-> n, secret |-> requests[n].secret, status |-> "answered", id |-> 0]
<1>1. /\ replies' = replies \cup {r}
      /\ UNCHANGED <<shown, code, pairings, saved, unlinks, forgotten, restarts>>
      /\ UNCHANGED <<requests, paired, asking, told, partings>>
  BY DEF forward, Reply, deviceVars
<1>2. r \in HubReply /\ r.call = n /\ r.status = "answered"
  BY RequestFacts DEF HubReply, Status
<1>3. /\ pairings \subseteq Pairing /\ replies \subseteq HubReply /\ saved = pairings
      /\ \A q, s \in pairings : q.id = s.id => q = s
      /\ \A q \in pairings : q.unlinked => q.id \in unlinks
  BY DEF PairingInv, PairingTypes, OfEnrolments, RepliesTrue
<1> HIDE DEF r
<1>4. HubStep
  BY <1>1, <1>2, <1>3 DEF HubStep
<1> QED
  BY <1>4, HubStepKeeps

\* A new code is none that anyone has paired with.
LEMMA CodeStep == PairingInv /\ (openCode \/ closeCode) => PairingInv'
<1> SUFFICES ASSUME PairingInv, openCode \/ closeCode PROVE PairingInv'
  OBVIOUS
<1> USE DEF PairingInv
<1>1. /\ UNCHANGED <<pairings, saved, forwarded, unlinks, forgotten, replies, restarts>>
      /\ UNCHANGED <<requests, paired, asking, told, partings>>
      /\ (shown' = shown + 1 /\ code' = shown + 1) \/ (shown' = shown /\ code' = 0)
  BY DEF openCode, closeCode, deviceVars
<1>2. PairingTypes'
  BY <1>1 DEF PairingTypes
<1>3. Enrolments' = Enrolments /\ Enrolled' = Enrolled
  BY <1>1 DEF Enrolments, Enrolled
<1>4. EnrolmentsDiffer'
  <2>1. ASSUME NEW r \in Enrolments
        PROVE  \E c \in 1..shown' : c # code' /\ r.secret = CodeSecret(c)
    <3>1. PICK c \in 1..shown : c # code /\ r.secret = CodeSecret(c)
      BY DEF EnrolmentsDiffer
    <3>2. c \in 1..shown' /\ c # code'
      BY <1>1 DEF PairingTypes
    <3> QED
      BY <3>1, <3>2
  <2> QED
    BY <2>1, <1>3 DEF EnrolmentsDiffer
<1>5. OfEnrolments' /\ EnrolmentsKnown' /\ CallsNumbered'
  BY <1>1, <1>3 DEF OfEnrolments, EnrolmentsKnown, CallsNumbered
<1>6. RepliesTrue'
  BY <1>1, <1>3 DEF RepliesTrue, Ended
<1> QED
  BY <1>2, <1>4, <1>5, <1>6

\* The code closes with the pairing it made, so that its request pairs once however often it comes.
LEMMA EnrolStep ==
  ASSUME PairingInv, NEW n \in DOMAIN requests, enrol(n)
  PROVE  PairingInv'
<1> USE DEF PairingInv
<1> DEFINE id == 1 + Cardinality({r \in replies : r.status = "paired"})
           new == [id |-> id, key |-> SharedSecret(n, id), from |-> code, unlinked |-> FALSE, over |-> FALSE]
           reply == [call |-> n, secret |-> requests[n].secret, status |-> "paired", id |-> id]
<1>1. /\ requests[n].call = "pair" /\ code # 0 /\ requests[n].secret = CodeSecret(code)
      /\ changed(pairings \cup {new}) /\ replies' = replies \cup {reply} /\ code' = 0
      /\ UNCHANGED <<shown, forwarded, unlinks, restarts>>
      /\ UNCHANGED <<requests, paired, asking, told, partings>>
  BY DEF enrol, Reply, deviceVars
<1>2. Enrolled \in Nat /\ id = Enrolled + 1 /\ IsFiniteSet(Enrolments)
  BY FS_CardinalityType DEF EnrolmentsDiffer, Enrolled, Enrolments
<1> HIDE DEF id
<1>3. /\ new.id = id /\ new.key = SharedSecret(n, id) /\ new.from = code /\ new.unlinked = FALSE
      /\ new.over = FALSE /\ new \in Pairing
  BY <1>2, RequestFacts, SecretFacts DEF Pairing, PairingTypes
<1>4. /\ reply.call = n /\ reply.secret = CodeSecret(code) /\ reply.status = "paired" /\ reply.id = id
      /\ reply \in HubReply
  BY <1>1, <1>2, RequestFacts DEF HubReply, Status
<1> HIDE DEF new
<1> HIDE DEF reply
<1>5. /\ pairings' \subseteq pairings \cup {new} /\ saved' = pairings' /\ forgotten \subseteq forgotten'
      /\ \A q \in pairings : q.id \in {r.id : r \in pairings'} \cup forgotten'
      /\ new \in pairings'
  BY <1>1, <1>3, ChangedFacts
<1>6. Enrolments' = Enrolments \cup {reply}
  BY <1>1, <1>4 DEF Enrolments
<1>7. \A r \in Enrolments : /\ r.id \in 1..Enrolled /\ r.id # id
                            /\ \E c \in 1..shown : c # code /\ r.secret = CodeSecret(c)
  BY <1>2 DEF EnrolmentsDiffer
<1>8. \A r \in Enrolments : r.secret # CodeSecret(code)
  <2>1. code \in Nat /\ shown \in Nat
    BY DEF PairingTypes
  <2> QED
    BY <2>1, <1>7, SecretFacts
<1>9. IsFiniteSet(Enrolments') /\ Enrolled' = Enrolled + 1
  <2>1. reply \notin Enrolments
    BY <1>4, <1>7
  <2> QED
    BY <2>1, <1>2, <1>6, FS_AddElement DEF Enrolled
<1>10. PairingTypes'
  BY <1>1, <1>3, <1>4, <1>5 DEF PairingTypes
<1>11. EnrolmentsDiffer'
  <2>1. code \in 1..shown /\ code # code'
    BY <1>1 DEF PairingTypes
  <2>2. ASSUME NEW r \in Enrolments'
        PROVE  /\ r.id \in 1..Enrolled'
               /\ \E c \in 1..shown' : c # code' /\ r.secret = CodeSecret(c)
    <3>1. CASE r = reply
      BY <3>1, <2>1, <1>1, <1>2, <1>4, <1>9
    <3>2. CASE r \in Enrolments
      <4>1. 0 \notin 1..shown
        BY DEF PairingTypes
      <4> QED
        BY <3>2, <4>1, <1>1, <1>2, <1>7, <1>9
    <3> QED
      BY <3>1, <3>2, <1>6
  <2>3. ASSUME NEW r \in Enrolments', NEW s \in Enrolments', r.id = s.id \/ r.secret = s.secret
        PROVE  r = s
    BY <2>3, <1>4, <1>6, <1>7, <1>8 DEF EnrolmentsDiffer
  <2> QED
    BY <2>2, <2>3, <1>9 DEF EnrolmentsDiffer
<1>12. OfEnrolments'
  <2>1. ASSUME NEW p \in pairings'
        PROVE  \E r \in Enrolments' :
                 r.id = p.id /\ p.key = SharedSecret(r.call, r.id) /\ r.secret = CodeSecret(p.from)
    BY <1>3, <1>4, <1>5, <1>6 DEF OfEnrolments
  <2>2. \A p, q \in pairings' : p.id = q.id => p = q
    <3>1. \A p \in pairings : p.id # id
      BY <1>2, NumberedPairings
    <3> QED
      BY <3>1, <1>3, <1>5 DEF OfEnrolments
  <2>3. \A d \in Phone : paired'[d] # NoPairing => \E r \in Enrolments' :
          r.id = paired'[d].id /\ paired'[d].key = SharedSecret(r.call, r.id) /\ requests'[r.call].by = d
    BY <1>1, <1>6 DEF OfEnrolments
  <2> QED
    BY <2>1, <2>2, <2>3 DEF OfEnrolments
<1>13. EnrolmentsKnown'
  <2>1. \A r \in Enrolments : r.id \in {p.id : p \in pairings'} \cup partings' \cup forgotten'
    BY <1>1, <1>5 DEF EnrolmentsKnown
  <2>2. reply.id \in {p.id : p \in pairings'}
    BY <1>3, <1>4, <1>5
  <2> QED
    BY <2>1, <2>2, <1>6 DEF EnrolmentsKnown
<1>14. CallsNumbered'
  BY <1>1, <1>4 DEF CallsNumbered
<1>15. ASSUME NEW x, Ended(x)
       PROVE  Ended(x)'
  BY <1>2, <1>3, <1>5, <1>9, <1>15 DEF Ended
<1>16. RepliesTrue'
  <2>1. \A p \in pairings' : p.unlinked => p.id \in unlinks'
    BY <1>1, <1>3, <1>5 DEF RepliesTrue
  <2>2. ASSUME NEW r \in replies'
        PROVE  LET x == requests[r.call].pairing.id IN
                 /\ r.status \in {"unpaired", "unlinked"} => Ended(x)'
                 /\ r.status = "unlinked" => x \in unlinks'
    <3>1. CASE r = reply
      BY <3>1, <1>4
    <3>2. CASE r \in replies
      BY <3>2, <1>1, <1>15 DEF RepliesTrue
    <3> QED
      BY <3>1, <3>2, <1>1
  <2>3. ASSUME NEW d \in Phone
        PROVE  /\ told[d].as \in {"unpaired", "unlinked"} => Ended(told[d].pairing.id)'
               /\ told[d].as = "unlinked" => told[d].pairing.id \in unlinks'
    BY <1>1, <1>15 DEF RepliesTrue
  <2>4. requests' = requests /\ told' = told
    BY <1>1
  <2> QED
    BY <2>1, <2>2, <2>3, <2>4 DEF RepliesTrue
<1> QED
  BY <1>10, <1>11, <1>12, <1>13, <1>14, <1>16

\* A device's call takes a number no reply answers yet.
LEMMA CallStep ==
  ASSUME PairingInv, NEW d \in Phone, pair(d) \/ post(d) \/ unpair(d)
  PROVE  PairingInv'
<1> USE DEF PairingInv
<1>1. PICK kind \in {"pair", "sync", "unpair"}, secret \in Secret, label \in Label :
        /\ Call(d, kind, secret, label)
        /\ partings \subseteq partings' /\ (kind = "unpair" => label.id \in partings')
  <2>1. paired[d] \in Label /\ paired[d].key \in Secret /\ shown \in Nat
    BY DEF PairingTypes, Label
  <2>2. CASE pair(d)
    <3>1. PICK c \in 1..shown : Call(d, "pair", CodeSecret(c), NoPairing) /\ UNCHANGED partings
      BY <2>2 DEF pair
    <3>2. CodeSecret(c) \in Secret /\ NoPairing \in Label
      BY <2>1, SecretFacts
    <3> QED
      BY <3>1, <3>2
  <2>3. CASE post(d)
    BY <2>1, <2>3 DEF post
  <2>4. CASE unpair(d)
    BY <2>1, <2>4 DEF unpair
  <2> QED
    BY <2>2, <2>3, <2>4
<1> DEFINE request == [call |-> kind, secret |-> secret, pairing |-> label, by |-> d]
<1>2. /\ requests' = Append(requests, request)
      /\ asking' = [asking EXCEPT ![d] = Len(requests')]
      /\ told' = [told EXCEPT ![d] = Nothing]
      /\ UNCHANGED <<shown, code, pairings, saved, forwarded, unlinks, forgotten, replies, paired, restarts>>
  BY <1>1 DEF Call, hubVars
<1>3. request \in Request /\ request.by = d /\ request.call = kind /\ request.pairing = label
  BY DEF Request
<1> HIDE DEF request
<1>4. /\ requests' \in Seq(Request) /\ Len(requests) \in Nat /\ Len(requests') = Len(requests) + 1
      /\ \A n \in DOMAIN requests : n \in DOMAIN requests' /\ requests'[n] = requests[n]
      /\ DOMAIN requests' = DOMAIN requests \cup {Len(requests')}
      /\ requests'[Len(requests')] = request
  BY <1>2, <1>3, AppendProperties DEF PairingTypes
<1>5. Nothing \in Outcome /\ Nothing.as = "nothing"
  BY SecretFacts DEF Nothing, Outcome, Status
<1>6. PairingTypes'
  BY <1>2, <1>4, <1>5 DEF PairingTypes
<1>7. Enrolments' = Enrolments /\ Enrolled' = Enrolled
  BY <1>2 DEF Enrolments, Enrolled
<1>8. EnrolmentsDiffer' /\ EnrolmentsKnown'
  BY <1>1, <1>2, <1>7 DEF EnrolmentsDiffer, EnrolmentsKnown
<1>9. OfEnrolments'
  <2>1. ASSUME NEW e \in Phone, paired[e] # NoPairing
        PROVE  \E r \in Enrolments : /\ r.id = paired[e].id /\ paired[e].key = SharedSecret(r.call, r.id)
                                     /\ requests'[r.call].by = e
    <3>1. PICK r \in Enrolments : /\ r.id = paired[e].id /\ paired[e].key = SharedSecret(r.call, r.id)
                                  /\ requests[r.call].by = e
      BY <2>1 DEF OfEnrolments
    <3>2. r.call \in DOMAIN requests
      BY DEF CallsNumbered, Enrolments
    <3> QED
      BY <3>1, <3>2, <1>4
  <2> QED
    BY <2>1, <1>2, <1>7 DEF OfEnrolments
<1>10. CallsNumbered'
  <2>1. ASSUME NEW e \in Phone, asking'[e] # 0
        PROVE  asking'[e] \in DOMAIN requests' /\ requests'[asking'[e]].by = e
    <3>1. CASE e = d
      BY <3>1, <1>2, <1>3, <1>4 DEF PairingTypes
    <3>2. CASE e # d
      BY <3>2, <2>1, <1>2, <1>4 DEF PairingTypes, CallsNumbered
    <3> QED
      BY <3>1, <3>2
  <2>2. \A r \in replies' : r.call \in DOMAIN requests'
    BY <1>2, <1>4 DEF CallsNumbered
  <2>3. \A n \in DOMAIN requests' : requests'[n].call = "unpair" => requests'[n].pairing.id \in partings'
    BY <1>1, <1>3, <1>4 DEF CallsNumbered
  <2> QED
    BY <2>1, <2>2, <2>3 DEF CallsNumbered
<1>11. RepliesTrue'
  <2>1. \A r \in replies : requests'[r.call] = requests[r.call]
    BY <1>4 DEF CallsNumbered
  <2>2. ASSUME NEW e \in Phone
        PROVE  told'[e] = told[e] \/ told'[e].as = "nothing"
    BY <1>2, <1>5 DEF PairingTypes
  <2>3. ASSUME NEW r \in replies
        PROVE  LET id == requests'[r.call].pairing.id IN
                 /\ r.status \in {"unpaired", "unlinked"} =>
                      id \in 1..Enrolled' /\ \A p \in pairings' : p.id = id => p.unlinked
                 /\ r.status = "unlinked" => id \in unlinks'
    <3>1. requests'[r.call] = requests[r.call]
      BY <2>1
    <3> QED
      BY <3>1, <1>2, <1>7 DEF RepliesTrue, Ended
  <2>4. ASSUME NEW e \in Phone
        PROVE  /\ told'[e].as \in {"unpaired", "unlinked"} =>
                    LET id == told'[e].pairing.id
                    IN  id \in 1..Enrolled' /\ \A p \in pairings' : p.id = id => p.unlinked
               /\ told'[e].as = "unlinked" => told'[e].pairing.id \in unlinks'
    BY <2>2, <1>2, <1>7 DEF RepliesTrue, Ended
  <2>5. \A p \in pairings' : p.unlinked => p.id \in unlinks'
    BY <1>2 DEF RepliesTrue
  <2>6. replies' = replies
    BY <1>2
  <2> QED
    BY <2>3, <2>4, <2>5, <2>6 DEF RepliesTrue, Ended
<1> QED
  BY <1>6, <1>8, <1>9, <1>10, <1>11

\* What a device's waiting ends in: something told of its call, and a pairing kept, ended or begun.
LEMMA HearKeeps ==
  ASSUME PairingInv, NEW d \in Phone, asking[d] # 0,
         NEW as \in Status \cup {"not the hub"}, NEW label \in Label, Hear(d, as),
         paired' = [paired EXCEPT ![d] = label],
         as \in {"unpaired", "unlinked"} => Ended(requests[asking[d]].pairing.id),
         as = "unlinked" => requests[asking[d]].pairing.id \in unlinks,
         \/ label = paired[d]
         \/ label = NoPairing
         \/ \E r \in Enrolments : r.id = label.id /\ label.key = SharedSecret(r.call, r.id) /\ r.call = asking[d]
  PROVE  PairingInv'
<1> USE DEF PairingInv
<1> DEFINE call == requests[asking[d]]
           outcome == [call |-> call.call, pairing |-> call.pairing, as |-> as]
<1>1. /\ asking' = [asking EXCEPT ![d] = 0] /\ told' = [told EXCEPT ![d] = outcome]
      /\ UNCHANGED <<shown, code, pairings, saved, forwarded, unlinks, forgotten>>
      /\ UNCHANGED <<requests, partings, replies, restarts>>
  BY DEF Hear, hubVars
<1>2. asking[d] \in DOMAIN requests /\ call.by = d
  BY DEF CallsNumbered
<1>3. outcome \in Outcome /\ outcome.as = as /\ outcome.pairing = call.pairing
  BY <1>2, RequestFacts DEF Outcome, Request
<1>4. PairingTypes'
  BY <1>1, <1>3 DEF PairingTypes
<1>5. Enrolments' = Enrolments /\ Enrolled' = Enrolled
  BY <1>1 DEF Enrolments, Enrolled
<1>6. EnrolmentsDiffer' /\ EnrolmentsKnown'
  BY <1>1, <1>5 DEF EnrolmentsDiffer, EnrolmentsKnown
<1>7. OfEnrolments'
  <2>1. ASSUME NEW e \in Phone, paired'[e] # NoPairing
        PROVE  \E r \in Enrolments : /\ r.id = paired'[e].id /\ paired'[e].key = SharedSecret(r.call, r.id)
                                     /\ requests[r.call].by = e
    <3>1. CASE paired'[e] = paired[e]
      <4>1. paired[e] # NoPairing
        BY <2>1, <3>1
      <4>2. PICK r \in Enrolments : /\ r.id = paired[e].id /\ paired[e].key = SharedSecret(r.call, r.id)
                                    /\ requests[r.call].by = e
        BY <4>1 DEF OfEnrolments
      <4> QED
        BY <3>1, <4>2
    <3>2. CASE paired'[e] # paired[e]
      <4>1. e = d /\ paired'[e] = label
        BY <3>2 DEF PairingTypes
      <4> QED
        BY <2>1, <3>2, <4>1, <1>2
    <3> QED
      BY <3>1, <3>2
  <2> QED
    BY <2>1, <1>1, <1>5 DEF OfEnrolments
<1>8. CallsNumbered'
  <2>1. \A e \in Phone : asking'[e] # 0 => asking'[e] = asking[e]
    BY <1>1 DEF PairingTypes
  <2> QED
    BY <2>1, <1>1 DEF CallsNumbered
<1>9. RepliesTrue'
  <2>1. ASSUME NEW e \in Phone
        PROVE  /\ told'[e].as \in {"unpaired", "unlinked"} => Ended(told'[e].pairing.id)
               /\ told'[e].as = "unlinked" => told'[e].pairing.id \in unlinks
    <3>1. CASE e = d
      BY <3>1, <1>1, <1>3 DEF PairingTypes
    <3>2. CASE e # d
      BY <3>2, <1>1 DEF PairingTypes, RepliesTrue
    <3> QED
      BY <3>1, <3>2
  <2> QED
    BY <2>1, <1>1, <1>5 DEF RepliesTrue, Ended
<1> QED
  BY <1>4, <1>6, <1>7, <1>8, <1>9

LEMMA HearStep ==
  ASSUME PairingInv, NEW d \in Phone, Unheard(d) \/ \E reply \in replies : Heard(d, reply)
  PROVE  PairingInv'
<1>1. paired = [paired EXCEPT ![d] = paired[d]] /\ paired[d] \in Label /\ NoPairing \in Label
  BY SecretFacts DEF PairingInv, PairingTypes
<1>2. CASE Unheard(d)
  BY <1>1, <1>2, HearKeeps DEF Unheard
<1>3. ASSUME NEW reply \in replies, Heard(d, reply)
      PROVE  PairingInv'
  <2>1. /\ asking[d] # 0 /\ reply.call = asking[d] /\ Hear(d, reply.status)
        /\ reply.status \in Status /\ reply.id \in Nat
        /\ reply.status \in {"unpaired", "unlinked"} => Ended(requests[asking[d]].pairing.id)
        /\ reply.status = "unlinked" => requests[asking[d]].pairing.id \in unlinks
    BY <1>3 DEF Heard, openResponse, PairingInv, PairingTypes, HubReply, RepliesTrue
  <2>2. CASE reply.status = "paired"
    <3> DEFINE label == [id |-> reply.id, key |-> SharedSecret(asking[d], reply.id)]
    <3>1. paired' = [paired EXCEPT ![d] = label]
      BY <1>3, <2>2 DEF Heard
    <3>2. label \in Label /\ label.id = reply.id /\ label.key = SharedSecret(reply.call, reply.id)
      BY <2>1, SecretFacts DEF Label, PairingInv, PairingTypes
    <3>3. reply \in Enrolments
      BY <2>2 DEF Enrolments
    <3> HIDE DEF label
    <3> QED
      BY <2>1, <2>2, <3>1, <3>2, <3>3, HearKeeps
  <2>3. CASE reply.status \in {"unpaired", "unlinked"}
    <3>1. paired' = [paired EXCEPT ![d] = NoPairing]
      BY <1>3, <2>3 DEF Heard
    <3> QED
      BY <1>1, <2>1, <3>1, HearKeeps
  <2>4. CASE reply.status = "answered"
    <3>1. paired' = paired
      BY <1>3, <2>4 DEF Heard
    <3> QED
      BY <1>1, <2>1, <2>4, <3>1, HearKeeps
  <2> QED
    BY <2>1, <2>2, <2>3, <2>4 DEF Status
<1> QED
  BY <1>2, <1>3

LEMMA PairingSteps == PairingInv /\ [PairingNext]_pairingVars => PairingInv'
<1> SUFFICES ASSUME PairingInv, [PairingNext]_pairingVars PROVE PairingInv'
  OBVIOUS
<1>1. CASE UNCHANGED pairingVars
  <2>1. /\ pairings \subseteq Pairing /\ replies \subseteq HubReply /\ saved = pairings
        /\ \A q, r \in pairings : q.id = r.id => q = r
        /\ \A q \in pairings : q.unlinked => q.id \in unlinks
    BY DEF PairingInv, PairingTypes, OfEnrolments, RepliesTrue
  <2>2. HubStep
    BY <1>1, <2>1 DEF pairingVars, HubStep
  <2> QED
    BY <2>2, HubStepKeeps
<1>2. CASE PairingNext
  BY <1>2, CodeStep, RestartStep, UnlinkStep, LapseStep, CallStep, HearStep, EnrolStep, HandleStep, ForwardStep
     DEF PairingNext
<1> QED
  BY <1>1, <1>2

LEMMA PairingInvariant == PairingSpec => []PairingInv
BY PairingInitially, PairingSteps, PTL DEF PairingSpec

-----------------------------------------------------------------------------
(* What the devices and the hub can rely on *)

(* A device and the hub hold the same key for the pairing they agree on, no    *)
(* other device has it, and neither side forgets it by itself: through lost    *)
(* and repeated requests and replies, restarts of the hub, and other devices   *)
(* pairing beside it (pairing.ts, PairedDeviceStore).                          *)
THEOREM PairingIsKept == PairingSpec => []PairingKept
<1>1. PairingInv => SharedKey
  <2> SUFFICES ASSUME PairingInv PROVE SharedKey
    OBVIOUS
  <2>1. ASSUME NEW d \in Phone, paired[d] # NoPairing
        PROVE  /\ requests[paired[d].key.device].by = d
               /\ \A p \in pairings : p.id = paired[d].id => p.key = paired[d].key
               /\ \A e \in Phone \ {d} : paired[e].id # paired[d].id
    <3>1. PICK r \in Enrolments : /\ r.id = paired[d].id /\ paired[d].key = SharedSecret(r.call, r.id)
                                  /\ requests[r.call].by = d
      BY <2>1 DEF PairingInv, OfEnrolments
    <3>2. r.call \in Nat /\ r.id \in Nat /\ r.id # 0
      BY DEF PairingInv, PairingTypes, HubReply, Enrolments, EnrolmentsDiffer
    <3>3. requests[paired[d].key.device].by = d
      BY <3>1, <3>2, SecretFacts
    <3>4. \A p \in pairings : p.id = paired[d].id => p.key = paired[d].key
      BY <3>1 DEF PairingInv, OfEnrolments, EnrolmentsDiffer
    <3>5. ASSUME NEW e \in Phone \ {d}, paired[e].id = paired[d].id
          PROVE  FALSE
      <4>1. paired[e] # NoPairing
        BY <3>1, <3>2, <3>5, SecretFacts
      <4>2. PICK s \in Enrolments : s.id = paired[e].id /\ requests[s.call].by = e
        BY <4>1 DEF PairingInv, OfEnrolments
      <4>3. s = r
        BY <3>1, <3>5, <4>2 DEF PairingInv, EnrolmentsDiffer
      <4> QED
        BY <3>1, <4>2, <4>3
    <3> QED
      BY <3>3, <3>4, <3>5
  <2>2. ASSUME NEW p \in pairings, NEW q \in pairings, p.from = q.from
        PROVE  p = q
    <3>1. PICK r \in Enrolments : r.id = p.id /\ r.secret = CodeSecret(p.from)
      BY DEF PairingInv, OfEnrolments
    <3>2. PICK s \in Enrolments : s.id = q.id /\ s.secret = CodeSecret(q.from)
      BY DEF PairingInv, OfEnrolments
    <3>3. r = s
      BY <3>1, <3>2, <2>2 DEF PairingInv, EnrolmentsDiffer
    <3> QED
      BY <3>1, <3>2, <3>3 DEF PairingInv, OfEnrolments
  <2> QED
    BY <2>1, <2>2 DEF SharedKey
<1>2. PairingInv => StaysKnown
  BY DEF PairingInv, StaysKnown, OfEnrolments, EnrolmentsKnown
<1> QED
  BY <1>1, <1>2, PairingInvariant, PTL DEF PairingKept

(* A device is told it was unlinked only if the hub's user unlinked this very  *)
(* pairing, and after an unpair that succeeded the hub answers to none         *)
(* (pairing-gate.ts, http-backend.ts).                                         *)
THEOREM DevicesAreToldTheTruth == PairingSpec => []ToldTheTruth
<1>1. PairingInv => ToldTheTruth
  BY DEF PairingInv, ToldTheTruth, RepliesTrue, Ended
<1> QED
  BY <1>1, PairingInvariant, PTL
=============================================================================
