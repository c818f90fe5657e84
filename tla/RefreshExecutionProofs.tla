------------------------ MODULE RefreshExecutionProofs ------------------------
(***************************************************************************)
(* Theorems about a running refresh.  About RefreshExecution, for any      *)
(* number of counter lines: what the worker has made of the lines it has   *)
(* read, together with those that are still in the pipe, is what the       *)
(* runner has done.  About BrowserOwner, for any number of refreshes,      *)
(* connections, retries and faults: who can take the socket of an owner    *)
(* that serves away.  The two share no state.                              *)
(***************************************************************************)
EXTENDS RefreshExecution, BrowserOwner, TLAPS

-----------------------------------------------------------------------------
(* Lines *)

\* Line i of a pipe says that the refresh of m has begun; that it has ended.
Begins(p, i, m) == p[i].kind = "state" /\ p[i].source = m /\ p[i].state = "running"
Ends(p, i, m) == p[i].kind = "state" /\ p[i].source = m /\ p[i].state # "running"

LEMMA TailLines ==
  ASSUME NEW p \in Seq(Line), p # <<>>
  PROVE  /\ Tail(p) \in Seq(Line) /\ Head(p) = p[1] /\ Head(p) \in Line
         /\ Len(p) \in Nat /\ Len(p) >= 1 /\ Len(Tail(p)) = Len(p) - 1
         /\ \A i \in 1 .. Len(Tail(p)) : i + 1 \in 2 .. Len(p) /\ Tail(p)[i] = p[i + 1]
OBVIOUS

LEMMA OneMore ==
  ASSUME NEW p \in Seq(Line), NEW a \in Line
  PROVE  /\ Append(p, a) \in Seq(Line) /\ Len(p) \in Nat /\ Len(Append(p, a)) = Len(p) + 1
         /\ \A i \in 1 .. Len(p) : Append(p, a)[i] = p[i]
         /\ Append(p, a)[Len(p) + 1] = a
OBVIOUS

LEMMA TwoMore ==
  ASSUME NEW p \in Seq(Line), NEW a \in Line, NEW b \in Line
  PROVE  p \o <<a, b>> = Append(Append(p, a), b)
OBVIOUS

-----------------------------------------------------------------------------
(* A marketplace and the pipe *)

Unfinished == {"waiting", "running"}

\* The lines of m in the pipe p lead from what the worker has made of m to what the
\* runner has: s is source[m], e is memory[m] and c the worker's current marketplace.
Wire(p, m, s, e, c) ==
  /\ s = "waiting" => e = "waiting" /\ \A i \in 1 .. Len(p) : p[i].source # m
  /\ s # "waiting" /\ e = "waiting" =>
       \E i \in 1 .. Len(p) : Begins(p, i, m) /\ \A j \in 1 .. i - 1 : p[j].source # m
  /\ e # "waiting" => \A i \in 1 .. Len(p) : ~Begins(p, i, m)
  /\ \A i, j \in 1 .. Len(p) : Begins(p, i, m) /\ Begins(p, j, m) => i = j
  /\ \A i \in 1 .. Len(p) : Ends(p, i, m) => p[i].state = s /\ s \notin Unfinished
  /\ s \notin Unfinished => e = Mapped(s) \/ \E i \in 1 .. Len(p) : Ends(p, i, m)
  /\ e \in {"waiting", "running", Mapped(s)}
  /\ s = "running" =>
       /\ \A i, j \in 1 .. Len(p) : i <= j /\ p[i].source = m => p[j].source = m
       /\ e # "waiting" => c = m /\ \A i \in 1 .. Len(p) : p[i].source = m

\* What the runner prints

LEMMA WireOther ==
  ASSUME NEW p \in Seq(Line), NEW m, NEW s, NEW e, NEW c, Wire(p, m, s, e, c),
         NEW a \in Line, a.source # m, s # "running"
  PROVE  Wire(Append(p, a), m, s, e, c)
BY OneMore DEF Wire, Begins, Ends

LEMMA WireBegin ==
  ASSUME NEW p \in Seq(Line), NEW m, NEW e, NEW c, Wire(p, m, "waiting", e, c),
         NEW a \in Line, a.kind = "state", a.source = m, a.state = "running"
  PROVE  Wire(Append(p, a), m, "running", e, c)
BY OneMore DEF Wire, Begins, Ends, Unfinished, Mapped

LEMMA WireEnd ==
  ASSUME NEW p \in Seq(Line), NEW m, NEW e, NEW c, Wire(p, m, "running", e, c),
         NEW a \in Line, a.kind = "state", a.source = m, a.state \notin Unfinished
  PROVE  Wire(Append(p, a), m, a.state, e, c)
BY OneMore DEF Wire, Begins, Ends, Unfinished, Mapped

LEMMA WireMore ==
  ASSUME NEW p \in Seq(Line), NEW m, NEW s, NEW e, NEW c, Wire(p, m, s, e, c),
         NEW a \in Line, a.kind # "state", a.source = m, s # "waiting"
  PROVE  Wire(Append(p, a), m, s, e, c)
<1> DEFINE q == Append(p, a)
           n == Len(p) + 1
<1>1. /\ Len(p) \in Nat /\ Len(q) = n /\ \A i \in 1 .. Len(p) : q[i] = p[i]
      /\ q[n] = a
  BY OneMore
<1> HIDE DEF q
<1>2. n \in Int /\ 1 .. Len(q) = 1 .. Len(p) \cup {n} /\ \A i \in 1 .. Len(p) : i \in Int /\ i < n
  BY <1>1
<1> HIDE DEF n
<1>3. ~Begins(q, n, m) /\ ~Ends(q, n, m) /\ q[n].source = m
  BY <1>1 DEF Begins, Ends
<1>4. \A i \in 1 .. Len(p) : /\ Begins(q, i, m) <=> Begins(p, i, m)
                             /\ Ends(q, i, m) <=> Ends(p, i, m)
  BY <1>1 DEF Begins, Ends
<1>5. /\ \A i \in 1 .. Len(q) : Begins(q, i, m) => i \in 1 .. Len(p) /\ Begins(p, i, m)
      /\ \A i \in 1 .. Len(q) : Ends(q, i, m) => i \in 1 .. Len(p) /\ Ends(p, i, m)
      /\ \A i \in 1 .. Len(p) : i \in 1 .. Len(q)
  <2>1. ASSUME NEW i \in 1 .. Len(q), Begins(q, i, m) \/ Ends(q, i, m)
        PROVE  i \in 1 .. Len(p)
    <3>1. CASE i = n
      BY <1>3, <2>1, <3>1
    <3>2. CASE i # n
      BY <1>2, <3>2
    <3> QED BY <3>1, <3>2
  <2>2. \A i \in 1 .. Len(p) : i \in 1 .. Len(q)
    BY <1>2
  <2> QED BY <1>4, <2>1, <2>2
<1>6. \A i \in 1 .. Len(p) : Begins(q, i, m) /\ (\A j \in 1 .. i - 1 : p[j].source # m)
                              => \A j \in 1 .. i - 1 : q[j].source # m
  BY <1>1
<1>7. s = "running" => \A i, j \in 1 .. Len(q) : i =< j /\ q[i].source = m => q[j].source = m
  <2> SUFFICES ASSUME s = "running", NEW i \in 1 .. Len(q), NEW j \in 1 .. Len(q), i =< j,
                      q[i].source = m
               PROVE  q[j].source = m
    OBVIOUS
  <2>1. CASE j = n
    BY <1>3, <2>1
  <2>2. CASE j # n
    <3>1. i # n /\ i \in 1 .. Len(p) /\ j \in 1 .. Len(p)
      BY <1>2, <2>2
    <3> QED BY <1>1, <3>1 DEF Wire
  <2> QED BY <2>1, <2>2
<1>8. e # "waiting" /\ s = "running" => \A i \in 1 .. Len(q) : q[i].source = m
  BY <1>1, <1>2, <1>3 DEF Wire
<1>9. s # "waiting" /\ e = "waiting" =>
        \E i \in 1 .. Len(q) : Begins(q, i, m) /\ \A j \in 1 .. i - 1 : q[j].source # m
  <2> HAVE s # "waiting" /\ e = "waiting"
  <2>1. PICK i \in 1 .. Len(p) : Begins(p, i, m) /\ \A j \in 1 .. i - 1 : p[j].source # m
    BY DEF Wire
  <2>2. Begins(q, i, m) /\ i \in 1 .. Len(q)
    BY <1>4, <1>5, <2>1
  <2> QED BY <1>6, <2>1, <2>2
<1>10. s \notin Unfinished => e = Mapped(s) \/ \E i \in 1 .. Len(q) : Ends(q, i, m)
  BY <1>4, <1>5 DEF Wire
<1>11. \A i \in 1 .. Len(q) : Ends(q, i, m) => q[i].state = s /\ s \notin Unfinished
  BY <1>1, <1>5 DEF Wire
<1> QED BY <1>5, <1>7, <1>8, <1>9, <1>10, <1>11 DEF Wire, q

\* What the worker reads

LEMMA WireReadOther ==
  ASSUME NEW p \in Seq(Line), p # <<>>, NEW m, NEW s, NEW e, NEW c, NEW d, Wire(p, m, s, e, c),
         p[1].source # m
  PROVE  Wire(Tail(p), m, s, e, d)
<1> DEFINE t == Tail(p)
<1>1. /\ t \in Seq(Line) /\ Len(p) \in Nat /\ Len(p) >= 1 /\ Len(t) = Len(p) - 1
      /\ \A i \in 1 .. Len(t) : i + 1 \in 1 .. Len(p) /\ t[i] = p[i + 1]
  BY TailLines
<1>2. \A i \in 1 .. Len(p) : i # 1 => i - 1 \in 1 .. Len(t) /\ t[i - 1] = p[i]
  BY <1>1
<1> HIDE DEF t

<1>3. s = "waiting" => e = "waiting" /\ \A i \in 1 .. Len(t) : t[i].source # m
  BY <1>1 DEF Wire
<1>4. ASSUME s # "waiting", e = "waiting"
      PROVE  \E i \in 1 .. Len(t) : Begins(t, i, m) /\ \A j \in 1 .. i - 1 : t[j].source # m
  <2>1. PICK i \in 1 .. Len(p) : Begins(p, i, m) /\ \A j \in 1 .. i - 1 : p[j].source # m
    BY <1>4 DEF Wire
  <2>2. i # 1
    BY <2>1 DEF Begins
  <2>3. i - 1 \in 1 .. Len(t) /\ Begins(t, i - 1, m)
    BY <1>2, <2>1, <2>2 DEF Begins
  <2>4. \A j \in 1 .. (i - 1) - 1 : t[j].source # m
    BY <1>1, <2>1, <2>3
  <2> QED BY <2>3, <2>4
<1>5. e # "waiting" => \A i \in 1 .. Len(t) : ~Begins(t, i, m)
  BY <1>1 DEF Wire, Begins
<1>6. \A i, j \in 1 .. Len(t) : Begins(t, i, m) /\ Begins(t, j, m) => i = j
  <2> TAKE i, j \in 1 .. Len(t)
  <2>1. i + 1 \in 1 .. Len(p) /\ j + 1 \in 1 .. Len(p) /\ t[i] = p[i + 1] /\ t[j] = p[j + 1]
    BY <1>1
  <2>2. Begins(p, i + 1, m) /\ Begins(p, j + 1, m) => i + 1 = j + 1
    BY <2>1 DEF Wire
  <2> QED BY <2>1, <2>2 DEF Begins
<1>7. \A i \in 1 .. Len(t) : Ends(t, i, m) => t[i].state = s /\ s \notin Unfinished
  BY <1>1 DEF Wire, Ends
<1>8. s \notin Unfinished => e = Mapped(s) \/ \E i \in 1 .. Len(t) : Ends(t, i, m)
  BY <1>1, <1>2 DEF Wire, Ends
<1>9. s = "running" =>
        /\ \A i, j \in 1 .. Len(t) : i <= j /\ t[i].source = m => t[j].source = m
        /\ e = "waiting"
  <2> SUFFICES ASSUME s = "running"
               PROVE  /\ \A i, j \in 1 .. Len(t) : i <= j /\ t[i].source = m => t[j].source = m
                      /\ e = "waiting"
    OBVIOUS
  <2>1. e = "waiting"
    <3>1. 1 \in 1 .. Len(p)
      BY <1>1
    <3> QED BY <3>1 DEF Wire
  <2>2. ASSUME NEW i \in 1 .. Len(t), NEW j \in 1 .. Len(t), i <= j, t[i].source = m
        PROVE  t[j].source = m
    <3>1. i + 1 \in 1 .. Len(p) /\ j + 1 \in 1 .. Len(p) /\ t[i] = p[i + 1] /\ t[j] = p[j + 1]
          /\ i + 1 <= j + 1
      BY <1>1, <2>2
    <3> QED BY <2>2, <3>1 DEF Wire
  <2> QED BY <2>1, <2>2
<1>10. e \in {"waiting", "running", Mapped(s)}
  BY DEF Wire
<1>11. Wire(t, m, s, e, d)
  BY <1>3, <1>4, <1>5, <1>6, <1>7, <1>8, <1>9, <1>10 DEF Wire
<1> QED BY <1>11 DEF t

LEMMA WireReadBegin ==
  ASSUME NEW p \in Seq(Line), p # <<>>, NEW m, NEW s, NEW e, NEW c, Wire(p, m, s, e, c),
         Begins(p, 1, m)
  PROVE  e = "waiting" /\ s # "waiting" /\ Wire(Tail(p), m, s, "running", m)
<1> DEFINE t == Tail(p)
<1>1. /\ t \in Seq(Line) /\ Len(p) \in Nat /\ Len(p) >= 1 /\ Len(t) = Len(p) - 1
      /\ \A i \in 1 .. Len(t) : i + 1 \in 1 .. Len(p) /\ t[i] = p[i + 1]
  BY TailLines
<1>2. \A i \in 1 .. Len(p) : i # 1 => i - 1 \in 1 .. Len(t) /\ t[i - 1] = p[i]
  BY <1>1
<1> HIDE DEF t

<1>3. e = "waiting" /\ s # "waiting"
  BY <1>1 DEF Wire, Begins
<1>4. \A i \in 1 .. Len(t) : ~Begins(t, i, m)
  BY <1>1 DEF Wire, Begins
<1>5. \A i \in 1 .. Len(t) : Ends(t, i, m) => t[i].state = s /\ s \notin Unfinished
  BY <1>1 DEF Wire, Ends
<1>6. s \notin Unfinished => \E i \in 1 .. Len(t) : Ends(t, i, m)
  <2> SUFFICES ASSUME s \notin Unfinished PROVE \E i \in 1 .. Len(t) : Ends(t, i, m)
    OBVIOUS
  <2>1. e # Mapped(s)
    BY <1>3 DEF Mapped, Unfinished
  <2>2. PICK i \in 1 .. Len(p) : Ends(p, i, m)
    BY <2>1 DEF Wire
  <2>3. i # 1
    BY <2>2 DEF Begins, Ends
  <2> QED BY <1>2, <2>2, <2>3 DEF Ends
<1>7. s = "running" => \A i \in 1 .. Len(t) : t[i].source = m
  BY <1>1 DEF Wire, Begins
<1>8. Wire(t, m, s, "running", m)
  BY <1>3, <1>4, <1>5, <1>6, <1>7 DEF Wire
<1> QED BY <1>3, <1>8 DEF t

LEMMA WireReadEnd ==
  ASSUME NEW p \in Seq(Line), p # <<>>, NEW m, NEW s, NEW e, NEW c, Wire(p, m, s, e, c),
         Ends(p, 1, m)
  PROVE  e # "waiting" /\ p[1].state = s /\ s \notin Unfinished /\ Wire(Tail(p), m, s, Mapped(s), m)
BY TailLines DEF Wire, Begins, Ends, Unfinished, Mapped

LEMMA WireReadMore ==
  ASSUME NEW p \in Seq(Line), p # <<>>, NEW m, NEW s, NEW e, NEW c, NEW d \in {c, m},
         Wire(p, m, s, e, c), p[1].kind # "state", p[1].source = m
  PROVE  e # "waiting" /\ s # "waiting" /\ Wire(Tail(p), m, s, e, d)
<1> DEFINE t == Tail(p)
<1>1. /\ t \in Seq(Line) /\ Len(p) \in Nat /\ Len(p) >= 1 /\ Len(t) = Len(p) - 1
      /\ \A i \in 1 .. Len(t) : i + 1 \in 1 .. Len(p) /\ t[i] = p[i + 1]
  BY TailLines
<1>2. \A i \in 1 .. Len(p) : i # 1 => i - 1 \in 1 .. Len(t) /\ t[i - 1] = p[i]
  BY <1>1
<1> HIDE DEF t

<1>3. e # "waiting" /\ s # "waiting"
  <2>1. s # "waiting"
    BY <1>1 DEF Wire
  <2>2. ASSUME e = "waiting" PROVE FALSE
    <3>1. PICK i \in 1 .. Len(p) : Begins(p, i, m) /\ \A j \in 1 .. i - 1 : p[j].source # m
      BY <2>1, <2>2 DEF Wire
    <3>2. i # 1
      BY <3>1 DEF Begins
    <3> QED BY <1>1, <3>1, <3>2
  <2> QED BY <2>1, <2>2
<1>4. \A i \in 1 .. Len(t) : ~Begins(t, i, m)
  BY <1>1, <1>3 DEF Wire, Begins
<1>5. \A i \in 1 .. Len(t) : Ends(t, i, m) => t[i].state = s /\ s \notin Unfinished
  BY <1>1 DEF Wire, Ends
<1>6. s \notin Unfinished => e = Mapped(s) \/ \E i \in 1 .. Len(t) : Ends(t, i, m)
  BY <1>1, <1>2 DEF Wire, Ends
<1>7. s = "running" => d = m /\ \A i \in 1 .. Len(t) : t[i].source = m
  BY <1>1, <1>3 DEF Wire
<1>8. e \in {"waiting", "running", Mapped(s)}
  BY DEF Wire
<1>9. Wire(t, m, s, e, d)
  BY <1>3, <1>4, <1>5, <1>6, <1>7, <1>8 DEF Wire
<1> QED BY <1>3, <1>9 DEF t

\* Nothing is left to read.
LEMMA WireEmpty ==
  ASSUME NEW m, NEW s, NEW e, NEW c, Wire(<<>>, m, s, e, c)
  PROVE  e = Mapped(s) /\ (s = "running" => c = m)
BY DEF Wire, Unfinished, Mapped

-----------------------------------------------------------------------------
(* The invariant *)

\* The runner takes the marketplaces one after the other.
RunnerInv ==
  /\ phase = "preflight" => \A m \in Source : source[m] = "waiting"
  /\ phase = "buyee" => source["ebay"] = "waiting" /\ source["gripsweat"] = "waiting"
  /\ phase = "ebay" => source["buyee"] \notin Unfinished /\ source["gripsweat"] = "waiting"
  /\ phase = "gripsweat" => source["buyee"] \notin Unfinished /\ source["ebay"] \notin Unfinished
  /\ phase = "final" => \A m \in Source : source[m] \notin Unfinished
  /\ phase \in Source => source[phase] # "waiting"
  /\ \A m \in Source : source[m] = "running" => phase \in {m, "exited"}
  /\ \A m, n \in Source : source[m] = "running" /\ source[n] = "running" => m = n
  /\ exit = "none" <=> phase # "exited"
  /\ exit = "ok" => \A m \in Source : source[m] \notin Unfinished \cup {"failed"}

RowsMatch == \A m \in Marketplaces : rows[m].state = memory[m]

Reading ==
  /\ settled = "running"
  /\ \A m \in Marketplaces : /\ Wire(pipe, m, source[m], memory[m], current)
                             /\ memory[m] = "skipped" => rows[m].message = "stated"
  /\ current # None => memory[current] # "waiting"

\* What the rows say of m once everything is read: what the runner says, or where the
\* worker found that it had stopped.
Accounted(m) ==
  \/ memory[m] = Mapped(source[m]) /\ (memory[m] = "skipped" => rows[m].message = "stated")
  \/ exit = "error" /\ source[m] = "running" /\ memory[m] = "failed"
  \/ exit = "error" /\ source[m] = "waiting" /\ memory[m] = "skipped" /\ rows[m].message = "not reached"

Ended ==
  /\ settled = "running" /\ phase = "exited" /\ pipe = <<>>
  /\ \A m \in Marketplaces : Accounted(m) /\ (source[m] = "running" => current = m)
  /\ current # None => source[current] # "waiting"

Left ==
  /\ settled \notin {"running", "refused"} /\ phase = "exited"
  /\ settled = "failed" => \A m \in Marketplaces : Accounted(m) /\ memory[m] \notin Unfinished

ExecutionInv ==
  /\ ExecutionTypeOK /\ RunnerInv /\ RowsMatch /\ TimesAgree
  /\ reader = "reading" => Reading
  /\ reader = "ended" => Ended
  /\ reader = "left" => Left

-----------------------------------------------------------------------------
(* The runner *)

\* What m is left in is none of the states it passes through.
LEMMA OutcomesAreFinal ==
  ASSUME NEW m \in Source, NEW o \in Outcomes(m)
  PROVE  o \in SourceState /\ o \notin Unfinished
BY DEF Outcomes, Source, SourceState, Unfinished

\* The step of a runner says what it does: nothing, a report of the marketplace it is
\* at, or the beginning or the end of one.
LEMMA RunnerSays ==
  ASSUME SourceTypeOK, RunnerInv, RunnerNext
  PROVE  \/ UNCHANGED <<source, pipe>>
         \/ \E m \in Source, a \in Line :
              /\ a.kind # "state" /\ a.source = m /\ pipe' = Append(pipe, a)
              /\ source' = source /\ source[m] = "running"
              /\ \A n \in Source : n # m => source[n] # "running"
         \/ \E m \in Source, state \in SourceState :
              /\ Emit(m, state)
              /\ \/ source[m] = "waiting" /\ state = "running"
                 \/ source[m] = "running" /\ state \notin Unfinished
              /\ \A n \in Source : n # m => source[n] # "running"
<1>1. CASE Begin
  <2>1. Emit("buyee", "running") /\ \A m \in Source : source[m] = "waiting"
    BY <1>1 DEF Begin, RunnerInv
  <2>2. "buyee" \in Source /\ "running" \in SourceState
    BY DEF Source, SourceState
  <2> QED BY <2>1, <2>2
<1>2. ASSUME NEW kind \in {"visible", "progress"}, Report(kind)
      PROVE  \E m \in Source, a \in Line :
              /\ a.kind # "state" /\ a.source = m /\ pipe' = Append(pipe, a)
              /\ source' = source /\ source[m] = "running"
              /\ \A n \in Source : n # m => source[n] # "running"
  <2> DEFINE a == [kind |-> kind, source |-> phase]
  <2>1. phase \in Source /\ source[phase] = "running" /\ source' = source /\ pipe' = Append(pipe, a)
    BY <1>2 DEF Report
  <2>2. a \in Line /\ a.kind # "state" /\ a.source = phase
    BY <2>1 DEF Line
  <2>3. \A n \in Source : n # phase => source[n] # "running"
    BY <2>1 DEF RunnerInv
  <2> HIDE DEF a
  <2> QED BY <2>1, <2>2, <2>3
<1>3. ASSUME NEW outcome \in SourceState, Conclude(outcome)
      PROVE  \E m \in Source, state \in SourceState :
              /\ Emit(m, state)
              /\ source[m] = "running" /\ state \notin Unfinished
              /\ \A n \in Source : n # m => source[n] # "running"
  <2>1. phase \in Source /\ source[phase] = "running" /\ outcome \in Outcomes(phase) /\ Emit(phase, outcome)
    BY <1>3 DEF Conclude
  <2>2. \A n \in Source : n # phase => source[n] # "running"
    BY <2>1 DEF RunnerInv
  <2> QED BY <2>1, <2>2, OutcomesAreFinal
<1>4. CASE Advance
  <2>1. CASE phase = "gripsweat"
    BY <1>4, <2>1 DEF Advance
  <2>2. CASE phase # "gripsweat"
    <3>1. /\ phase \in {"buyee", "ebay"} /\ source[phase] # "running" /\ Emit(Following[phase], "running")
      BY <1>4, <2>2 DEF Advance, Source
    <3>2. Following[phase] \in Source /\ source[Following[phase]] = "waiting"
      BY <3>1 DEF Following, Source, RunnerInv
    <3>3. \A n \in Source : source[n] # "running"
      BY <3>1 DEF RunnerInv
    <3> QED BY <3>1, <3>2, <3>3 DEF SourceState
  <2> QED BY <2>1, <2>2
<1>5. CASE Raise \/ Finish
  BY <1>5 DEF Raise, Finish
<1> QED BY <1>1, <1>2, <1>3, <1>4, <1>5 DEF RunnerNext

LEMMA EmitLines ==
  ASSUME SourceTypeOK, NEW m \in Source, NEW state \in SourceState, Emit(m, state)
  PROVE  \E a, b \in Line :
           /\ a.kind = "state" /\ a.source = m /\ a.state = state
           /\ b.kind = "diagnostic" /\ b.source = m
           /\ pipe' = Append(Append(pipe, a), b)
           /\ source' = [source EXCEPT ![m] = state]
<1> DEFINE a == [kind |-> "state", source |-> m, state |-> state]
           b == [kind |-> "diagnostic", source |-> m]
<1>1. a \in Line /\ b \in Line
  BY DEF Line
<1>2. a.kind = "state" /\ a.source = m /\ a.state = state /\ b.kind = "diagnostic" /\ b.source = m
  OBVIOUS
<1>3. pipe' = pipe \o <<a, b>> /\ source' = [source EXCEPT ![m] = state]
  BY DEF Emit
<1> HIDE DEF a, b
<1>4. pipe' = Append(Append(pipe, a), b)
  BY <1>1, <1>3, TwoMore DEF SourceTypeOK
<1> QED BY <1>1, <1>2, <1>3, <1>4

LEMMA RunnerTypes ==
  ASSUME SourceTypeOK, RunnerInv, RunnerNext
  PROVE  SourceTypeOK'
<1>1. pipe' \in Seq(Line) /\ source' \in [Source -> SourceState]
  <2>1. ASSUME NEW m \in Source, NEW state \in SourceState, Emit(m, state)
        PROVE  pipe' \in Seq(Line) /\ source' \in [Source -> SourceState]
    <3>1. PICK a \in Line, b \in Line : /\ pipe' = Append(Append(pipe, a), b)
                                       /\ source' = [source EXCEPT ![m] = state]
      BY <2>1, EmitLines
    <3>2. pipe \in Seq(Line) /\ source \in [Source -> SourceState]
      BY DEF SourceTypeOK
    <3>3. Append(pipe, a) \in Seq(Line)
      BY <3>2, OneMore
    <3> QED BY <3>1, <3>2, <3>3, OneMore
  <2>2. ASSUME NEW a \in Line, pipe' = Append(pipe, a) PROVE pipe' \in Seq(Line)
    BY <2>2, OneMore DEF SourceTypeOK
  <2> QED BY <2>1, <2>2, RunnerSays DEF SourceTypeOK
<1>2. structured' = structured
  BY DEF RunnerNext, Begin, Report, Conclude, Advance, Raise, Finish
<1>3. phase' \in {"preflight", "final", "exited"} \cup Source
  BY DEF SourceTypeOK, RunnerNext, Begin, Report, Conclude, Advance, Raise, Finish, Following, Source
<1>4. reports' \in 0 .. MaxReports
  BY SourceAssumption DEF SourceTypeOK, RunnerNext, Begin, Report, Conclude, Advance, Raise, Finish
<1>5. exit' \in {"none", "ok", "error"}
  BY DEF SourceTypeOK, RunnerNext, Begin, Report, Conclude, Advance, Raise, Finish
<1> QED BY <1>1, <1>2, <1>3, <1>4, <1>5 DEF SourceTypeOK

LEMMA RunnerKeeps ==
  ASSUME SourceTypeOK, RunnerInv, RunnerNext
  PROVE  RunnerInv'
<1> USE DEF RunnerInv
<1>0. \A m \in Source, state \in SourceState : Emit(m, state) =>
        source'[m] = state /\ \A n \in Source : n # m => source'[n] = source[n]
  BY DEF Emit, SourceTypeOK
<1>1. CASE Begin
  <2>1. phase' = "buyee" /\ Emit("buyee", "running") /\ exit' = exit /\ phase = "preflight"
    BY <1>1 DEF Begin
  <2>2. source'["buyee"] = "running" /\ source'["ebay"] = "waiting" /\ source'["gripsweat"] = "waiting"
    BY <1>0, <2>1 DEF Source, SourceState
  <2> QED BY <2>1, <2>2 DEF Source, Unfinished
<1>2. ASSUME NEW kind \in {"visible", "progress"}, Report(kind) PROVE RunnerInv'
  BY <1>2 DEF Report
<1>3. ASSUME NEW outcome \in SourceState, Conclude(outcome) PROVE RunnerInv'
  <2>1. /\ phase \in Source /\ source[phase] = "running" /\ Emit(phase, outcome) /\ phase' = phase
        /\ exit' = exit /\ outcome \notin Unfinished
    BY <1>3, OutcomesAreFinal DEF Conclude
  <2>2. source'[phase] = outcome /\ \A n \in Source : n # phase => source'[n] = source[n]
    BY <1>0, <2>1
  <2> QED BY <2>1, <2>2 DEF Source, Unfinished
<1>4. CASE Advance
  <2>1. CASE phase = "gripsweat"
    BY <1>4, <2>1 DEF Advance, Following, Source, Unfinished
  <2>2. CASE phase # "gripsweat"
    <3>1. /\ phase \in {"buyee", "ebay"} /\ source[phase] # "running" /\ Emit(Following[phase], "running")
          /\ phase' = Following[phase] /\ exit' = exit
      BY <1>4, <2>2 DEF Advance, Source
    <3>2. source'[Following[phase]] = "running"
          /\ \A n \in Source : n # Following[phase] => source'[n] = source[n]
      BY <1>0, <3>1 DEF Following, Source, SourceState
    <3> QED BY <3>1, <3>2 DEF Following, Source, Unfinished
  <2> QED BY <2>1, <2>2
<1>5. CASE Raise
  BY <1>5 DEF Raise, Source
<1>6. CASE Finish
  <2>1. /\ phase = "final" /\ phase' = "exited" /\ source' = source
        /\ exit' = IF TerminalFailures = {} THEN "ok" ELSE "error"
    BY <1>6 DEF Finish
  <2>2. TerminalFailures = {} => \A m \in Source : source[m] # "failed"
    BY DEF TerminalFailures
  <2> QED BY <2>1, <2>2 DEF Source
<1> QED BY <1>1, <1>2, <1>3, <1>4, <1>5, <1>6 DEF RunnerNext

\* What the runner prints keeps the lines that are not read true.
LEMMA RunnerWires ==
  ASSUME SourceTypeOK, RunnerInv, RunnerNext,
         NEW m \in Source, NEW e, NEW c, Wire(pipe, m, source[m], e, c)
  PROVE  Wire(pipe', m, source'[m], e, c)
<1>1. pipe \in Seq(Line) /\ source \in [Source -> SourceState]
  BY DEF SourceTypeOK
<1>2. CASE UNCHANGED <<source, pipe>>
  BY <1>2
<1>3. ASSUME NEW k \in Source, NEW a \in Line,
             a.kind # "state", a.source = k, pipe' = Append(pipe, a),
             source' = source, source[k] = "running",
             \A n \in Source : n # k => source[n] # "running"
      PROVE  Wire(pipe', m, source'[m], e, c)
  <2>1. CASE k = m
    BY <1>1, <1>3, <2>1, WireMore
  <2>2. CASE k # m
    BY <1>1, <1>3, <2>2, WireOther
  <2> QED BY <2>1, <2>2
<1>4. ASSUME NEW k \in Source, NEW state \in SourceState, Emit(k, state),
             \/ source[k] = "waiting" /\ state = "running"
             \/ source[k] = "running" /\ state \notin Unfinished,
             \A n \in Source : n # k => source[n] # "running"
      PROVE  Wire(pipe', m, source'[m], e, c)
  <2>1. PICK a \in Line, b \in Line :
           /\ a.kind = "state" /\ a.source = k /\ a.state = state
           /\ b.kind = "diagnostic" /\ b.source = k
           /\ pipe' = Append(Append(pipe, a), b)
           /\ source' = [source EXCEPT ![k] = state]
    BY <1>4, EmitLines
  <2>2. Append(pipe, a) \in Seq(Line)
    BY <1>1, OneMore
  <2>3. CASE k = m
    <3>1. source'[m] = state /\ state # "waiting"
      BY <1>1, <1>4, <2>1, <2>3 DEF Unfinished
    <3>2. Wire(Append(pipe, a), m, state, e, c)
      <4>1. CASE source[k] = "waiting" /\ state = "running"
        BY <1>1, <2>1, <2>3, <4>1, WireBegin
      <4>2. CASE source[k] = "running" /\ state \notin Unfinished
        BY <1>1, <2>1, <2>3, <4>2, WireEnd
      <4> QED BY <1>4, <4>1, <4>2
    <3> QED BY <2>1, <2>2, <2>3, <3>1, <3>2, WireMore
  <2>4. CASE k # m
    <3>1. source'[m] = source[m] /\ source[m] # "running"
      BY <1>1, <1>4, <2>1, <2>4
    <3>2. Wire(Append(pipe, a), m, source[m], e, c)
      BY <1>1, <2>1, <2>4, <3>1, WireOther
    <3> QED BY <2>1, <2>2, <2>4, <3>1, <3>2, WireOther
  <2> QED BY <2>3, <2>4
<1> QED BY <1>2, <1>3, <1>4, RunnerSays

-----------------------------------------------------------------------------
(* The rows *)

\* Writing a row keeps its times in step with its state, and a finished one finished
\* unless it is told to wait or to run again.
LEMMA WriteKeeps ==
  ASSUME ProgressTypeOK, TimesAgree, NEW m \in Marketplaces, NEW state \in RowStates,
         NEW message \in Messages \cup {None},
         counted' \in [Marketplaces -> SUBSET {"visible", "progress"}],
         Write(m, state, message),
         state \in Unfinished => rows[m].state \in Unfinished
  PROVE  /\ rows' \in [Marketplaces -> Row]
         /\ rows'[m].state = state
         /\ rows'[m].message = IF message = None THEN rows[m].message ELSE message
         /\ \A n \in Marketplaces : n # m => rows'[n] = rows[n]
         /\ TimesAgree'
         /\ \A n \in Marketplaces : rows[n].finished = "set" => rows'[n].finished = "set"
<1> DEFINE row == [state |-> state,
                   started |-> IF state = "running" THEN "set" ELSE rows[m].started,
                   finished |-> IF state \in Finishing THEN "set"
                                ELSE IF state = "running" THEN "null" ELSE rows[m].finished,
                   counted |-> rows[m].counted \cup counted'[m],
                   message |-> IF message = None THEN rows[m].message ELSE message]
<1>1. rows \in [Marketplaces -> Row] /\ rows' = [rows EXCEPT ![m] = row]
  BY DEF ProgressTypeOK, Write
<1>2. rows[m] \in Row /\ counted'[m] \subseteq {"visible", "progress"}
  BY <1>1
<1>3. row \in Row
  <2>1. message # None => message \in Messages
    OBVIOUS
  <2> QED BY <1>2, <2>1 DEF Row
<1>4. row.state = state /\ row.message = IF message = None THEN rows[m].message ELSE message
  OBVIOUS
<1>5. state \in Finishing <=> state \notin Unfinished
  BY DEF Finishing, Unfinished, RowStates
<1>6. /\ row.state = "running" => row.started = "set" /\ row.finished = "null"
      /\ row.finished = "set" <=> row.state \notin {"waiting", "running"}
      /\ rows[m].finished = "set" => row.finished = "set"
  <2>1. rows[m].finished = "set" <=> rows[m].state \notin {"waiting", "running"}
    BY DEF TimesAgree
  <2> QED BY <1>5, <2>1 DEF Unfinished
<1> HIDE DEF row
<1>7. rows'[m] = row /\ \A n \in Marketplaces : n # m => rows'[n] = rows[n]
  BY <1>1
<1>8. rows' \in [Marketplaces -> Row]
  BY <1>1, <1>3
<1>9. TimesAgree'
  BY <1>6, <1>7 DEF TimesAgree
<1> QED BY <1>4, <1>6, <1>7, <1>8, <1>9

\* A line that is read brings its marketplace on, and only that.
LEMMA ConsumeEffect ==
  ASSUME ExecutionTypeOK, RowsMatch, Reading, pipe # <<>>, Consume(Head(pipe))
  PROVE  \E m \in Marketplaces, state \in RowStates, message \in Messages \cup {None} :
           /\ m = pipe[1].source
           /\ Write(m, state, message) /\ memory' = [memory EXCEPT ![m] = state]
           /\ counted' \in [Marketplaces -> SUBSET {"visible", "progress"}]
           /\ state \in Unfinished => rows[m].state \in Unfinished
           /\ state = "skipped" => message = "stated" \/ (message = None /\ memory[m] = "skipped")
           /\ state # "waiting" /\ current' \in {current, m}
           /\ Wire(Tail(pipe), m, source[m], state, current')
<1> DEFINE line == pipe[1]
           m == line.source
<1>1. pipe \in Seq(Line) /\ Head(pipe) = line /\ line \in Line
  BY TailLines DEF ExecutionTypeOK, SourceTypeOK
<1>2. m \in Marketplaces /\ m \in Source
  BY <1>1 DEF Line, Source, Marketplaces
<1>3. /\ memory \in [Marketplaces -> RowStates] /\ rows[m].state = memory[m]
      /\ counted \in [Marketplaces -> SUBSET {"visible", "progress"}]
      /\ memory[m] \in RowStates
  BY <1>2 DEF ExecutionTypeOK, ProgressTypeOK, RowsMatch
<1>4. Wire(pipe, m, source[m], memory[m], current)
  BY <1>2 DEF Reading
<1>5. Consume(line)
  BY <1>1
<1>6. line.kind \in {"state", "diagnostic", "visible", "progress"}
  BY <1>1 DEF Line
<1>7. CASE line.kind = "state"
  <2> DEFINE state == Mapped(line.state)
  <2>1. /\ current' = m /\ memory' = [memory EXCEPT ![m] = state] /\ counted' = counted
        /\ Write(m, state, "stated")
    BY <1>5, <1>7 DEF Consume, ConsumeState
  <2>2. line.state \in SourceState
    BY <1>1, <1>7 DEF Line
  <2>3. state \in RowStates
    BY <2>2 DEF Mapped, RowStates, SourceState
  <2>4. /\ state # "waiting" /\ Wire(Tail(pipe), m, source[m], state, m)
        /\ state \in Unfinished => memory[m] \in Unfinished
    <3>1. CASE line.state = "running"
      <4>1. Begins(pipe, 1, m)
        BY <1>7, <3>1 DEF Begins
      <4>2. memory[m] = "waiting" /\ Wire(Tail(pipe), m, source[m], "running", m)
        BY <1>1, <1>4, <4>1, WireReadBegin
      <4> QED BY <3>1, <4>2 DEF Mapped, Unfinished
    <3>2. CASE line.state # "running"
      <4>1. Ends(pipe, 1, m)
        BY <1>7, <3>2 DEF Ends
      <4>2. line.state = source[m] /\ source[m] \notin Unfinished
            /\ Wire(Tail(pipe), m, source[m], Mapped(source[m]), m)
        BY <1>1, <1>4, <4>1, WireReadEnd
      <4> QED BY <4>2 DEF Mapped, Unfinished
    <3> QED BY <3>1, <3>2
  <2> HIDE DEF state, m, line
  <2> QED BY <1>2, <1>3, <2>1, <2>3, <2>4 DEF line, m, Messages
<1>8. ASSUME line.kind # "state"
      PROVE  /\ memory[m] # "waiting"
             /\ \A d \in {current, m} : Wire(Tail(pipe), m, source[m], memory[m], d)
  BY <1>1, <1>4, <1>8, WireReadMore
<1>9. ASSUME line.kind # "state"
      PROVE  \E message \in {"stated", None} :
               /\ Write(m, memory[m], message) /\ memory' = memory /\ current' \in {current, m}
               /\ counted' \in [Marketplaces -> SUBSET {"visible", "progress"}]
  <2>1. CASE line.kind = "diagnostic"
    BY <1>3, <1>5, <2>1 DEF Consume, ConsumeDiagnostic
  <2>2. CASE line.kind = "visible"
    <3>1. ConsumeVisible(m)
      BY <1>5, <2>2 DEF Consume
    <3> QED BY <1>2, <1>3, <3>1 DEF ConsumeVisible
  <2>3. CASE line.kind = "progress"
    <3>1. ConsumeProgress(m)
      BY <1>5, <2>3 DEF Consume
    <3>2. Moving(memory[m]) = memory[m]
      BY <1>8, <1>9 DEF Moving
    <3> QED BY <1>2, <1>3, <3>1, <3>2 DEF ConsumeProgress
  <2> QED BY <1>6, <1>9, <2>1, <2>2, <2>3
<1>10. CASE line.kind # "state"
  <2>1. PICK message \in {"stated", None} :
               /\ Write(m, memory[m], message) /\ memory' = memory /\ current' \in {current, m}
               /\ counted' \in [Marketplaces -> SUBSET {"visible", "progress"}]
    BY <1>9, <1>10
  <2>2. memory' = [memory EXCEPT ![m] = memory[m]] /\ message \in Messages \cup {None}
    BY <1>3, <2>1 DEF Messages
  <2>3. memory[m] # "waiting" /\ Wire(Tail(pipe), m, source[m], memory[m], current')
    BY <1>8, <1>10, <2>1
  <2> HIDE DEF m, line
  <2> QED BY <1>2, <1>3, <2>1, <2>2, <2>3 DEF line, m
<1> QED BY <1>7, <1>10

LEMMA ReadKeeps ==
  ASSUME ExecutionInv, Read
  PROVE  /\ ExecutionInv'
         /\ \A n \in Marketplaces : rows[n].finished = "set" => rows'[n].finished = "set"
<1> USE DEF ExecutionInv
<1>1. /\ reader = "reading" /\ pipe # <<>> /\ Consume(Head(pipe)) /\ pipe' = Tail(pipe)
      /\ UNCHANGED <<structured, phase, source, reports, exit, reader, lease, settled>>
  BY DEF Read
<1>2. PICK m \in Marketplaces, state \in RowStates, message \in Messages \cup {None} :
           /\ m = pipe[1].source
           /\ Write(m, state, message) /\ memory' = [memory EXCEPT ![m] = state]
           /\ counted' \in [Marketplaces -> SUBSET {"visible", "progress"}]
           /\ state \in Unfinished => rows[m].state \in Unfinished
           /\ state = "skipped" => message = "stated" \/ (message = None /\ memory[m] = "skipped")
           /\ state # "waiting" /\ current' \in {current, m}
           /\ Wire(Tail(pipe), m, source[m], state, current')
  BY <1>1, ConsumeEffect
<1>3. pipe \in Seq(Line) /\ memory \in [Marketplaces -> RowStates] /\ ProgressTypeOK
  BY DEF ExecutionTypeOK, SourceTypeOK, ProgressTypeOK
<1>4. /\ rows' \in [Marketplaces -> Row] /\ rows'[m].state = state
      /\ rows'[m].message = IF message = None THEN rows[m].message ELSE message
      /\ \A n \in Marketplaces : n # m => rows'[n] = rows[n]
      /\ TimesAgree'
      /\ \A n \in Marketplaces : rows[n].finished = "set" => rows'[n].finished = "set"
  BY <1>2, <1>3, WriteKeeps
<1>5. memory'[m] = state /\ \A n \in Marketplaces : n # m => memory'[n] = memory[n]
  BY <1>2, <1>3
<1>6. ExecutionTypeOK'
  <2>1. pipe' \in Seq(Line)
    BY <1>1, <1>3, TailLines
  <2>2. SourceTypeOK'
    BY <1>1, <2>1 DEF ExecutionTypeOK, SourceTypeOK
  <2>3. ProgressTypeOK'
    BY <1>2, <1>3, <1>4 DEF ProgressTypeOK
  <2> QED BY <1>1, <2>2, <2>3 DEF ExecutionTypeOK
<1>7. RunnerInv'
  BY <1>1 DEF RunnerInv
<1>8. RowsMatch'
  BY <1>4, <1>5 DEF RowsMatch
<1>9. Reading'
  <2>1. Reading
    BY <1>1
  <2>2. settled' = "running"
    BY <1>1, <2>1 DEF Reading
  <2>3. ASSUME NEW n \in Marketplaces
        PROVE  /\ Wire(pipe', n, source'[n], memory'[n], current')
               /\ memory'[n] = "skipped" => rows'[n].message = "stated"
    <3>1. Wire(pipe, n, source[n], memory[n], current) /\ (memory[n] = "skipped" => rows[n].message = "stated")
      BY <2>1 DEF Reading
    <3>2. CASE n = m
      BY <1>1, <1>2, <1>4, <1>5, <3>1, <3>2 DEF Messages, None
    <3>3. CASE n # m
      <4>1. Wire(Tail(pipe), n, source[n], memory[n], current')
        BY <1>1, <1>2, <1>3, <3>1, <3>3, WireReadOther
      <4> QED BY <1>1, <1>4, <1>5, <3>1, <3>3, <4>1
    <3> QED BY <3>2, <3>3
  <2>4. current' # None => memory'[current'] # "waiting"
    <3>1. current \in Marketplaces \cup {None}
      BY <1>3 DEF ProgressTypeOK
    <3> QED BY <1>2, <1>5, <2>1, <3>1 DEF Reading
  <2> QED BY <2>2, <2>3, <2>4 DEF Reading
<1> QED BY <1>1, <1>4, <1>6, <1>7, <1>8, <1>9

LEMMA RunKeeps ==
  ASSUME ExecutionInv, Run
  PROVE  ExecutionInv' /\ rows' = rows
<1> USE DEF ExecutionInv
<1>1. RunnerNext /\ UNCHANGED <<memory, current, counted, rows, reader, lease, settled>>
  BY DEF Run, progressVars
<1>2. phase # "exited" /\ reader = "reading"
  <2>1. phase # "exited"
    BY <1>1 DEF RunnerNext, Begin, Report, Conclude, Advance, Raise, Finish, Source
  <2> QED BY <2>1 DEF ExecutionTypeOK, Ended, Left
<1>3. SourceTypeOK' /\ RunnerInv'
  BY <1>1, RunnerTypes, RunnerKeeps DEF ExecutionTypeOK
<1>4. ExecutionTypeOK'
  BY <1>1, <1>3 DEF ExecutionTypeOK, ProgressTypeOK
<1>5. RowsMatch' /\ TimesAgree'
  BY <1>1 DEF RowsMatch, TimesAgree
<1>6. Reading'
  <2>1. Reading
    BY <1>2
  <2>2. ASSUME NEW m \in Marketplaces PROVE Wire(pipe', m, source'[m], memory[m], current)
    <3>1. m \in Source /\ Wire(pipe, m, source[m], memory[m], current)
      BY <2>1 DEF Reading, Source, Marketplaces
    <3> QED BY <1>1, <3>1, RunnerWires DEF ExecutionTypeOK
  <2> QED BY <1>1, <2>1, <2>2 DEF Reading
<1> QED BY <1>1, <1>2, <1>3, <1>4, <1>5, <1>6

-----------------------------------------------------------------------------
(* The end of an attempt *)

\* When everything is read, the worker knows what the runner knew.
LEMMA EndOfOutputKeeps ==
  ASSUME ExecutionInv, EndOfOutput
  PROVE  ExecutionInv'
<1> USE DEF ExecutionInv
<1>1. /\ reader = "reading" /\ pipe = <<>> /\ phase = "exited" /\ reader' = "ended"
      /\ UNCHANGED <<structured, phase, source, reports, pipe, exit, memory, current, counted, rows,
                     lease, settled>>
  BY DEF EndOfOutput, sourceVars, progressVars
<1>2. ExecutionTypeOK' /\ RunnerInv' /\ RowsMatch' /\ TimesAgree'
  BY <1>1 DEF ExecutionTypeOK, SourceTypeOK, ProgressTypeOK, RunnerInv, RowsMatch, TimesAgree
<1>3. Ended
  <2>1. Reading
    BY <1>1
  <2>2. ASSUME NEW m \in Marketplaces
        PROVE  memory[m] = Mapped(source[m]) /\ (source[m] = "running" => current = m)
    <3>1. Wire(<<>>, m, source[m], memory[m], current)
      BY <1>1, <2>1 DEF Reading
    <3> QED BY <3>1, WireEmpty
  <2>3. current # None => source[current] # "waiting"
    BY <2>1, <2>2 DEF Reading, Mapped, ExecutionTypeOK, ProgressTypeOK
  <2> QED BY <1>1, <2>1, <2>2, <2>3 DEF Ended, Accounted, Reading
<1>4. Ended'
  BY <1>1, <1>3 DEF Ended, Accounted
<1> QED BY <1>1, <1>2, <1>4

LEMMA FinalizeRowKeeps ==
  ASSUME ExecutionInv, reader = "ended", exit = "error", FinalizeRow,
         UNCHANGED <<reader, lease, settled, sourceVars>>
  PROVE  /\ ExecutionInv'
         /\ \A n \in Marketplaces : rows[n].finished = "set" => rows'[n].finished = "set"
<1> USE DEF ExecutionInv
<1>1. /\ memory \in [Marketplaces -> RowStates] /\ current \in Marketplaces \cup {None}
      /\ ProgressTypeOK /\ Ended /\ source \in [Source -> SourceState]
      /\ UNCHANGED <<structured, phase, source, reports, pipe, exit, reader, lease, settled>>
  BY DEF ExecutionTypeOK, SourceTypeOK, ProgressTypeOK, sourceVars
<1>2. \A m \in Open : m \in Marketplaces /\ memory[m] \in Unfinished /\ memory[m] = Mapped(source[m])
                     /\ (memory[m] = "running" => current = m)
                     /\ source[m] = memory[m]
  BY <1>1 DEF Open, Ended, Accounted, Unfinished, Mapped
<1>3. \E m \in Marketplaces, state \in {"failed", "skipped"}, message \in {"execution failed", "not reached"} :
        /\ memory' = [memory EXCEPT ![m] = state] /\ UNCHANGED <<current, counted>>
        /\ Write(m, state, message) /\ m \in Open
        /\ \/ source[m] = "running" /\ state = "failed"
           \/ source[m] = "waiting" /\ state = "skipped" /\ message = "not reached"
  <2>1. CASE FinalizeCurrent
    <3>1. /\ current \in Open /\ memory' = [memory EXCEPT ![current] = "failed"]
          /\ UNCHANGED <<current, counted>> /\ Write(current, "failed", "execution failed")
      BY <2>1 DEF FinalizeCurrent
    <3>2. current \in Marketplaces /\ source[current] = "running"
      <4>1. current \in Marketplaces /\ source[current] = memory[current] /\ memory[current] \in Unfinished
        BY <1>2, <3>1
      <4>2. current # None
        BY <4>1 DEF Marketplaces, None
      <4> QED BY <1>1, <4>1, <4>2 DEF Ended, Unfinished
    <3> QED BY <3>1, <3>2
  <2>2. ASSUME NEW m \in Marketplaces, FinalizeOther(m)
        PROVE  /\ memory' = [memory EXCEPT ![m] = "skipped"] /\ UNCHANGED <<current, counted>>
               /\ Write(m, "skipped", "not reached") /\ m \in Open /\ source[m] = "waiting"
    <3>1. m \in Open /\ current \notin Open
      BY <2>2 DEF FinalizeOther
    <3>2. memory[m] = "waiting" /\ source[m] = "waiting"
      BY <1>2, <3>1 DEF Unfinished
    <3> QED BY <2>2, <3>1, <3>2 DEF FinalizeOther
  <2> QED BY <2>1, <2>2 DEF FinalizeRow
<1>4. PICK m \in Marketplaces, state \in {"failed", "skipped"}, message \in {"execution failed", "not reached"} :
        /\ memory' = [memory EXCEPT ![m] = state] /\ UNCHANGED <<current, counted>>
        /\ Write(m, state, message) /\ m \in Open
        /\ \/ source[m] = "running" /\ state = "failed"
           \/ source[m] = "waiting" /\ state = "skipped" /\ message = "not reached"
  BY <1>3
<1>5. state \in RowStates /\ message \in Messages \cup {None} /\ state \notin Unfinished /\ message # None
      /\ counted' \in [Marketplaces -> SUBSET {"visible", "progress"}]
  BY <1>1, <1>4 DEF RowStates, Messages, Unfinished, None, ProgressTypeOK
<1>6. /\ rows' \in [Marketplaces -> Row] /\ rows'[m].state = state /\ rows'[m].message = message
      /\ \A n \in Marketplaces : n # m => rows'[n] = rows[n]
      /\ TimesAgree'
      /\ \A n \in Marketplaces : rows[n].finished = "set" => rows'[n].finished = "set"
  BY <1>1, <1>4, <1>5, WriteKeeps
<1>7. memory'[m] = state /\ \A n \in Marketplaces : n # m => memory'[n] = memory[n]
  BY <1>1, <1>4
<1>8. ExecutionTypeOK' /\ RunnerInv' /\ RowsMatch'
  BY <1>1, <1>4, <1>5, <1>6, <1>7 DEF ExecutionTypeOK, SourceTypeOK, ProgressTypeOK, RunnerInv, RowsMatch
<1>9. Ended'
  <2>1. ASSUME NEW n \in Marketplaces PROVE Accounted(n)'
    <3>1. CASE n = m
      BY <1>1, <1>4, <1>6, <1>7, <3>1 DEF Accounted
    <3>2. CASE n # m
      BY <1>1, <1>6, <1>7, <3>2 DEF Accounted, Ended
    <3> QED BY <3>1, <3>2
  <2> QED BY <1>1, <1>4, <2>1 DEF Ended
<1> QED BY <1>1, <1>6, <1>8, <1>9

\* The attempt ends as it stands; one that succeeds finds every row completable.
LEMMA LeaveKeeps ==
  ASSUME ExecutionInv, NEW how \in {"completed", "failed", "refused", "aborted", "abandoned"},
         Leave(how), UNCHANGED <<progressVars, structured, source, reports>>,
         \/ UNCHANGED <<phase, pipe, exit>> /\ phase = "exited"
         \/ /\ phase' = "exited" /\ pipe' = <<>>
            /\ exit' = IF exit = "none" THEN "error" ELSE exit,
         how # "refused",
         how = "failed" => UNCHANGED exit /\ \A m \in Marketplaces : Accounted(m) /\ memory[m] \notin Unfinished
  PROVE  ExecutionInv'
<1> USE DEF ExecutionInv
<1>1. /\ reader' = "left" /\ settled' = how /\ lease' = lease /\ phase' = "exited"
      /\ UNCHANGED <<memory, current, counted, rows, structured, source, reports>>
  BY DEF Leave, progressVars
<1>2. ExecutionTypeOK'
  <2>1. pipe \in Seq(Line) /\ exit \in {"none", "ok", "error"}
    BY DEF ExecutionTypeOK, SourceTypeOK
  <2>2. pipe' \in Seq(Line)
    <3>1. pipe' = pipe \/ pipe' = <<>>
      OBVIOUS
    <3>2. <<>> \in Seq(Line)
      OBVIOUS
    <3> QED BY <2>1, <3>1, <3>2 DEF Line
  <2>3. exit' \in {"none", "ok", "error"}
    BY <2>1
  <2> QED BY <1>1, <2>2, <2>3 DEF ExecutionTypeOK, SourceTypeOK, ProgressTypeOK
<1>3. RunnerInv'
  <2>1. /\ exit' # "none" /\ (exit' = "ok" => exit = "ok")
    BY DEF RunnerInv, ExecutionTypeOK, SourceTypeOK
  <2> QED BY <1>1, <2>1 DEF RunnerInv, Source
<1>4. RowsMatch' /\ TimesAgree'
  BY <1>1 DEF RowsMatch, TimesAgree
<1>5. Left'
  BY <1>1 DEF Left, Accounted
<1> QED BY <1>1, <1>2, <1>3, <1>4, <1>5

LEMMA CompleteKeeps ==
  ASSUME ExecutionInv, Complete
  PROVE  ExecutionInv'
<1>1. /\ reader = "ended" /\ exit = "ok"
      /\ UNCHANGED <<structured, phase, source, reports, pipe, exit, progressVars>>
  BY DEF Complete, sourceVars
<1>2. phase = "exited"
  BY <1>1 DEF ExecutionInv, Ended
<1>3. ASSUME NEW m \in Marketplaces
      PROVE  rows[m].state \in {"done", "skipped", "authentication_required", "awaiting_handoff"}
  <2>1. m \in Source /\ source[m] \in SourceState /\ source[m] \notin Unfinished \cup {"failed"}
    BY <1>1 DEF ExecutionInv, RunnerInv, ExecutionTypeOK, SourceTypeOK, Marketplaces, Source
  <2>2. rows[m].state = Mapped(source[m])
    BY <1>1 DEF ExecutionInv, Ended, Accounted, RowsMatch
  <2> QED BY <2>1, <2>2 DEF SourceState, Mapped, Unfinished
<1>4. Leave("completed")
  BY <1>3 DEF Complete
<1> QED BY <1>1, <1>2, <1>4, LeaveKeeps

LEMMA FinalizeFailureKeeps ==
  ASSUME ExecutionInv, FinalizeFailure
  PROVE  /\ ExecutionInv'
         /\ \A n \in Marketplaces : rows[n].finished = "set" => rows'[n].finished = "set"
<1>1. /\ reader = "ended" /\ exit = "error" /\ UNCHANGED sourceVars
  BY DEF FinalizeFailure
<1>2. CASE FinalizeRow /\ UNCHANGED <<reader, lease, settled>>
  BY <1>1, <1>2, FinalizeRowKeeps
<1>3. CASE Open = {} /\ Leave("failed") /\ UNCHANGED progressVars
  <2>1. phase = "exited" /\ UNCHANGED <<structured, phase, source, reports, pipe, exit>>
    BY <1>1 DEF ExecutionInv, Ended, sourceVars
  <2>2. \A m \in Marketplaces : Accounted(m) /\ memory[m] \notin Unfinished
    BY <1>1, <1>3 DEF ExecutionInv, Ended, Open, Unfinished
  <2>3. rows' = rows
    BY <1>3 DEF progressVars
  <2> QED BY <1>3, <2>1, <2>2, <2>3, LeaveKeeps
<1> QED BY <1>2, <1>3 DEF FinalizeFailure

LEMMA AbandonKeeps ==
  ASSUME ExecutionInv, Abandon
  PROVE  ExecutionInv'
<1>1. /\ reader = "ended" /\ Leave("abandoned")
      /\ UNCHANGED <<structured, phase, source, reports, pipe, exit, progressVars>>
  BY DEF Abandon, sourceVars
<1>2. phase = "exited"
  BY <1>1 DEF ExecutionInv, Ended
<1> QED BY <1>1, <1>2, LeaveKeeps

LEMMA TerminateKeeps ==
  ASSUME ExecutionInv, NEW how \in {"aborted", "abandoned"}, Terminate(how)
  PROVE  ExecutionInv'
<1>1. /\ phase' = "exited" /\ pipe' = <<>> /\ exit' = IF exit = "none" THEN "error" ELSE exit
      /\ Leave(how) /\ UNCHANGED <<structured, source, reports, progressVars>>
  BY DEF Terminate
<1> QED BY <1>1, LeaveKeeps

\* What changes nothing but the lease
LEMMA AsideKeeps ==
  ASSUME ExecutionInv, lease' \in {"held", "lost"},
         UNCHANGED <<structured, phase, source, reports, pipe, exit, memory, current, counted, rows,
                     reader, settled>>
  PROVE  ExecutionInv'
<1> USE DEF ExecutionInv
<1>1. ExecutionTypeOK' /\ RunnerInv' /\ RowsMatch' /\ TimesAgree'
  BY DEF ExecutionTypeOK, SourceTypeOK, ProgressTypeOK, RunnerInv, RowsMatch, TimesAgree
<1>2. (reader = "reading" => Reading') /\ (reader = "ended" => Ended') /\ (reader = "left" => Left')
  BY DEF Reading, Ended, Left, Accounted
<1> QED BY <1>1, <1>2

-----------------------------------------------------------------------------
(* The theorems *)

LEMMA ExecutionInitInv == ExecutionInit => ExecutionInv
<1> SUFFICES ASSUME ExecutionInit PROVE ExecutionInv
  OBVIOUS
<1> USE DEF ExecutionInit, SourceInit, ProgressInit
<1>1. SourceTypeOK
  BY SourceAssumption DEF SourceTypeOK, SourceState
<1>2. ProgressTypeOK
  BY DEF ProgressTypeOK, Row, RowStates, Messages, Marketplaces
<1>3. RunnerInv
  BY DEF RunnerInv, Source
<1>4. RowsMatch /\ TimesAgree
  BY DEF RowsMatch, TimesAgree
<1>5. ASSUME NEW m \in Marketplaces PROVE Wire(pipe, m, source[m], memory[m], current)
  BY DEF Wire, Unfinished, Marketplaces, Source
<1>6. Reading
  BY <1>5 DEF Reading
<1> QED BY <1>1, <1>2, <1>3, <1>4, <1>6 DEF ExecutionInv, ExecutionTypeOK

LEMMA ExecutionStep ==
  ExecutionInv /\ [ExecutionNext]_executionVars =>
    /\ ExecutionInv'
    /\ \A n \in Marketplaces : rows[n].finished = "set" => rows'[n].finished = "set"
<1> SUFFICES ASSUME ExecutionInv, [ExecutionNext]_executionVars
             PROVE  /\ ExecutionInv'
                    /\ \A n \in Marketplaces : rows[n].finished = "set" => rows'[n].finished = "set"
  OBVIOUS
<1>1. CASE UNCHANGED executionVars \/ Over
  <2>1. UNCHANGED <<structured, phase, source, reports, pipe, exit, memory, current, counted, rows,
                     reader, lease, settled>>
    BY <1>1 DEF executionVars, Over
  <2>2. lease' \in {"held", "lost"}
    BY <2>1 DEF ExecutionInv, ExecutionTypeOK
  <2> QED BY <2>1, <2>2, AsideKeeps
<1>2. CASE Run
  BY <1>2, RunKeeps
<1>3. CASE Read
  BY <1>3, ReadKeeps
<1>4. CASE LoseLease
  <2>1. UNCHANGED <<structured, phase, source, reports, pipe, exit, memory, current, counted, rows,
                     reader, settled>> /\ lease' = "lost"
    BY <1>4 DEF LoseLease, sourceVars, progressVars
  <2> QED BY <2>1, AsideKeeps
<1>5. CASE EndOfOutput
  BY <1>5, EndOfOutputKeeps DEF EndOfOutput, progressVars
<1>6. CASE Complete
  BY <1>6, CompleteKeeps DEF Complete, progressVars
<1>7. CASE FinalizeFailure
  BY <1>7, FinalizeFailureKeeps
<1>8. CASE Abandon
  BY <1>8, AbandonKeeps DEF Abandon, progressVars
<1>9. CASE \E how \in {"aborted", "abandoned"} : Terminate(how)
  BY <1>9, TerminateKeeps DEF Terminate, progressVars
<1> QED BY <1>1, <1>2, <1>3, <1>4, <1>5, <1>6, <1>7, <1>8, <1>9 DEF ExecutionNext

\* The invariant: what is read and what is still to be read is what the runner did.
THEOREM ExecutionInvHolds == ExecutionSpec => []ExecutionInv
<1>1. ExecutionInv /\ [ExecutionNext]_executionVars => ExecutionInv'
  BY ExecutionStep
<1> QED BY <1>1, ExecutionInitInv, PTL DEF ExecutionSpec

\* A runner that ends with status 0 leaves rows that mark_refresh_job_completed accepts.
THEOREM SuccessIsCompletableHolds == ExecutionSpec => []SuccessIsCompletable
<1>1. ExecutionInv => SuccessIsCompletable
  BY DEF ExecutionInv, ExecutionTypeOK, Reading, Ended, Left, SuccessIsCompletable
<1> QED BY <1>1, ExecutionInvHolds, PTL

\* After a success the rows say what the runner's own status says.
THEOREM RowsAgreeHolds == ExecutionSpec => []RowsAgree
<1>1. ExecutionInv => RowsAgree
  BY DEF ExecutionInv, Ended, Accounted, RowsMatch, RowsAgree
<1> QED BY <1>1, ExecutionInvHolds, PTL

\* After a failure the web shows of each marketplace where the refresh stopped.
THEOREM FailureShowsWhereHolds == ExecutionSpec => []FailureShowsWhere
<1>1. ASSUME ExecutionInv, settled = "failed", NEW m \in Marketplaces
      PROVE  Shown("failed", rows[m]) =
               CASE source[m] = "waiting" -> "not_run"
                 [] source[m] \in {"running", "failed"} -> "failed"
                 [] OTHER -> source[m]
  <2>1. Left
    BY <1>1 DEF ExecutionInv, ExecutionTypeOK, Reading, Ended
  <2>2. Accounted(m) /\ memory[m] \notin Unfinished /\ rows[m].state = memory[m]
        /\ source[m] \in SourceState
    BY <1>1, <2>1 DEF Left, ExecutionInv, RowsMatch, ExecutionTypeOK, SourceTypeOK, Marketplaces, Source
  <2>3. CASE memory[m] = Mapped(source[m]) /\ (memory[m] = "skipped" => rows[m].message = "stated")
    <3>1. source[m] \notin Unfinished
      BY <2>2, <2>3 DEF Mapped, Unfinished
    <3>2. CASE source[m] = "unavailable"
      BY <2>2, <2>3, <3>2 DEF Mapped, Shown
    <3>3. CASE source[m] # "unavailable"
      BY <2>2, <2>3, <3>1, <3>3 DEF Mapped, Shown, SourceState, Unfinished
    <3> QED BY <3>2, <3>3
  <2>4. CASE source[m] = "running" /\ memory[m] = "failed"
    BY <2>2, <2>4 DEF Shown
  <2>5. CASE source[m] = "waiting" /\ memory[m] = "skipped" /\ rows[m].message = "not reached"
    BY <2>2, <2>5 DEF Shown
  <2> QED BY <2>2, <2>3, <2>4, <2>5 DEF Accounted
<1>2. ExecutionInv => FailureShowsWhere
  BY <1>1 DEF FailureShowsWhere
<1> QED BY <1>2, ExecutionInvHolds, PTL

\* started_at and finished_at go with the state of the row.
THEOREM TimesAgreeHolds == ExecutionSpec => []TimesAgree
<1>1. ExecutionInv => TimesAgree
  BY DEF ExecutionInv
<1> QED BY <1>1, ExecutionInvHolds, PTL

\* What has finished stays finished: no line of a marketplace that begins it is left
\* behind one that ended it.
THEOREM ProgressIsMonotoneHolds == ExecutionSpec => ProgressIsMonotone
<1>1. ExecutionInv /\ [ExecutionNext]_executionVars =>
        [\A m \in Marketplaces :
           rows[m].finished = "set" => rows'[m].finished = "set"]_executionVars
  BY ExecutionStep
<1> QED BY <1>1, ExecutionInvHolds, PTL DEF ExecutionSpec, ProgressIsMonotone
(* The owner of the browser: what scripts, owners and their queues keep     *)

OwnerRow ==
  [at : {"none", "starting", "launching", "serving", "closing", "gone"},
   stop : BOOLEAN, window : BOOLEAN, busy : BOOLEAN, queue : Seq(Request)]

RunRow ==
  [at : Ensuring \cup {"new", "ready", "job", "read", "close", "over"},
   asked : BOOLEAN, main : BOOLEAN, tries : 0 .. MaxTries - 1,
   saw : {"nothing", "absent", "refused", "full"}]

Asking == {"first", "wait", "job", "close"}
Opening == {"starting", "launching"}
Before == {"new"} \cup (Ensuring \ {"wait"})

\* Who has asked waits for an answer to a question.
AskersWait == \A r \in Refresh : run[r].asked => run[r].at \in Asking

\* A connection that is not given up belongs to one that has asked, and is its only one.
AskersAreInLine ==
  \A o \in Owner : \A i \in 1 .. Len(owner[o].queue) :
    owner[o].queue[i].from # Nobody => run[owner[o].queue[i].from].asked

OnceInLine ==
  \A o, p \in Owner : \A i \in 1 .. Len(owner[o].queue), j \in 1 .. Len(owner[p].queue) :
    owner[o].queue[i].from # Nobody /\ owner[o].queue[i].from = owner[p].queue[j].from
      => o = p /\ i = j

\* An owner at a job has it at the head of its queue.
BusyAtHead == \A o \in Owner : owner[o].busy => owner[o].at = "serving" /\ owner[o].queue # <<>>

\* The lock of the ensure script has one holder.
OneScript == \A r, q \in Refresh : run[r].at \in Holding /\ run[q].at \in Holding => r = q

\* The script of an owner that is not up yet waits for it, or it is one of those left.
OpeningIsAwaited ==
  \A o \in Owner : owner[o].at \in Opening /\ o \notin left => run[o].at = "wait"

\* What a script is about to remove, and did not find full, serves nobody, or was left.
StaleUnlessLeft ==
  \A r \in Refresh : run[r].at = "remove" /\ run[r].saw # "full" =>
    \A o \in Owner : sock = o /\ Serving(o) => o \in left

\* Who has not started an owner has none.
StartsOnce == \A r \in Refresh : run[r].at \in Before => owner[r].at = "none"

QueueInv == AskersWait /\ AskersAreInLine /\ OnceInLine /\ BusyAtHead
PlaceInv == OneScript /\ OpeningIsAwaited /\ StaleUnlessLeft /\ StartsOnce
OwnerInv == OwnerTypeOK /\ QueueInv /\ PlaceInv

\* A refresh goes on, without a lock, a start, or a finding that it had not had: it stops
\* waiting when its owner is up, or leaves it.
GoesOn(r) ==
  /\ \A q \in Refresh \ {r} : run'[q] = run[q]
  /\ run'[r].at \in Holding => run[r].at \in Holding
  /\ run'[r].at \in Before => run[r].at \in Before
  /\ run[r].at = "wait" => run'[r].at = "wait" \/ r \in left' \/ owner'[r].at \notin Opening
  /\ run'[r].at = "remove" => run[r].at = "remove" /\ run'[r].saw = run[r].saw

\* No owner starts or comes up.
NobodyComes ==
  /\ \A o \in Owner :
       /\ owner'[o].at \in Opening => owner[o].at \in Opening
       /\ owner[o].at = "none" => owner'[o].at = "none"
       /\ Serving(o)' => Serving(o)
  /\ sock' \in {sock, Nobody}
  /\ left \subseteq left'

\* No owner changes but for its queue, and none of the queues becomes empty.
OwnersLookTheSame ==
  \A o \in Owner : /\ owner'[o].at = owner[o].at /\ owner'[o].stop = owner[o].stop
                   /\ owner'[o].window = owner[o].window /\ owner'[o].busy = owner[o].busy
                   /\ owner[o].queue # <<>> => owner'[o].queue # <<>>

LEMMA OwnerTypes ==
  ASSUME OwnerTypeOK
  PROVE  /\ sock \in Owner \cup {Nobody} /\ owner \in [Owner -> OwnerRow]
         /\ run \in [Refresh -> RunRow] /\ left \subseteq Owner /\ faults \in 0 .. MaxFaults
BY DEF OwnerTypeOK, OwnerRow, RunRow

LEMMA OwnerTypesBack ==
  ASSUME sock' \in Owner \cup {Nobody}, owner' \in [Owner -> OwnerRow],
         run' \in [Refresh -> RunRow], left' \subseteq Owner, faults' \in 0 .. MaxFaults
  PROVE  OwnerTypeOK'
BY DEF OwnerTypeOK, OwnerRow, RunRow

LEMMA NoRefreshIsNobody == Nobody \notin Refresh
BY DEF Nobody, Refresh

LEMMA FaultCounts ==
  ASSUME OwnerTypeOK, Fault
  PROVE  faults' \in 0 .. MaxFaults
BY OwnerAssumption DEF OwnerTypeOK, Fault

-----------------------------------------------------------------------------
(* A refresh moves *)

RunPlaces == Ensuring \cup {"new", "ready", "job", "read", "close", "over"}

LEMMA RunOverRow ==
  /\ RunOver \in RunRow
  /\ RunOver.at = "over" /\ RunOver.asked = FALSE
<1>1. 0 \in 0 .. MaxTries - 1
  BY OwnerAssumption
<1> QED BY <1>1 DEF RunOver, NoRun, RunRow

LEMMA MovedEffect ==
  ASSUME OwnerTypeOK, NEW r \in Refresh, NEW at \in RunPlaces
  PROVE  /\ Moved(r, at) \in [Refresh -> RunRow]
         /\ \A q \in Refresh \ {r} : Moved(r, at)[q] = run[q]
         /\ Moved(r, at)[r].asked = FALSE
         /\ Moved(r, at)[r].at \in {at, "over"}
         /\ at \notin {"ready", "over"} => Moved(r, at)[r].at = at
         /\ Moved(r, at)[r].at # "over" => Moved(r, at)[r].saw = run[r].saw
                                            /\ Moved(r, at)[r].tries = run[r].tries
<1> DEFINE t == IF at = "over" \/ (at = "ready" /\ ~run[r].main) THEN RunOver
                ELSE [run[r] EXCEPT !.at = at, !.asked = FALSE]
<1>1. run \in [Refresh -> RunRow] /\ run[r] \in RunRow
  BY OwnerTypes
<1>2. Moved(r, at) = [run EXCEPT ![r] = t]
  BY DEF Moved
<1>3. /\ t \in RunRow /\ t.asked = FALSE /\ t.at \in {at, "over"}
      /\ at \notin {"ready", "over"} => t.at = at
      /\ t.at # "over" => t.saw = run[r].saw /\ t.tries = run[r].tries
  BY <1>1, RunOverRow DEF RunRow, RunPlaces
<1> HIDE DEF t
<1> QED BY <1>1, <1>2, <1>3

\* Where an answer or its absence leads to
LEMMA AnswerPlaces ==
  ASSUME NEW at \in Asking
  PROVE  /\ Onward[at] \in RunPlaces /\ Otherwise[at] \in RunPlaces
         /\ Onward[at] # "remove" /\ Otherwise[at] # "remove"
         /\ Onward[at] \in Holding => at \in Holding
         /\ Otherwise[at] \in Holding => at \in Holding
         /\ Onward[at] \notin Before
         /\ Otherwise[at] \in Before => at \in Before
         /\ at = "wait" => Otherwise[at] = "wait"
BY DEF Asking, Onward, Otherwise, RunPlaces, Before, Ensuring, Holding

\* Whoever moves on, but not to remove a file, goes on.
LEMMA MovedGoesOn ==
  ASSUME OwnerTypeOK, NEW r \in Refresh, NEW at \in RunPlaces, run' = Moved(r, at),
         at # "remove",
         at \in Holding => run[r].at \in Holding,
         at \in Before => run[r].at \in Before,
         run[r].at = "wait" => at = "wait" \/ r \in left' \/ owner'[r].at \notin Opening
  PROVE  run' \in [Refresh -> RunRow] /\ run'[r].asked = FALSE /\ GoesOn(r)
<1>1. /\ run' \in [Refresh -> RunRow] /\ run'[r].asked = FALSE
      /\ \A q \in Refresh \ {r} : run'[q] = run[q]
      /\ run'[r].at \in {at, "over"}
      /\ at \notin {"ready", "over"} => run'[r].at = at
  <2> DEFINE m == Moved(r, at)
  <2>1. /\ m \in [Refresh -> RunRow] /\ m[r].asked = FALSE
        /\ \A q \in Refresh \ {r} : m[q] = run[q]
        /\ m[r].at \in {at, "over"}
        /\ at \notin {"ready", "over"} => m[r].at = at
    BY MovedEffect
  <2>2. run' = m
    OBVIOUS
  <2> HIDE DEF m
  <2> QED BY <2>1, <2>2
<1>2. "over" \notin Holding \cup Before
  BY DEF Holding, Before, Ensuring
<1> QED BY <1>1, <1>2 DEF GoesOn

-----------------------------------------------------------------------------
(* Queues *)

\* No entry that is still waited for is new, or moves but with its whole queue.
LEMMA QueuesShrink ==
  ASSUME OwnerTypeOK, AskersAreInLine, OnceInLine,
         owner' \in [Owner -> OwnerRow],
         NEW d \in [Owner -> {0, 1}],
         \A o \in Owner : \A j \in 1 .. Len(owner'[o].queue) :
           owner'[o].queue[j].from # Nobody =>
             /\ j + d[o] \in 1 .. Len(owner[o].queue)
             /\ owner'[o].queue[j].from = owner[o].queue[j + d[o]].from
             /\ run'[owner'[o].queue[j].from].asked = run[owner'[o].queue[j].from].asked
  PROVE  AskersAreInLine' /\ OnceInLine'
<1>1. AskersAreInLine'
  <2> SUFFICES ASSUME NEW o \in Owner, NEW j \in 1 .. Len(owner'[o].queue),
                      owner'[o].queue[j].from # Nobody
               PROVE  run'[owner'[o].queue[j].from].asked
    BY DEF AskersAreInLine
  <2>1. run[owner'[o].queue[j].from].asked
    BY DEF AskersAreInLine
  <2> QED BY <2>1
<1>2. OnceInLine'
  <2> SUFFICES ASSUME NEW o \in Owner, NEW p \in Owner,
                      NEW i \in 1 .. Len(owner'[o].queue), NEW j \in 1 .. Len(owner'[p].queue),
                      owner'[o].queue[i].from # Nobody,
                      owner'[o].queue[i].from = owner'[p].queue[j].from
               PROVE  o = p /\ i = j
    BY DEF OnceInLine
  <2> DEFINE k == i + d[o]
             l == j + d[p]
  <2>1. /\ k \in 1 .. Len(owner[o].queue) /\ l \in 1 .. Len(owner[p].queue)
        /\ owner[o].queue[k].from # Nobody /\ owner[o].queue[k].from = owner[p].queue[l].from
    OBVIOUS
  <2>2. d[o] \in {0, 1} /\ i \in Int /\ j \in Int
    OBVIOUS
  <2> HIDE DEF k, l
  <2>3. o = p /\ k = l
    BY <2>1 DEF OnceInLine
  <2> QED BY <2>2, <2>3 DEF k, l
<1> QED BY <1>1, <1>2

\* A connection is added, of somebody who is not in line.
LEMMA SendKeeps ==
  ASSUME OwnerTypeOK, AskersAreInLine, OnceInLine, NEW from \in Refresh \cup {Nobody},
         NEW what \in {"health", "probe", "job", "shutdown"}, Listening, Send(from, what),
         from # Nobody => ~run[from].asked /\ run'[from].asked,
         \A q \in Refresh \ {from} : run'[q].asked = run[q].asked
  PROVE  /\ owner' \in [Owner -> OwnerRow]
         /\ AskersAreInLine' /\ OnceInLine'
         /\ OwnersLookTheSame
<1> DEFINE s == sock
           e == [from |-> from, what |-> what]
           grown == Append(owner[s].queue, e)
           n == Len(owner[s].queue) + 1
<1>1. owner \in [Owner -> OwnerRow] /\ s \in Owner /\ owner[s] \in OwnerRow
  BY OwnerTypes DEF Listening
<1>2. owner[s].queue \in Seq(Request) /\ e \in Request /\ e.from = from
  BY <1>1 DEF OwnerRow, Request
<1>3. /\ grown \in Seq(Request) /\ Len(owner[s].queue) \in Nat /\ Len(grown) = n
      /\ \A i \in 1 .. n - 1 : grown[i] = owner[s].queue[i]
      /\ grown[n] = e /\ grown # <<>>
  BY <1>2
<1>4. owner' = [owner EXCEPT ![s] = [owner[s] EXCEPT !.queue = grown]]
  BY <1>1 DEF Send
<1> HIDE DEF grown, e
<1>5. /\ owner'[s].queue = grown /\ owner'[s] \in OwnerRow
      /\ owner'[s].at = owner[s].at /\ owner'[s].stop = owner[s].stop
      /\ owner'[s].window = owner[s].window /\ owner'[s].busy = owner[s].busy
  BY <1>1, <1>3, <1>4 DEF OwnerRow
<1>6. \A o \in Owner \ {s} : owner'[o] = owner[o]
  BY <1>1, <1>4
<1>7. owner' \in [Owner -> OwnerRow]
  BY <1>1, <1>4, <1>5
<1>8. \A o \in Owner : \A i \in 1 .. Len(owner'[o].queue) :
        \/ i \in 1 .. Len(owner[o].queue) /\ owner'[o].queue[i] = owner[o].queue[i]
        \/ o = s /\ i = n /\ owner'[o].queue[i].from = from
  <2> TAKE o \in Owner
  <2>1. CASE o = s
    BY <1>2, <1>3, <1>5, <2>1
  <2>2. CASE o # s
    BY <1>6, <2>2
  <2> QED BY <2>1, <2>2
\* The sender is in no line yet.
<1>9. from # Nobody => \A o \in Owner : \A i \in 1 .. Len(owner[o].queue) :
                         owner[o].queue[i].from # from
  BY DEF AskersAreInLine
<1>10. \A o \in Owner : \A i \in 1 .. Len(owner[o].queue) :
         owner[o].queue[i].from \in Refresh \cup {Nobody}
  <2> TAKE o \in Owner
  <2>1. owner[o].queue \in Seq(Request)
    BY <1>1 DEF OwnerRow
  <2> TAKE i \in 1 .. Len(owner[o].queue)
  <2>2. owner[o].queue[i] \in Request
    BY <2>1
  <2> QED BY <2>2 DEF Request
<1> HIDE DEF n, s
<1>11. AskersAreInLine'
  <2> SUFFICES ASSUME NEW o \in Owner, NEW i \in 1 .. Len(owner'[o].queue),
                      owner'[o].queue[i].from # Nobody
               PROVE  run'[owner'[o].queue[i].from].asked
    BY DEF AskersAreInLine
  <2>1. CASE i \in 1 .. Len(owner[o].queue) /\ owner'[o].queue[i] = owner[o].queue[i]
    BY <1>9, <1>10, <2>1 DEF AskersAreInLine
  <2>2. CASE owner'[o].queue[i].from = from
    BY <2>2
  <2> QED BY <1>8, <2>1, <2>2
<1>12. OnceInLine'
  <2> SUFFICES ASSUME NEW o \in Owner, NEW p \in Owner,
                      NEW i \in 1 .. Len(owner'[o].queue), NEW j \in 1 .. Len(owner'[p].queue),
                      owner'[o].queue[i].from # Nobody,
                      owner'[o].queue[i].from = owner'[p].queue[j].from
               PROVE  o = p /\ i = j
    BY DEF OnceInLine
  <2>1. CASE o = s /\ i = n /\ owner'[o].queue[i].from = from
    <3>1. ~(j \in 1 .. Len(owner[p].queue) /\ owner'[p].queue[j] = owner[p].queue[j])
      BY <1>9, <2>1
    <3>2. p = s /\ j = n
      BY <1>8, <3>1
    <3> QED BY <2>1, <3>2
  <2>2. CASE p = s /\ j = n /\ owner'[p].queue[j].from = from
    <3>1. ~(i \in 1 .. Len(owner[o].queue) /\ owner'[o].queue[i] = owner[o].queue[i])
      BY <1>9, <2>2
    <3>2. o = s /\ i = n
      BY <1>8, <3>1
    <3> QED BY <2>2, <3>2
  <2>3. CASE /\ i \in 1 .. Len(owner[o].queue) /\ owner'[o].queue[i] = owner[o].queue[i]
             /\ j \in 1 .. Len(owner[p].queue) /\ owner'[p].queue[j] = owner[p].queue[j]
    BY <2>3 DEF OnceInLine
  <2> QED BY <1>8, <2>1, <2>2, <2>3
<1>13. \A o \in Owner : owner[o].queue # <<>> => owner'[o].queue # <<>>
  BY <1>3, <1>5, <1>6
<1> QED BY <1>5, <1>6, <1>7, <1>11, <1>12, <1>13 DEF OwnersLookTheSame

\* The client's connections are given up, wherever they are.
LEMMA HangUpKeeps ==
  ASSUME OwnerTypeOK, AskersAreInLine, OnceInLine, NEW r \in Refresh, HangUp(r),
         \A q \in Refresh \ {r} : run'[q].asked = run[q].asked
  PROVE  /\ owner' \in [Owner -> OwnerRow]
         /\ AskersAreInLine' /\ OnceInLine'
         /\ OwnersLookTheSame
<1> DEFINE Hung(s) == [i \in DOMAIN s |-> IF s[i].from = r THEN [s[i] EXCEPT !.from = Nobody] ELSE s[i]]
<1>1. owner \in [Owner -> OwnerRow]
  BY OwnerTypes
<1>2. ASSUME NEW s \in Seq(Request)
      PROVE  /\ Hung(s) \in Seq(Request) /\ Len(Hung(s)) = Len(s)
             /\ \A i \in 1 .. Len(s) : Hung(s)[i].from # Nobody =>
                  Hung(s)[i].from = s[i].from /\ s[i].from # r
  <2> DEFINE Cut(c) == IF c.from = r THEN [c EXCEPT !.from = Nobody] ELSE c
  <2>1. ASSUME NEW c \in Request
        PROVE  /\ Cut(c) \in Request
               /\ Cut(c).from # Nobody => Cut(c).from = c.from /\ c.from # r
    BY DEF Request
  <2>2. DOMAIN s = 1 .. Len(s) /\ Len(s) \in Nat /\ \A i \in 1 .. Len(s) : s[i] \in Request
    OBVIOUS
  <2>3. Hung(s) = [i \in 1 .. Len(s) |-> Cut(s[i])]
    BY <2>2
  <2> HIDE DEF Cut, Hung
  <2>4. Hung(s) \in [1 .. Len(s) -> Request]
    BY <2>1, <2>2, <2>3
  <2>5. Hung(s) \in Seq(Request) /\ Len(Hung(s)) = Len(s)
    BY <2>2, <2>4
  <2> QED BY <2>1, <2>2, <2>3, <2>5
<1>3. owner' = [o \in Owner |-> [owner[o] EXCEPT !.queue = Hung(owner[o].queue)]]
  BY DEF HangUp
<1> HIDE DEF Hung
<1>4. ASSUME NEW o \in Owner
      PROVE  /\ owner[o].queue \in Seq(Request)
             /\ owner'[o].queue = Hung(owner[o].queue)
             /\ owner'[o].at = owner[o].at /\ owner'[o].stop = owner[o].stop
             /\ owner'[o].window = owner[o].window /\ owner'[o].busy = owner[o].busy
             /\ owner'[o] \in OwnerRow
  <2>1. owner[o] \in OwnerRow /\ owner'[o] = [owner[o] EXCEPT !.queue = Hung(owner[o].queue)]
    BY <1>1, <1>3
  <2>2. owner[o].queue \in Seq(Request)
    BY <2>1 DEF OwnerRow
  <2>3. Hung(owner[o].queue) \in Seq(Request)
    BY <1>2, <2>2
  <2> QED BY <2>1, <2>2, <2>3 DEF OwnerRow
<1>5. owner' \in [Owner -> OwnerRow]
  BY <1>3, <1>4
<1>6. ASSUME NEW o \in Owner
      PROVE  /\ Len(owner'[o].queue) = Len(owner[o].queue) /\ Len(owner[o].queue) \in Nat
             /\ owner'[o].queue \in Seq(Request)
             /\ \A i \in 1 .. Len(owner[o].queue) : owner'[o].queue[i].from # Nobody =>
                  owner'[o].queue[i].from = owner[o].queue[i].from /\ owner[o].queue[i].from # r
  BY <1>2, <1>4
<1> DEFINE d == [o \in Owner |-> 0]
<1>7. \A o \in Owner : \A j \in 1 .. Len(owner'[o].queue) :
        owner'[o].queue[j].from # Nobody =>
          /\ j + d[o] \in 1 .. Len(owner[o].queue)
          /\ owner'[o].queue[j].from = owner[o].queue[j + d[o]].from
          /\ run'[owner'[o].queue[j].from].asked = run[owner'[o].queue[j].from].asked
  <2> TAKE o \in Owner
  <2> TAKE j \in 1 .. Len(owner'[o].queue)
  <2> HAVE owner'[o].queue[j].from # Nobody
  <2>1. j \in 1 .. Len(owner[o].queue) /\ d[o] = 0 /\ j + d[o] = j
    BY <1>6
  <2>2. owner'[o].queue[j].from = owner[o].queue[j].from /\ owner'[o].queue[j].from # r
    BY <1>6, <2>1
  <2>3. owner'[o].queue[j] \in Request
    BY <1>6
  <2>4. owner'[o].queue[j].from \in Refresh \ {r}
    BY <2>2, <2>3 DEF Request
  <2> QED BY <2>1, <2>2, <2>4
<1>8. d \in [Owner -> {0, 1}]
  OBVIOUS
<1> HIDE DEF d
<1>9. AskersAreInLine' /\ OnceInLine'
  BY <1>5, <1>7, <1>8, QueuesShrink
<1>10. \A o \in Owner : owner[o].queue # <<>> => owner'[o].queue # <<>>
  <2> TAKE o \in Owner
  <2>1. owner[o].queue \in Seq(Request) /\ owner'[o].queue \in Seq(Request)
    BY <1>4, <1>6
  <2> QED BY <1>6, <2>1
<1> QED BY <1>4, <1>5, <1>9, <1>10 DEF OwnersLookTheSame

\* The first connection of an owner is dealt with.
LEMMA HeadGoes ==
  ASSUME OwnerTypeOK, AskersAreInLine, OnceInLine, NEW o \in Owner, owner[o].queue # <<>>,
         owner' \in [Owner -> OwnerRow], owner'[o].queue = Tail(owner[o].queue),
         \A p \in Owner \ {o} : owner'[p] = owner[p],
         \A q \in Refresh : q # Head(owner[o].queue).from => run'[q].asked = run[q].asked
  PROVE  AskersAreInLine' /\ OnceInLine'
<1> DEFINE d == [p \in Owner |-> IF p = o THEN 1 ELSE 0]
           first == owner[o].queue[1]
<1>1. owner \in [Owner -> OwnerRow]
  BY OwnerTypes
<1>2. \A p \in Owner : owner[p].queue \in Seq(Request) /\ owner'[p].queue \in Seq(Request)
  BY <1>1 DEF OwnerRow
<1>3. /\ Len(owner[o].queue) \in Nat /\ Len(owner[o].queue) >= 1
      /\ Len(owner'[o].queue) = Len(owner[o].queue) - 1
      /\ \A i \in 1 .. Len(owner'[o].queue) : owner'[o].queue[i] = owner[o].queue[i + 1]
      /\ Head(owner[o].queue) = first
  BY <1>2
<1>4. \A p \in Owner : \A i \in 1 .. Len(owner[p].queue) :
        owner[p].queue[i].from # Nobody /\ owner[p].queue[i].from = first.from => p = o /\ i = 1
  <2>1. 1 \in 1 .. Len(owner[o].queue)
    BY <1>3
  <2> QED BY <2>1 DEF OnceInLine
<1>5. \A p \in Owner : \A j \in 1 .. Len(owner'[p].queue) :
        owner'[p].queue[j].from # Nobody =>
          /\ j + d[p] \in 1 .. Len(owner[p].queue)
          /\ owner'[p].queue[j].from = owner[p].queue[j + d[p]].from
          /\ run'[owner'[p].queue[j].from].asked = run[owner'[p].queue[j].from].asked
  <2> TAKE p \in Owner
  <2> TAKE j \in 1 .. Len(owner'[p].queue)
  <2> HAVE owner'[p].queue[j].from # Nobody
  <2>1. /\ j + d[p] \in 1 .. Len(owner[p].queue)
        /\ owner'[p].queue[j] = owner[p].queue[j + d[p]]
        /\ ~(p = o /\ j + d[p] = 1)
    <3>1. CASE p = o
      <4>1. d[p] = 1 /\ j \in 1 .. Len(owner'[o].queue)
        BY <3>1
      <4>2. /\ j \in Int /\ j + d[p] = j + 1 /\ j + 1 # 1
            /\ j + 1 \in 1 .. Len(owner[o].queue)
        BY <1>3, <4>1
      <4>3. owner'[o].queue[j] = owner[o].queue[j + 1]
        BY <1>3, <4>1
      <4> QED BY <3>1, <4>2, <4>3
    <3>2. CASE p # o
      <4>1. d[p] = 0 /\ owner'[p] = owner[p] /\ Len(owner[p].queue) \in Nat /\ j + d[p] = j
        BY <1>2, <3>2
      <4> QED BY <3>2, <4>1
    <3> QED BY <3>1, <3>2
  <2>2. owner'[p].queue[j].from # first.from
    BY <1>4, <2>1
  <2>3. owner'[p].queue[j] \in Request
    BY <1>2
  <2>4. owner'[p].queue[j].from \in Refresh
    BY <2>3 DEF Request
  <2> QED BY <1>3, <2>1, <2>2, <2>4
<1>6. d \in [Owner -> {0, 1}]
  OBVIOUS
<1> HIDE DEF d
<1> QED BY <1>5, <1>6, QueuesShrink

\* An owner that ends leaves nobody in its line.
LEMMA QueueGoes ==
  ASSUME OwnerTypeOK, AskersAreInLine, OnceInLine, NEW o \in Owner, run' = run,
         owner' \in [Owner -> OwnerRow], owner'[o].queue = <<>> \/ owner'[o].queue = owner[o].queue,
         \A p \in Owner \ {o} : owner'[p] = owner[p]
  PROVE  AskersAreInLine' /\ OnceInLine'
<1> DEFINE d == [p \in Owner |-> 0]
<1>1. owner \in [Owner -> OwnerRow]
  BY OwnerTypes
<1>2. \A p \in Owner : owner[p].queue \in Seq(Request)
  BY <1>1 DEF OwnerRow
<1>3. \A p \in Owner : \A j \in 1 .. Len(owner'[p].queue) :
        owner'[p].queue[j].from # Nobody =>
          /\ j + d[p] \in 1 .. Len(owner[p].queue)
          /\ owner'[p].queue[j].from = owner[p].queue[j + d[p]].from
          /\ run'[owner'[p].queue[j].from].asked = run[owner'[p].queue[j].from].asked
  <2> TAKE p \in Owner
  <2>1. CASE owner'[p].queue = <<>>
    BY <2>1
  <2>2. CASE owner'[p].queue = owner[p].queue
    BY <1>2, <2>2
  <2> QED BY <2>1, <2>2
<1>4. d \in [Owner -> {0, 1}]
  OBVIOUS
<1> HIDE DEF d
<1> QED BY <1>3, <1>4, QueuesShrink

\* What an owner's answer to the first in its line does to who has asked
LEMMA ReplyEffect ==
  ASSUME OwnerTypeOK, QueueInv, NEW o \in Owner, owner[o].queue # <<>>, NEW good \in BOOLEAN,
         Reply(o, Head(owner[o].queue), good), owner'[o].at \notin Opening
  PROVE  /\ run' \in [Refresh -> RunRow] /\ left \subseteq left' /\ left' \subseteq Owner
         /\ \A x \in Refresh : x # Head(owner[o].queue).from => run'[x].asked = run[x].asked
         /\ AskersWait'
         /\ \E r \in Refresh : GoesOn(r)
<1> DEFINE q == Head(owner[o].queue)
           r == q.from
<1>1. owner[o].queue \in Seq(Request) /\ run \in [Refresh -> RunRow] /\ left \subseteq Owner
  BY OwnerTypes DEF OwnerRow
<1>2. q = owner[o].queue[1] /\ q \in Request /\ 1 \in 1 .. Len(owner[o].queue)
  BY <1>1
<1>3. CASE r = Nobody
  <2>1. run' = run /\ left' = left
    BY <1>3 DEF Reply
  <2>2. o \in Refresh
    BY DEF Owner
  <2>3. GoesOn(o)
    BY <2>1, <2>2 DEF GoesOn
  <2> QED BY <1>1, <2>1, <2>2, <2>3 DEF QueueInv, AskersWait
<1>4. CASE r # Nobody
  <2>1. r \in Refresh
    BY <1>2, <1>4 DEF Request
  <2>2. run[r].asked
    BY <1>2, <1>4 DEF QueueInv, AskersAreInLine
  <2>3. run[r].at \in Asking
    BY <2>1, <2>2 DEF QueueInv, AskersWait
  <2> DEFINE to == IF good THEN Onward[run[r].at] ELSE Otherwise[run[r].at]
  <2>4. /\ run' = Moved(r, to)
        /\ left' = IF good /\ run[r].at = "wait" /\ r # o THEN left \cup {r} ELSE left
    BY <1>4 DEF Reply
  <2>5. /\ to \in RunPlaces /\ to # "remove"
        /\ to \in Holding => run[r].at \in Holding
        /\ to \in Before => run[r].at \in Before
        /\ run[r].at = "wait" /\ ~good => to = "wait"
    BY <2>3, AnswerPlaces
  <2> HIDE DEF to
  <2>6. run[r].at = "wait" => to = "wait" \/ r \in left' \/ owner'[r].at \notin Opening
    BY <2>4, <2>5
  <2>7. run' \in [Refresh -> RunRow] /\ run'[r].asked = FALSE /\ GoesOn(r)
    BY <2>1, <2>4, <2>5, <2>6, MovedGoesOn
  <2>8. \A x \in Refresh \ {r} : run'[x] = run[x]
    BY <2>7 DEF GoesOn
  <2>9. left \subseteq left' /\ left' \subseteq Owner
    BY <1>1, <2>1, <2>4 DEF Owner
  <2> HIDE DEF r, q
  <2>10. AskersWait'
    BY <2>1, <2>7, <2>8 DEF QueueInv, AskersWait
  <2>11. \A x \in Refresh : x # r => run'[x].asked = run[x].asked
    BY <2>8
  <2>12. \E x \in Refresh : GoesOn(x)
    BY <2>1, <2>7
  <2> QED BY <2>7, <2>9, <2>10, <2>11, <2>12 DEF r, q
<1> QED BY <1>3, <1>4

-----------------------------------------------------------------------------
(* Places *)

\* While a refresh goes on and nobody comes, all are where they were found.
LEMMA PlaceKeeps ==
  ASSUME OwnerTypeOK, PlaceInv, NEW r \in Refresh, GoesOn(r), NobodyComes
  PROVE  PlaceInv'
<1>1. OneScript'
  BY DEF PlaceInv, OneScript, GoesOn
<1>2. OpeningIsAwaited'
  <2> SUFFICES ASSUME NEW o \in Owner, owner'[o].at \in Opening, o \notin left'
               PROVE  run'[o].at = "wait"
    BY DEF OpeningIsAwaited
  <2>1. run[o].at = "wait"
    BY DEF PlaceInv, OpeningIsAwaited, NobodyComes
  <2> QED BY <2>1 DEF GoesOn, Owner
<1>3. StaleUnlessLeft'
  <2> SUFFICES ASSUME NEW q \in Refresh, run'[q].at = "remove", run'[q].saw # "full",
                      NEW o \in Owner, sock' = o, Serving(o)'
               PROVE  o \in left'
    BY DEF StaleUnlessLeft
  <2>1. run[q].at = "remove" /\ run[q].saw # "full"
    BY DEF GoesOn
  <2>2. Serving(o) /\ sock = o
    BY NoRefreshIsNobody DEF NobodyComes, Owner
  <2> QED BY <2>1, <2>2 DEF PlaceInv, StaleUnlessLeft, NobodyComes
<1>4. StartsOnce'
  BY DEF PlaceInv, StartsOnce, GoesOn, NobodyComes, Owner
<1> QED BY <1>1, <1>2, <1>3, <1>4 DEF PlaceInv

LEMMA LookingTheSame ==
  ASSUME OwnerInv, OwnersLookTheSame, sock' \in {sock, Nobody}, left \subseteq left'
  PROVE  NobodyComes /\ BusyAtHead'
<1>1. NobodyComes
  BY DEF OwnersLookTheSame, NobodyComes, Serving
<1>2. BusyAtHead'
  BY DEF OwnersLookTheSame, OwnerInv, QueueInv, BusyAtHead
<1> QED BY <1>1, <1>2

\* What is left of a step of a refresh, when its queues and its place are known
LEMMA GoingOnKeeps ==
  ASSUME OwnerInv, NEW r \in Refresh, GoesOn(r), OwnersLookTheSame,
         sock' \in {sock, Nobody}, left \subseteq left', left' \subseteq Owner,
         owner' \in [Owner -> OwnerRow], run' \in [Refresh -> RunRow], faults' \in 0 .. MaxFaults,
         run'[r].asked => run'[r].at \in Asking, AskersAreInLine', OnceInLine'
  PROVE  OwnerInv'
<1>1. NobodyComes /\ BusyAtHead'
  BY LookingTheSame
<1>2. PlaceInv'
  BY <1>1, PlaceKeeps DEF OwnerInv
<1>3. AskersWait'
  BY DEF OwnerInv, QueueInv, AskersWait, GoesOn
<1>4. sock' \in Owner \cup {Nobody}
  BY OwnerTypes DEF OwnerInv
<1>5. OwnerTypeOK'
  BY <1>4, OwnerTypesBack
<1> QED BY <1>1, <1>2, <1>3, <1>5 DEF OwnerInv, QueueInv

\* A refresh goes on by itself: who is in line still asks.
LEMMA AloneKeeps ==
  ASSUME OwnerInv, NEW r \in Refresh, GoesOn(r), owner' = owner, sock' \in {sock, Nobody},
         left \subseteq left', left' \subseteq Owner,
         run' \in [Refresh -> RunRow], faults' \in 0 .. MaxFaults,
         run'[r].asked => run'[r].at \in Asking,
         run[r].asked /\ ~run'[r].asked => \A o \in Owner : ~InLine(r, o)
  PROVE  OwnerInv'
<1>1. owner \in [Owner -> OwnerRow]
  BY OwnerTypes DEF OwnerInv
<1>2. OwnersLookTheSame
  BY DEF OwnersLookTheSame
<1>3. OnceInLine'
  BY DEF OwnerInv, QueueInv, OnceInLine
<1>4. AskersAreInLine'
  <2> SUFFICES ASSUME NEW o \in Owner, NEW i \in 1 .. Len(owner[o].queue),
                      owner[o].queue[i].from # Nobody
               PROVE  run'[owner[o].queue[i].from].asked
    BY DEF AskersAreInLine
  <2>1. owner[o].queue \in Seq(Request)
    BY <1>1 DEF OwnerRow
  <2>2. owner[o].queue[i] \in Request /\ i \in DOMAIN owner[o].queue
    BY <2>1
  <2>3. owner[o].queue[i].from \in Refresh
    BY <2>2 DEF Request
  <2>4. run[owner[o].queue[i].from].asked
    BY DEF OwnerInv, QueueInv, AskersAreInLine
  <2>5. InLine(owner[o].queue[i].from, o)
    BY <2>2 DEF InLine
  <2> QED BY <2>3, <2>4, <2>5 DEF GoesOn
<1> QED BY <1>1, <1>2, <1>3, <1>4, GoingOnKeeps

\* A refresh sends something, for itself or for nobody, and goes on.
LEMMA SendingKeeps ==
  ASSUME OwnerInv, NEW r \in Refresh, GoesOn(r), NEW from \in {r, Nobody},
         NEW what \in {"health", "probe", "job", "shutdown"}, Listening, Send(from, what),
         UNCHANGED <<sock, left, faults>>, run' \in [Refresh -> RunRow], ~run[r].asked,
         IF from = r THEN run'[r].asked /\ run'[r].at \in Asking ELSE ~run'[r].asked
  PROVE  OwnerInv'
<1>1. OwnerTypeOK /\ AskersAreInLine /\ OnceInLine
  BY DEF OwnerInv, QueueInv
<1>2. left \subseteq Owner /\ faults \in 0 .. MaxFaults /\ run \in [Refresh -> RunRow]
  BY <1>1, OwnerTypes
<1>3. from # Nobody => ~run[from].asked /\ run'[from].asked
  OBVIOUS
<1>4. \A q \in Refresh \ {from} : run'[q].asked = run[q].asked
  <2> TAKE q \in Refresh \ {from}
  <2>1. CASE q = r
    <3>1. run[r] \in RunRow /\ run'[r] \in RunRow
      BY <1>2
    <3>2. run[r].asked \in BOOLEAN /\ run'[r].asked \in BOOLEAN
      BY <3>1 DEF RunRow
    <3>3. ~run'[r].asked
      BY <2>1
    <3> QED BY <2>1, <3>2, <3>3
  <2>2. CASE q # r
    BY <2>2 DEF GoesOn
  <2> QED BY <2>1, <2>2
<1>5. owner' \in [Owner -> OwnerRow] /\ AskersAreInLine' /\ OnceInLine' /\ OwnersLookTheSame
  BY <1>1, <1>3, <1>4, SendKeeps
<1> QED BY <1>2, <1>5, GoingOnKeeps

\* A refresh closes its connection and goes on.
LEMMA HangingUpKeeps ==
  ASSUME OwnerInv, NEW r \in Refresh, GoesOn(r), HangUp(r), UNCHANGED sock,
         left \subseteq left', left' \subseteq Owner,
         run' \in [Refresh -> RunRow], faults' \in 0 .. MaxFaults, ~run'[r].asked
  PROVE  OwnerInv'
<1>1. OwnerTypeOK /\ AskersAreInLine /\ OnceInLine
  BY DEF OwnerInv, QueueInv
<1>2. \A q \in Refresh \ {r} : run'[q].asked = run[q].asked
  BY DEF GoesOn
<1>3. owner' \in [Owner -> OwnerRow] /\ AskersAreInLine' /\ OnceInLine' /\ OwnersLookTheSame
  BY <1>1, <1>2, HangUpKeeps
<1> QED BY <1>3, GoingOnKeeps

-----------------------------------------------------------------------------
(* The steps of a refresh *)

LEMMA InvFacts ==
  ASSUME OwnerInv
  PROVE  /\ OwnerTypeOK /\ QueueInv /\ PlaceInv
         /\ sock \in Owner \cup {Nobody} /\ owner \in [Owner -> OwnerRow]
         /\ run \in [Refresh -> RunRow] /\ left \subseteq Owner /\ faults \in 0 .. MaxFaults
BY OwnerTypes DEF OwnerInv

\* Who does not ask is in no line to lose its place in.
LEMMA OnlyAskersWait ==
  ASSUME OwnerInv, NEW r \in Refresh, run[r].at \notin Asking
  PROVE  ~run[r].asked
BY DEF OwnerInv, QueueInv, AskersWait

\* Nobody who has asked stops asking, and no owner changes.
LEMMA LinesStay ==
  ASSUME OwnerInv, owner' = owner, \A q \in Refresh : run'[q].asked = run[q].asked
  PROVE  AskersAreInLine' /\ OnceInLine' /\ BusyAtHead'
<1>1. AskersAreInLine'
  <2> SUFFICES ASSUME NEW o \in Owner, NEW i \in 1 .. Len(owner[o].queue),
                      owner[o].queue[i].from # Nobody
               PROVE  run'[owner[o].queue[i].from].asked
    BY DEF AskersAreInLine
  <2>1. owner[o].queue \in Seq(Request)
    BY InvFacts DEF OwnerRow
  <2>2. owner[o].queue[i] \in Request
    BY <2>1
  <2> QED BY <2>2, InvFacts DEF Request, QueueInv, AskersAreInLine
<1>2. OnceInLine' /\ BusyAtHead'
  BY InvFacts DEF QueueInv, OnceInLine, BusyAtHead
<1> QED BY <1>1, <1>2

LEMMA StartKeeps ==
  ASSUME OwnerInv, NEW r \in Refresh, Start(r)
  PROVE  OwnerInv'
<1>1. run[r].at = "new" /\ run[r] \in RunRow
  BY InvFacts DEF Start
<1>2. ~run[r].asked
  BY <1>1, OnlyAskersWait DEF Asking
<1>3. run' = [run EXCEPT ![r] = [run[r] EXCEPT !.at = "ensure", !.main = TRUE]]
  BY InvFacts DEF Start
<1>4. run' \in [Refresh -> RunRow] /\ run'[r].asked = run[r].asked /\ run'[r].at = "ensure"
      /\ \A q \in Refresh \ {r} : run'[q] = run[q]
  BY <1>1, <1>3, InvFacts DEF RunRow, Ensuring
<1>5. GoesOn(r)
  BY <1>1, <1>4 DEF GoesOn, Holding, Before, Ensuring
<1> QED BY <1>2, <1>4, <1>5, AloneKeeps, InvFacts DEF Start

\* The lock is free when it is taken.
LEMMA TakeLockKeeps ==
  ASSUME OwnerInv, NEW r \in Refresh, TakeLock(r)
  PROVE  OwnerInv'
<1>1. run[r].at = "ensure" /\ run[r] \in RunRow /\ UNCHANGED <<sock, owner, left, faults>>
  BY InvFacts DEF TakeLock
<1>2. run' = [run EXCEPT ![r] = [run[r] EXCEPT !.at = "first"]]
  BY InvFacts DEF TakeLock
<1>3. run' \in [Refresh -> RunRow] /\ run'[r].asked = run[r].asked /\ run'[r].at = "first"
      /\ \A q \in Refresh \ {r} : run'[q] = run[q]
  BY <1>1, <1>2, InvFacts DEF RunRow, Ensuring
<1>4. \A q \in Refresh : run[q].at \notin Holding
  BY DEF TakeLock
<1>5. OneScript'
  BY <1>3, <1>4 DEF OneScript
<1>6. OpeningIsAwaited' /\ StaleUnlessLeft' /\ StartsOnce'
  <2>1. OpeningIsAwaited'
    BY <1>1, <1>3, InvFacts DEF PlaceInv, OpeningIsAwaited, Owner
  <2>2. StaleUnlessLeft'
    BY <1>1, <1>3, <1>4 DEF StaleUnlessLeft, Holding, Ensuring
  <2>3. StartsOnce'
    BY <1>1, <1>3, InvFacts DEF PlaceInv, StartsOnce, Before, Ensuring
  <2> QED BY <2>1, <2>2, <2>3
<1>7. \A q \in Refresh : run'[q].asked = run[q].asked
  BY <1>3
<1>8. QueueInv'
  <2>1. AskersWait'
    BY <1>1, <1>3, InvFacts DEF QueueInv, AskersWait, Asking
  <2> QED BY <1>1, <1>7, <2>1, LinesStay DEF QueueInv
<1>9. OwnerTypeOK'
  BY <1>1, <1>3, InvFacts, OwnerTypesBack
<1> QED BY <1>5, <1>6, <1>8, <1>9 DEF OwnerInv, PlaceInv

LEMMA AskHealthKeeps ==
  ASSUME OwnerInv, NEW r \in Refresh, AskHealth(r)
  PROVE  OwnerInv'
<1>1. run[r].at \in {"first", "wait"} /\ ~run[r].asked /\ run[r] \in RunRow
      /\ UNCHANGED <<sock, left, faults>>
  BY InvFacts DEF AskHealth
<1>2. CASE Connects /\ Send(r, "health") /\ run' = [run EXCEPT ![r].asked = TRUE]
  <2>1. run' = [run EXCEPT ![r] = [run[r] EXCEPT !.asked = TRUE]]
    BY <1>2, InvFacts
  <2>2. run' \in [Refresh -> RunRow] /\ run'[r].asked = TRUE /\ run'[r].at = run[r].at
        /\ run'[r].saw = run[r].saw /\ \A q \in Refresh \ {r} : run'[q] = run[q]
    BY <1>1, <2>1, InvFacts DEF RunRow
  <2>3. GoesOn(r)
    BY <2>2 DEF GoesOn
  <2>4. run'[r].asked /\ run'[r].at \in Asking
    BY <1>1, <2>2 DEF Asking
  <2> QED BY <1>1, <1>2, <2>2, <2>3, <2>4, SendingKeeps DEF Connects
<1>3. CASE run[r].at = "first" /\ run' = Moved(r, "probe") /\ UNCHANGED owner
  <2>1. "probe" \in RunPlaces /\ run[r].at \in Holding \cap Before
    BY <1>3 DEF RunPlaces, Holding, Before, Ensuring
  <2>2. run' \in [Refresh -> RunRow] /\ run'[r].asked = FALSE /\ GoesOn(r)
    BY <1>3, <2>1, InvFacts, MovedGoesOn
  <2> QED BY <1>1, <1>3, <2>2, AloneKeeps, InvFacts
<1>4. CASE run' = run /\ UNCHANGED owner
  <2>1. GoesOn(r)
    BY <1>4 DEF GoesOn
  <2> QED BY <1>1, <1>4, <2>1, AloneKeeps, InvFacts
<1> QED BY <1>1, <1>2, <1>3, <1>4 DEF AskHealth

\* A script that is about to remove the path has found nobody there who serves, or a
\* full backlog.
LEMMA ProbeKeeps ==
  ASSUME OwnerInv, NEW r \in Refresh, Probe(r)
  PROVE  OwnerInv'
<1>1. run[r].at = "probe" /\ run[r] \in RunRow /\ UNCHANGED <<sock, left, faults>>
      /\ run[r].at \in Holding \cap Before
  BY InvFacts DEF Probe, Holding, Before, Ensuring
<1>2. ~run[r].asked
  BY <1>1, OnlyAskersWait DEF Asking
<1>3. CASE /\ Connects /\ Send(Nobody, "probe")
           /\ run' = IF run[r].tries + 1 < MaxTries
                     THEN [Moved(r, "ensure") EXCEPT ![r].tries = @ + 1]
                     ELSE Moved(r, "over")
  <2>1. run' \in [Refresh -> RunRow] /\ run'[r].asked = FALSE /\ GoesOn(r)
    <3>1. CASE run' = Moved(r, "over")
      BY <1>1, <3>1, InvFacts, MovedGoesOn DEF RunPlaces, Holding, Before, Ensuring
    <3>2. CASE /\ run[r].tries + 1 < MaxTries
               /\ run' = [Moved(r, "ensure") EXCEPT ![r].tries = @ + 1]
      <4> DEFINE m == Moved(r, "ensure")
      <4>1. "ensure" \in RunPlaces
        BY DEF RunPlaces, Ensuring
      <4>2. /\ m \in [Refresh -> RunRow] /\ m[r].asked = FALSE
            /\ \A q \in Refresh \ {r} : m[q] = run[q]
            /\ m[r].at = "ensure" /\ m[r].tries = run[r].tries
        BY <4>1, InvFacts, MovedEffect
      <4>3. run' = [m EXCEPT ![r].tries = @ + 1]
        BY <3>2
      <4> HIDE DEF m
      <4>4. run[r].tries \in 0 .. MaxTries - 1 /\ MaxTries \in Nat \ {0}
        BY <1>1, OwnerAssumption DEF RunRow
      <4>5. run[r].tries + 1 \in 0 .. MaxTries - 1
        BY <3>2, <4>4
      <4>6. m[r] \in RunRow /\ run' = [m EXCEPT ![r] = [m[r] EXCEPT !.tries = run[r].tries + 1]]
        BY <4>2, <4>3
      <4>7. /\ run' \in [Refresh -> RunRow] /\ run'[r].asked = FALSE /\ run'[r].at = "ensure"
            /\ \A q \in Refresh \ {r} : run'[q] = run[q]
        BY <4>2, <4>5, <4>6 DEF RunRow
      <4> QED BY <1>1, <4>7 DEF GoesOn, Holding, Before, Ensuring
    <3> QED BY <1>3, <3>1, <3>2
  <2>2. Nobody # r
    BY NoRefreshIsNobody
  <2> QED BY <1>1, <1>2, <1>3, <2>1, <2>2, SendingKeeps DEF Connects
<1>4. CASE /\ ~Connects /\ UNCHANGED owner
           /\ run' = [run EXCEPT ![r].at = "remove",
                        ![r].saw = IF sock = Nobody THEN "absent"
                                   ELSE IF Listening THEN "full" ELSE "refused"]
  <2> DEFINE saw == IF sock = Nobody THEN "absent" ELSE IF Listening THEN "full" ELSE "refused"
  <2>1. run' = [run EXCEPT ![r] = [run[r] EXCEPT !.at = "remove", !.saw = saw]]
    BY <1>4, InvFacts
  <2>2. saw \in {"nothing", "absent", "refused", "full"} /\ (saw # "full" => ~Listening)
    BY DEF Listening
  <2> HIDE DEF saw
  <2>3. /\ run' \in [Refresh -> RunRow] /\ run'[r].asked = run[r].asked
        /\ run'[r].at = "remove" /\ run'[r].saw = saw
        /\ \A q \in Refresh \ {r} : run'[q] = run[q]
    BY <1>1, <2>1, <2>2, InvFacts DEF RunRow, Ensuring
  <2>4. \A q \in Refresh \ {r} : run[q].at \notin Holding
    BY <1>1, InvFacts DEF PlaceInv, OneScript
  <2>5. PlaceInv'
    <3>1. OneScript'
      BY <2>3, <2>4 DEF OneScript
    <3>2. OpeningIsAwaited'
      BY <1>1, <1>4, <2>3, InvFacts DEF PlaceInv, OpeningIsAwaited, Owner
    <3>3. StaleUnlessLeft'
      <4> SUFFICES ASSUME NEW q \in Refresh, run'[q].at = "remove", run'[q].saw # "full",
                          NEW o \in Owner, sock = o, Serving(o)'
                   PROVE  FALSE
        BY <1>1 DEF StaleUnlessLeft
      <4>1. q = r
        BY <2>3, <2>4 DEF Holding, Ensuring
      <4>2. ~Listening
        BY <2>2, <2>3, <4>1
      <4>3. owner[o].at = "serving" /\ o # Nobody
        BY <1>4, NoRefreshIsNobody DEF Serving, Owner
      <4> QED BY <4>2, <4>3 DEF Listening
    <3>4. StartsOnce'
      BY <1>1, <1>4, <2>3, InvFacts DEF PlaceInv, StartsOnce
    <3> QED BY <3>1, <3>2, <3>3, <3>4 DEF PlaceInv
  <2>6. QueueInv'
    <3>1. AskersWait'
      BY <1>2, <2>3, InvFacts DEF QueueInv, AskersWait
    <3>2. \A q \in Refresh : run'[q].asked = run[q].asked
      BY <2>3
    <3> QED BY <1>4, <3>1, <3>2, LinesStay DEF QueueInv
  <2>7. OwnerTypeOK'
    BY <1>1, <1>4, <2>3, InvFacts, OwnerTypesBack
  <2> QED BY <2>5, <2>6, <2>7 DEF OwnerInv
<1> QED BY <1>3, <1>4 DEF Probe

LEMMA RemoveKeeps ==
  ASSUME OwnerInv, NEW r \in Refresh, Remove(r)
  PROVE  OwnerInv'
<1>1. run[r].at = "remove" /\ run[r] \in RunRow /\ sock' = Nobody /\ UNCHANGED <<owner, left, faults>>
  BY InvFacts DEF Remove
<1>2. ~run[r].asked
  BY <1>1, OnlyAskersWait DEF Asking
<1>3. run' = [run EXCEPT ![r] = [run[r] EXCEPT !.at = "spawn", !.tries = 0, !.saw = "nothing"]]
  BY InvFacts DEF Remove
<1>4. 0 \in 0 .. MaxTries - 1
  BY OwnerAssumption
<1>5. run' \in [Refresh -> RunRow] /\ run'[r].asked = run[r].asked /\ run'[r].at = "spawn"
      /\ \A q \in Refresh \ {r} : run'[q] = run[q]
  BY <1>1, <1>3, <1>4, InvFacts DEF RunRow, Ensuring
<1>6. GoesOn(r)
  BY <1>1, <1>5 DEF GoesOn, Holding, Before, Ensuring
<1> QED BY <1>1, <1>2, <1>5, <1>6, AloneKeeps, InvFacts

\* The owner that starts has not been there before, and its script waits for it.
LEMMA SpawnKeeps ==
  ASSUME OwnerInv, NEW r \in Refresh, Spawn(r)
  PROVE  OwnerInv'
<1>1. /\ run[r].at = "spawn" /\ run[r] \in RunRow /\ owner[r] \in OwnerRow /\ r \in Owner
      /\ UNCHANGED <<sock, left, faults>>
  BY InvFacts DEF Spawn, Owner
<1>2. run[r].at \in Holding \cap Before
  BY <1>1 DEF Holding, Before, Ensuring
<1>3. owner[r].at = "none" /\ ~owner[r].busy
  BY <1>1, <1>2, InvFacts DEF PlaceInv, StartsOnce, QueueInv, BusyAtHead
<1>4. run' = [run EXCEPT ![r] = [run[r] EXCEPT !.at = "wait"]]
      /\ owner' = [owner EXCEPT ![r] = [owner[r] EXCEPT !.at = "starting", !.window = TRUE]]
  BY <1>1, InvFacts DEF Spawn
<1>5. run' \in [Refresh -> RunRow] /\ run'[r].asked = run[r].asked /\ run'[r].at = "wait"
      /\ \A q \in Refresh \ {r} : run'[q] = run[q]
  BY <1>1, <1>4, InvFacts DEF RunRow, Ensuring
<1>6. owner' \in [Owner -> OwnerRow] /\ owner'[r].queue = owner[r].queue
      /\ owner'[r].busy = owner[r].busy /\ owner'[r].at = "starting"
      /\ \A o \in Owner \ {r} : owner'[o] = owner[o]
  BY <1>1, <1>4, InvFacts DEF OwnerRow
<1>7. PlaceInv'
  <2>1. OneScript'
    BY <1>2, <1>5, InvFacts DEF PlaceInv, OneScript
  <2>2. OpeningIsAwaited'
    BY <1>1, <1>5, <1>6, InvFacts DEF PlaceInv, OpeningIsAwaited, Owner
  <2>3. StaleUnlessLeft'
    <3> SUFFICES ASSUME NEW q \in Refresh, run'[q].at = "remove", run'[q].saw # "full",
                        NEW o \in Owner, sock = o, Serving(o)'
                 PROVE  o \in left
      BY <1>1 DEF StaleUnlessLeft
    <3>1. owner'[o].at = "serving" /\ owner'[o].window /\ ~owner'[o].stop
      BY DEF Serving
    <3>2. run'[q] = run[q] /\ owner'[o] = owner[o]
      BY <1>5, <1>6, <3>1
    <3>3. Serving(o)
      BY <3>1, <3>2 DEF Serving
    <3> QED BY <3>2, <3>3, InvFacts DEF PlaceInv, StaleUnlessLeft
  <2>4. StartsOnce'
    <3> SUFFICES ASSUME NEW q \in Refresh, run'[q].at \in Before
                 PROVE  owner'[q].at = "none"
      BY DEF StartsOnce
    <3>1. q # r
      BY <1>5 DEF Before, Ensuring
    <3>2. run'[q] = run[q] /\ owner'[q] = owner[q]
      BY <1>5, <1>6, <3>1 DEF Owner
    <3> QED BY <3>2, InvFacts DEF PlaceInv, StartsOnce
  <2> QED BY <2>1, <2>2, <2>3, <2>4 DEF PlaceInv
<1>8. \A o \in Owner : owner'[o].queue = owner[o].queue
  BY <1>6
<1>9. QueueInv'
  <2>1. AskersWait'
    BY <1>5, InvFacts DEF QueueInv, AskersWait, Asking
  <2>2. OnceInLine'
    BY <1>8, InvFacts DEF QueueInv, OnceInLine
  <2>3. BusyAtHead'
    BY <1>3, <1>6, InvFacts DEF QueueInv, BusyAtHead
  <2>4. AskersAreInLine'
    <3> SUFFICES ASSUME NEW o \in Owner, NEW i \in 1 .. Len(owner[o].queue),
                        owner[o].queue[i].from # Nobody
                 PROVE  run'[owner[o].queue[i].from].asked
      BY <1>8 DEF AskersAreInLine
    <3>1. owner[o].queue \in Seq(Request)
      BY InvFacts DEF OwnerRow
    <3>2. owner[o].queue[i] \in Request
      BY <3>1
    <3>3. \A q \in Refresh : run'[q].asked = run[q].asked
      BY <1>5
    <3> QED BY <3>2, <3>3, InvFacts DEF Request, QueueInv, AskersAreInLine
  <2> QED BY <2>1, <2>2, <2>3, <2>4 DEF QueueInv
<1>10. OwnerTypeOK'
  BY <1>1, <1>5, <1>6, InvFacts, OwnerTypesBack
<1> QED BY <1>7, <1>9, <1>10 DEF OwnerInv

\* Who stops waiting has left the owner.
LEMMA GiveUpKeeps ==
  ASSUME OwnerInv, NEW r \in Refresh, GiveUp(r)
  PROVE  OwnerInv'
<1>1. /\ ~run[r].asked /\ run' = Moved(r, "over") /\ left' = left \cup {r}
      /\ UNCHANGED <<sock, owner>>
  BY DEF GiveUp
<1>2. faults' \in 0 .. MaxFaults
  BY FaultCounts, InvFacts DEF GiveUp
<1>3. "over" \in RunPlaces \ (Holding \cup Before)
  BY DEF RunPlaces, Holding, Before, Ensuring
<1>4. left \subseteq left' /\ left' \subseteq Owner /\ r \in left'
  BY <1>1, InvFacts DEF Owner
<1>5. run' \in [Refresh -> RunRow] /\ run'[r].asked = FALSE /\ GoesOn(r)
  BY <1>1, <1>3, <1>4, InvFacts, MovedGoesOn
<1> QED BY <1>1, <1>2, <1>4, <1>5, AloneKeeps

\* An answer that does not come leads on like one that does.
LEMMA UnansweredGoesOn ==
  ASSUME OwnerInv, NEW r \in Refresh, run[r].asked, run' = Moved(r, Otherwise[run[r].at])
  PROVE  run' \in [Refresh -> RunRow] /\ run'[r].asked = FALSE /\ GoesOn(r)
<1>1. run[r].at \in Asking
  BY InvFacts DEF QueueInv, AskersWait
<1> DEFINE to == Otherwise[run[r].at]
<1>2. /\ to \in RunPlaces /\ to # "remove"
      /\ to \in Holding => run[r].at \in Holding
      /\ to \in Before => run[r].at \in Before
      /\ run[r].at = "wait" => to = "wait"
  BY <1>1, AnswerPlaces
<1> QED BY <1>2, InvFacts, MovedGoesOn

LEMMA TimesOutKeeps ==
  ASSUME OwnerInv, NEW r \in Refresh, TimesOut(r)
  PROVE  OwnerInv'
<1>1. run' \in [Refresh -> RunRow] /\ run'[r].asked = FALSE /\ GoesOn(r)
  BY UnansweredGoesOn DEF TimesOut
<1> QED BY <1>1, HangingUpKeeps, InvFacts DEF TimesOut

LEMMA BrokenKeeps ==
  ASSUME OwnerInv, NEW r \in Refresh, Broken(r)
  PROVE  OwnerInv'
<1>1. run' \in [Refresh -> RunRow] /\ run'[r].asked = FALSE /\ GoesOn(r)
  BY UnansweredGoesOn DEF Broken
<1> QED BY <1>1, AloneKeeps, InvFacts DEF Broken

\* A refresh that is ready, or has read, asks for something else.
LEMMA AskingKeeps ==
  ASSUME OwnerInv, NEW r \in Refresh, NEW at \in {"job", "close"}, NEW what \in {"job", "shutdown"},
         run[r].at \in {"ready", "read"}, Connects, Send(r, what),
         run' = [run EXCEPT ![r] = [run[r] EXCEPT !.at = at, !.asked = TRUE]],
         UNCHANGED <<sock, left, faults>>
  PROVE  OwnerInv'
<1>1. ~run[r].asked
  BY OnlyAskersWait DEF Asking
<1>2. run' \in [Refresh -> RunRow] /\ run'[r].asked = TRUE /\ run'[r].at = at
      /\ \A q \in Refresh \ {r} : run'[q] = run[q]
  BY InvFacts DEF RunRow
<1>3. GoesOn(r)
  BY <1>2 DEF GoesOn, Holding, Before, Ensuring
<1>4. run'[r].asked /\ run'[r].at \in Asking
  BY <1>2 DEF Asking
<1> QED BY <1>1, <1>2, <1>3, <1>4, SendingKeeps DEF Connects

LEMMA AskJobKeeps ==
  ASSUME OwnerInv, NEW r \in Refresh, AskJob(r)
  PROVE  OwnerInv'
<1>1. run' = [run EXCEPT ![r] = [run[r] EXCEPT !.at = "job", !.asked = TRUE]]
  BY InvFacts DEF AskJob
<1> QED BY <1>1, AskingKeeps DEF AskJob

LEMMA CloseBrowserKeeps ==
  ASSUME OwnerInv, NEW r \in Refresh, CloseBrowser(r)
  PROVE  OwnerInv'
<1>1. run' = [run EXCEPT ![r] = [run[r] EXCEPT !.at = "close", !.asked = TRUE]]
  BY InvFacts DEF CloseBrowser
<1> QED BY <1>1, AskingKeeps DEF CloseBrowser

LEMMA EndKeeps ==
  ASSUME OwnerInv, NEW r \in Refresh, End(r)
  PROVE  OwnerInv'
<1>1. ~run[r].asked
  BY OnlyAskersWait DEF End, Asking
<1>2. "over" \in RunPlaces \ (Holding \cup Before) /\ run[r].at # "wait"
  BY DEF End, RunPlaces, Holding, Before, Ensuring
<1>3. run' \in [Refresh -> RunRow] /\ run'[r].asked = FALSE /\ GoesOn(r)
  BY <1>2, InvFacts, MovedGoesOn DEF End
<1> QED BY <1>1, <1>3, AloneKeeps, InvFacts DEF End

LEMMA KillRefreshKeeps ==
  ASSUME OwnerInv, NEW r \in Refresh, KillRefresh(r)
  PROVE  OwnerInv'
<1>1. faults' \in 0 .. MaxFaults /\ UNCHANGED sock /\ run[r] \in RunRow
  BY FaultCounts, InvFacts DEF KillRefresh
<1>2. CASE /\ run' = Moved(r, "over") /\ HangUp(r)
           /\ left' = IF run[r].at = "wait" THEN left \cup {r} ELSE left
  <2>1. "over" \in RunPlaces \ (Holding \cup Before)
    BY DEF RunPlaces, Holding, Before, Ensuring
  <2>2. left \subseteq left' /\ left' \subseteq Owner /\ (run[r].at = "wait" => r \in left')
    BY <1>2, InvFacts DEF Owner
  <2>3. run' \in [Refresh -> RunRow] /\ run'[r].asked = FALSE /\ GoesOn(r)
    BY <1>2, <2>1, <2>2, InvFacts, MovedGoesOn
  <2> QED BY <1>1, <1>2, <2>2, <2>3, HangingUpKeeps
<1>3. CASE /\ run[r].at \in Ensuring /\ run' = [run EXCEPT ![r].main = FALSE]
           /\ UNCHANGED <<owner, left>>
  <2>1. run' = [run EXCEPT ![r] = [run[r] EXCEPT !.main = FALSE]]
    BY <1>3, InvFacts
  <2>2. /\ run' \in [Refresh -> RunRow] /\ run'[r].asked = run[r].asked
        /\ run'[r].at = run[r].at /\ run'[r].saw = run[r].saw
        /\ \A q \in Refresh \ {r} : run'[q] = run[q]
    BY <1>1, <2>1, InvFacts DEF RunRow
  <2>3. GoesOn(r)
    BY <2>2 DEF GoesOn
  <2>4. run'[r].asked => run'[r].at \in Asking
    BY <2>2, InvFacts DEF QueueInv, AskersWait
  <2> QED BY <1>1, <1>3, <2>2, <2>3, <2>4, AloneKeeps, InvFacts
<1> QED BY <1>2, <1>3 DEF KillRefresh

-----------------------------------------------------------------------------
(* The steps of an owner *)

\* An owner goes on, or ends, and nobody is answered.
LEMMA OwnerGoesOnKeeps ==
  ASSUME OwnerInv, NEW o \in Owner, NEW row \in OwnerRow, owner' = [owner EXCEPT ![o] = row],
         owner[o].at # "none", row.queue \in {<<>>, owner[o].queue},
         row.at \in Opening => owner[o].at \in Opening,
         row.at = "serving" /\ row.window /\ ~row.stop => Serving(o),
         row.busy => row.at = "serving" /\ row.queue # <<>>,
         run' = run, left' = left, sock' \in {sock, Nobody}, faults' \in 0 .. MaxFaults
  PROVE  OwnerInv'
<1>1. /\ owner' \in [Owner -> OwnerRow] /\ owner'[o] = row
      /\ \A p \in Owner \ {o} : owner'[p] = owner[p]
  BY InvFacts
<1>2. AskersAreInLine' /\ OnceInLine'
  BY <1>1, InvFacts, QueueGoes DEF QueueInv
<1>3. AskersWait'
  BY InvFacts DEF QueueInv, AskersWait
<1>4. BusyAtHead'
  BY <1>1, InvFacts DEF QueueInv, BusyAtHead
<1>5. NobodyComes
  <2>1. \A p \in Owner : Serving(p)' => Serving(p)
    BY <1>1 DEF Serving
  <2> QED BY <1>1, <2>1 DEF NobodyComes
<1>6. o \in Refresh /\ GoesOn(o)
  BY DEF GoesOn, Owner
<1>7. PlaceInv'
  BY <1>5, <1>6, PlaceKeeps, InvFacts
<1>8. sock' \in Owner \cup {Nobody}
  BY InvFacts
<1>9. OwnerTypeOK'
  BY <1>1, <1>8, InvFacts, OwnerTypesBack
<1> QED BY <1>2, <1>3, <1>4, <1>7, <1>9 DEF OwnerInv, QueueInv

\* An owner that serves deals with the first in its line.
LEMMA AnsweringKeeps ==
  ASSUME OwnerInv, NEW o \in Owner, NEW row \in OwnerRow, owner' = [owner EXCEPT ![o] = row],
         NEW good \in BOOLEAN, owner[o].queue # <<>>, Reply(o, Head(owner[o].queue), good),
         owner[o].at = "serving", row.at = "serving", row.queue = Tail(owner[o].queue), ~row.busy,
         row.window = owner[o].window, ~row.stop => ~owner[o].stop, UNCHANGED <<sock, faults>>
  PROVE  OwnerInv'
<1>1. /\ owner' \in [Owner -> OwnerRow] /\ owner'[o] = row
      /\ \A p \in Owner \ {o} : owner'[p] = owner[p]
  BY InvFacts
<1>2. owner'[o].at \notin Opening
  BY <1>1 DEF Opening
<1>3. /\ run' \in [Refresh -> RunRow] /\ left \subseteq left' /\ left' \subseteq Owner
      /\ \A x \in Refresh : x # Head(owner[o].queue).from => run'[x].asked = run[x].asked
      /\ AskersWait'
      /\ \E r \in Refresh : GoesOn(r)
  BY <1>2, InvFacts, ReplyEffect
<1>4. AskersAreInLine' /\ OnceInLine'
  BY <1>1, <1>3, InvFacts, HeadGoes DEF QueueInv
<1>5. BusyAtHead'
  BY <1>1, InvFacts DEF QueueInv, BusyAtHead
<1>6. NobodyComes
  <2>1. \A p \in Owner : Serving(p)' => Serving(p)
    BY <1>1 DEF Serving
  <2> QED BY <1>1, <1>3, <2>1 DEF NobodyComes, Opening
<1>7. PlaceInv'
  BY <1>3, <1>6, PlaceKeeps, InvFacts
<1>8. OwnerTypeOK'
  BY <1>1, <1>3, InvFacts, OwnerTypesBack
<1> QED BY <1>3, <1>4, <1>5, <1>7, <1>8 DEF OwnerInv, QueueInv

LEMMA GoneOwnerRow ==
  /\ GoneOwner \in OwnerRow
  /\ GoneOwner.at = "gone" /\ GoneOwner.busy = FALSE /\ GoneOwner.queue = <<>>
<1>1. <<>> \in Seq(Request)
  OBVIOUS
<1> QED BY <1>1 DEF GoneOwner, NoOwner, OwnerRow

LEMMA EndingKeeps ==
  ASSUME OwnerInv, NEW o \in Owner, owner[o].at # "none", owner' = [owner EXCEPT ![o] = GoneOwner],
         run' = run, left' = left, sock' \in {sock, Nobody}, faults' \in 0 .. MaxFaults
  PROVE  OwnerInv'
<1>1. GoneOwner.at \notin Opening
  BY GoneOwnerRow DEF Opening
<1> QED BY <1>1, GoneOwnerRow, OwnerGoesOnKeeps

LEMMA CheckKeeps ==
  ASSUME OwnerInv, NEW o \in Owner, Check(o)
  PROVE  OwnerInv'
<1>1. owner[o].at = "starting" /\ UNCHANGED <<sock, run, left, faults>> /\ owner[o] \in OwnerRow
  BY InvFacts DEF Check
<1>2. CASE sock = Nobody
  <2> DEFINE row == [owner[o] EXCEPT !.at = "launching"]
  <2>1. owner' = [owner EXCEPT ![o] = row]
    BY <1>2, InvFacts DEF Check
  <2>2. row \in OwnerRow /\ row.at = "launching" /\ row.queue = owner[o].queue /\ row.busy = owner[o].busy
    BY <1>1 DEF OwnerRow
  <2>3. ~owner[o].busy
    BY <1>1, InvFacts DEF QueueInv, BusyAtHead
  <2> HIDE DEF row
  <2>4. /\ row.at \in Opening => owner[o].at \in Opening
        /\ row.at = "serving" /\ row.window /\ ~row.stop => Serving(o)
        /\ row.busy => row.at = "serving" /\ row.queue # <<>>
    BY <1>1, <2>2, <2>3 DEF Opening
  <2> QED BY <1>1, <2>1, <2>2, <2>4, OwnerGoesOnKeeps, InvFacts
<1>3. CASE sock # Nobody
  <2>1. owner' = [owner EXCEPT ![o] = GoneOwner]
    BY <1>3, InvFacts DEF Check
  <2> QED BY <1>1, <2>1, EndingKeeps, InvFacts
<1> QED BY <1>2, <1>3

\* When an owner comes up, who is about to remove the path holds the lock that the
\* owner's own script would hold: it has left the owner.
LEMMA BindKeeps ==
  ASSUME OwnerInv, NEW o \in Owner, Bind(o)
  PROVE  OwnerInv'
<1>1. /\ owner[o].at = "launching" /\ UNCHANGED <<run, left, faults>> /\ owner[o] \in OwnerRow
      /\ ~owner[o].busy
  BY InvFacts DEF Bind, QueueInv, BusyAtHead
<1>2. CASE sock # Nobody
  <2> DEFINE row == [owner[o] EXCEPT !.at = "closing"]
  <2>1. owner' = [owner EXCEPT ![o] = row] /\ sock' = sock
    BY <1>2, InvFacts DEF Bind
  <2>2. row \in OwnerRow /\ row.at = "closing" /\ row.queue = owner[o].queue /\ row.busy = owner[o].busy
    BY <1>1 DEF OwnerRow
  <2> HIDE DEF row
  <2>3. /\ row.at \in Opening => owner[o].at \in Opening
        /\ row.at = "serving" /\ row.window /\ ~row.stop => Serving(o)
        /\ row.busy => row.at = "serving" /\ row.queue # <<>>
    BY <1>1, <2>2 DEF Opening
  <2> QED BY <1>1, <2>1, <2>2, <2>3, OwnerGoesOnKeeps, InvFacts
<1>3. CASE sock = Nobody
  <2> DEFINE row == [owner[o] EXCEPT !.at = "serving"]
  <2>1. owner' = [owner EXCEPT ![o] = row] /\ sock' = o
    BY <1>3, InvFacts DEF Bind
  <2>2. row \in OwnerRow /\ row.at = "serving" /\ row.queue = owner[o].queue /\ row.busy = owner[o].busy
    BY <1>1 DEF OwnerRow
  <2> HIDE DEF row
  <2>3. /\ owner' \in [Owner -> OwnerRow] /\ owner'[o] = row
        /\ \A p \in Owner \ {o} : owner'[p] = owner[p]
    BY <2>1, <2>2, InvFacts
  <2>4. PlaceInv'
    <3>1. OneScript'
      BY <1>1, InvFacts DEF PlaceInv, OneScript
    <3>2. OpeningIsAwaited'
      BY <1>1, <2>2, <2>3, InvFacts DEF PlaceInv, OpeningIsAwaited, Opening
    <3>3. StaleUnlessLeft'
      <4> SUFFICES ASSUME NEW q \in Refresh, run[q].at = "remove", o \notin left
                   PROVE  FALSE
        BY <1>1, <2>1 DEF StaleUnlessLeft
      <4>1. run[o].at = "wait" /\ o \in Refresh
        BY <1>1, InvFacts DEF PlaceInv, OpeningIsAwaited, Opening, Owner
      <4>2. q = o
        BY <4>1, InvFacts DEF PlaceInv, OneScript, Holding, Ensuring
      <4> QED BY <4>1, <4>2
    <3>4. StartsOnce'
      BY <1>1, <2>3, InvFacts DEF PlaceInv, StartsOnce, Owner
    <3> QED BY <3>1, <3>2, <3>3, <3>4 DEF PlaceInv
  <2>5. QueueInv'
    <3>1. AskersWait'
      BY <1>1, InvFacts DEF QueueInv, AskersWait
    <3>2. BusyAtHead'
      BY <1>1, <2>2, <2>3, InvFacts DEF QueueInv, BusyAtHead
    <3>3. AskersAreInLine' /\ OnceInLine'
      BY <1>1, <2>2, <2>3, InvFacts, QueueGoes DEF QueueInv
    <3> QED BY <3>1, <3>2, <3>3 DEF QueueInv
  <2>6. OwnerTypeOK'
    BY <1>1, <2>1, <2>3, InvFacts, OwnerTypesBack
  <2> QED BY <2>4, <2>5, <2>6 DEF OwnerInv
<1> QED BY <1>2, <1>3

LEMMA AcceptKeeps ==
  ASSUME OwnerInv, NEW o \in Owner, Accept(o)
  PROVE  OwnerInv'
<1> DEFINE q == Head(owner[o].queue)
           lost == q.what \in {"health", "job"} /\ ~owner[o].window
<1>1. /\ owner[o].at = "serving" /\ ~owner[o].stop /\ ~owner[o].busy /\ owner[o].queue # <<>>
      /\ owner[o] \in OwnerRow /\ UNCHANGED <<sock, faults>>
  BY InvFacts DEF Accept
<1>2. owner[o].queue \in Seq(Request) /\ Tail(owner[o].queue) \in Seq(Request)
  BY <1>1 DEF OwnerRow
<1>3. CASE /\ Reply(o, q, ~lost)
           /\ owner' = [owner EXCEPT ![o].queue = Tail(@), ![o].stop = lost \/ q.what = "shutdown"]
  <2> DEFINE ends == lost \/ q.what = "shutdown"
             row == [owner[o] EXCEPT !.queue = Tail(@), !.stop = ends]
  <2>1. owner' = [owner EXCEPT ![o] = row]
    BY <1>3, InvFacts
  <2>2. ends \in BOOLEAN /\ (~lost) \in BOOLEAN
    OBVIOUS
  <2> HIDE DEF ends, lost
  <2>3. /\ row \in OwnerRow /\ row.at = "serving" /\ row.queue = Tail(owner[o].queue)
        /\ row.busy = owner[o].busy /\ row.window = owner[o].window
    BY <1>1, <1>2, <2>2 DEF OwnerRow
  <2> HIDE DEF row
  <2> QED BY <1>1, <1>3, <2>1, <2>2, <2>3, AnsweringKeeps
<1>4. CASE owner' = [owner EXCEPT ![o].busy = TRUE] /\ UNCHANGED <<run, left>>
  <2> DEFINE row == [owner[o] EXCEPT !.busy = TRUE]
  <2>1. owner' = [owner EXCEPT ![o] = row]
    BY <1>4, InvFacts
  <2>2. /\ row \in OwnerRow /\ row.at = "serving" /\ row.queue = owner[o].queue
        /\ row.window = owner[o].window /\ row.stop = owner[o].stop
    BY <1>1 DEF OwnerRow
  <2> HIDE DEF row
  <2>3. /\ row.at \in Opening => owner[o].at \in Opening
        /\ row.at = "serving" /\ row.window /\ ~row.stop => Serving(o)
        /\ row.busy => row.at = "serving" /\ row.queue # <<>>
    BY <1>1, <2>2 DEF Opening, Serving
  <2> QED BY <1>1, <1>4, <2>1, <2>2, <2>3, OwnerGoesOnKeeps, InvFacts
<1> QED BY <1>3, <1>4 DEF Accept

LEMMA FinishJobKeeps ==
  ASSUME OwnerInv, NEW o \in Owner, FinishJob(o)
  PROVE  OwnerInv'
<1>1. /\ owner[o].at = "serving" /\ owner[o].queue # <<>>
      /\ owner[o] \in OwnerRow /\ UNCHANGED <<sock, faults>>
  BY InvFacts DEF FinishJob, QueueInv, BusyAtHead
<1>2. owner[o].queue \in Seq(Request) /\ Tail(owner[o].queue) \in Seq(Request)
  BY <1>1 DEF OwnerRow
<1>3. PICK good \in BOOLEAN : Reply(o, Head(owner[o].queue), good)
  BY DEF FinishJob
<1> DEFINE row == [owner[o] EXCEPT !.queue = Tail(@), !.busy = FALSE]
<1>4. owner' = [owner EXCEPT ![o] = row]
  BY InvFacts DEF FinishJob
<1>5. /\ row \in OwnerRow /\ row.at = "serving" /\ row.queue = Tail(owner[o].queue)
      /\ row.busy = FALSE /\ row.window = owner[o].window /\ row.stop = owner[o].stop
  BY <1>1, <1>2 DEF OwnerRow
<1> HIDE DEF row
<1> QED BY <1>1, <1>3, <1>4, <1>5, AnsweringKeeps

LEMMA CloseServerKeeps ==
  ASSUME OwnerInv, NEW o \in Owner, CloseServer(o)
  PROVE  OwnerInv'
<1>1. /\ owner[o].at = "serving" /\ ~owner[o].busy /\ owner[o] \in OwnerRow
      /\ UNCHANGED <<sock, run, left, faults>>
  BY InvFacts DEF CloseServer
<1> DEFINE row == [owner[o] EXCEPT !.at = "closing", !.queue = <<>>]
<1>2. owner' = [owner EXCEPT ![o] = row]
  BY InvFacts DEF CloseServer
<1>3. <<>> \in Seq(Request)
  OBVIOUS
<1>4. row \in OwnerRow /\ row.at = "closing" /\ row.queue = <<>> /\ row.busy = owner[o].busy
  BY <1>1, <1>3 DEF OwnerRow
<1> HIDE DEF row
<1>5. /\ row.at \in Opening => owner[o].at \in Opening
      /\ row.at = "serving" /\ row.window /\ ~row.stop => Serving(o)
      /\ row.busy => row.at = "serving" /\ row.queue # <<>>
  BY <1>1, <1>4 DEF Opening
<1> QED BY <1>1, <1>2, <1>4, <1>5, OwnerGoesOnKeeps, InvFacts

LEMMA CleanupKeeps ==
  ASSUME OwnerInv, NEW o \in Owner, Cleanup(o)
  PROVE  OwnerInv'
BY EndingKeeps, InvFacts DEF Cleanup

LEMMA OwnerFaultKeeps ==
  ASSUME OwnerInv, NEW o \in Owner, OwnerFault(o)
  PROVE  OwnerInv'
<1>1. UNCHANGED <<sock, run, left>> /\ owner[o] \in OwnerRow /\ faults' \in 0 .. MaxFaults
  BY FaultCounts, InvFacts DEF OwnerFault
<1>2. owner[o].busy => owner[o].at = "serving" /\ owner[o].queue # <<>>
  BY InvFacts DEF QueueInv, BusyAtHead
<1>3. CASE owner[o].at = "serving" /\ owner' = [owner EXCEPT ![o].stop = TRUE]
  <2> DEFINE row == [owner[o] EXCEPT !.stop = TRUE]
  <2>1. owner' = [owner EXCEPT ![o] = row]
    BY <1>3, InvFacts
  <2>2. /\ row \in OwnerRow /\ row.at = owner[o].at /\ row.queue = owner[o].queue
        /\ row.busy = owner[o].busy /\ row.stop = TRUE
    BY <1>1 DEF OwnerRow
  <2> HIDE DEF row
  <2> QED BY <1>1, <1>2, <1>3, <2>1, <2>2, OwnerGoesOnKeeps
<1>4. CASE owner[o].at = "serving" /\ owner' = [owner EXCEPT ![o].window = FALSE]
  <2> DEFINE row == [owner[o] EXCEPT !.window = FALSE]
  <2>1. owner' = [owner EXCEPT ![o] = row]
    BY <1>4, InvFacts
  <2>2. /\ row \in OwnerRow /\ row.at = owner[o].at /\ row.queue = owner[o].queue
        /\ row.busy = owner[o].busy /\ row.window = FALSE
    BY <1>1 DEF OwnerRow
  <2> HIDE DEF row
  <2> QED BY <1>1, <1>2, <1>4, <2>1, <2>2, OwnerGoesOnKeeps
<1>5. CASE /\ owner[o].at \in {"starting", "launching", "serving", "closing"}
           /\ owner' = [owner EXCEPT ![o] = GoneOwner]
  BY <1>1, <1>5, EndingKeeps
<1> QED BY <1>3, <1>4, <1>5 DEF OwnerFault

-----------------------------------------------------------------------------
(* The theorems *)

LEMMA OwnerStartsKept ==
  ASSUME OwnerInit
  PROVE  OwnerInv
<1>1. /\ sock = Nobody /\ owner = [o \in Owner |-> NoOwner] /\ run = [r \in Refresh |-> NoRun]
      /\ left = {} /\ faults = 0
  BY DEF OwnerInit
<1>2. /\ NoOwner.at = "none" /\ NoOwner.busy = FALSE /\ NoOwner.queue = <<>> /\ NoOwner \in OwnerRow
  <2>1. <<>> \in Seq(Request)
    OBVIOUS
  <2> QED BY <2>1 DEF NoOwner, OwnerRow
<1>3. NoRun.at = "new" /\ NoRun.asked = FALSE /\ NoRun \in RunRow
  <2>1. 0 \in 0 .. MaxTries - 1
    BY OwnerAssumption
  <2> QED BY <2>1 DEF NoRun, RunRow
<1>4. 0 \in 0 .. MaxFaults
  BY OwnerAssumption
<1>5. OwnerTypeOK
  BY <1>1, <1>2, <1>3, <1>4 DEF OwnerTypeOK, OwnerRow, RunRow
<1>6. \A o \in Owner : owner[o].at = "none" /\ owner[o].busy = FALSE /\ owner[o].queue = <<>>
  BY <1>1, <1>2
<1>7. \A r \in Refresh : run[r].at = "new" /\ run[r].asked = FALSE
  BY <1>1, <1>3
<1>8. QueueInv
  <2>1. \A o \in Owner : Len(owner[o].queue) = 0
    BY <1>6
  <2> QED BY <1>6, <1>7, <2>1 DEF QueueInv, AskersWait, AskersAreInLine, OnceInLine, BusyAtHead
<1>9. PlaceInv
  BY <1>6, <1>7 DEF PlaceInv, OneScript, OpeningIsAwaited, StaleUnlessLeft, StartsOnce,
                    Holding, Ensuring, Opening, Owner
<1> QED BY <1>5, <1>8, <1>9 DEF OwnerInv

LEMMA OwnerStepKeeps ==
  ASSUME OwnerInv, [OwnerNext]_ownerVars
  PROVE  OwnerInv'
<1>1. CASE UNCHANGED ownerVars
  BY <1>1 DEF ownerVars, OwnerInv, OwnerTypeOK, QueueInv, AskersWait, AskersAreInLine, OnceInLine,
              BusyAtHead, PlaceInv, OneScript, OpeningIsAwaited, StaleUnlessLeft, StartsOnce, Serving
<1>2. ASSUME NEW r \in Refresh, Ensure(r)
      PROVE  OwnerInv'
  BY <1>2, TakeLockKeeps, AskHealthKeeps, ProbeKeeps, RemoveKeeps, SpawnKeeps, TimesOutKeeps,
     BrokenKeeps, GiveUpKeeps DEF Ensure
<1>3. ASSUME NEW r \in Refresh,
             Start(r) \/ AskJob(r) \/ CloseBrowser(r) \/ End(r) \/ KillRefresh(r)
      PROVE  OwnerInv'
  BY <1>3, StartKeeps, AskJobKeeps, CloseBrowserKeeps, EndKeeps, KillRefreshKeeps
<1>4. ASSUME NEW o \in Owner, Work(o) \/ OwnerFault(o)
      PROVE  OwnerInv'
  BY <1>4, CheckKeeps, BindKeeps, AcceptKeeps, FinishJobKeeps, CloseServerKeeps, CleanupKeeps,
     OwnerFaultKeeps DEF Work
<1> QED BY <1>1, <1>2, <1>3, <1>4 DEF OwnerNext, AllOver

\* What scripts, owners and their queues keep, whatever dies, is signalled or is slow:
\* one script in the lock, an owner that comes up awaited by its own script or left by it.
THEOREM OwnerInvHolds == OwnerSpec => []OwnerInv
<1>1. OwnerInit => OwnerInv
  BY OwnerStartsKept
<1>2. OwnerInv /\ [OwnerNext]_ownerVars => OwnerInv'
  BY OwnerStepKeeps
<1> QED BY <1>1, <1>2, PTL DEF OwnerSpec

\* Where the socket of an owner that serves can go
LEMMA ServingOwnerStep ==
  ASSUME OwnerInv, [OwnerNext]_ownerVars, NEW o \in Owner, Serving(o), sock = o, sock' # o
  PROVE  \/ \E q \in Owner \ {o} : owner[q].at = "closing" /\ owner'[q].at = "gone"
         \/ \E r \in Refresh :
              run[r].at = "remove" /\ run'[r].at = "spawn" /\ (run[r].saw = "full" \/ o \in left)
<1>1. sock # Nobody
  BY NoRefreshIsNobody DEF Owner
<1>2. ASSUME NEW r \in Refresh, Remove(r)
      PROVE  run[r].at = "remove" /\ run'[r].at = "spawn" /\ (run[r].saw = "full" \/ o \in left)
  <2>1. run[r].at = "remove"
    BY <1>2 DEF Remove
  <2>2. run' = [run EXCEPT ![r] = [run[r] EXCEPT !.at = "spawn", !.tries = 0, !.saw = "nothing"]]
        /\ run[r] \in RunRow
    BY <1>2, InvFacts DEF Remove
  <2>3. run'[r].at = "spawn"
    BY <2>2, InvFacts DEF RunRow
  <2>4. run[r].saw # "full" => o \in left
    BY <2>1, InvFacts DEF PlaceInv, StaleUnlessLeft
  <2> QED BY <2>1, <2>3, <2>4
<1>3. ASSUME NEW q \in Owner, Cleanup(q)
      PROVE  q \in Owner \ {o} /\ owner[q].at = "closing" /\ owner'[q].at = "gone"
  <2>1. owner[q].at = "closing" /\ owner' = [owner EXCEPT ![q] = GoneOwner]
    BY <1>3 DEF Cleanup
  <2>2. owner'[q].at = "gone"
    BY <2>1, GoneOwnerRow, InvFacts
  <2>3. q # o
    BY <2>1 DEF Serving
  <2> QED BY <2>1, <2>2, <2>3
<1>4. ASSUME NEW q \in Owner, Bind(q)
      PROVE  FALSE
  BY <1>1, <1>4 DEF Bind
<1>5. \/ \E r \in Refresh : Remove(r)
      \/ \E q \in Owner : Cleanup(q) \/ Bind(q)
  <2>1. ~UNCHANGED ownerVars
    BY DEF ownerVars
  <2>2. ASSUME NEW r \in Refresh, Ensure(r)
        PROVE  Remove(r)
    BY <2>2 DEF Ensure, TakeLock, AskHealth, Probe, Spawn, TimesOut, Broken, GiveUp
  <2>3. ASSUME NEW r \in Refresh,
               Start(r) \/ AskJob(r) \/ CloseBrowser(r) \/ End(r) \/ KillRefresh(r)
        PROVE  FALSE
    BY <2>3 DEF Start, AskJob, CloseBrowser, End, KillRefresh
  <2>4. ASSUME NEW q \in Owner, Work(q) \/ OwnerFault(q)
        PROVE  Cleanup(q) \/ Bind(q)
    BY <2>4 DEF Work, Check, Accept, FinishJob, CloseServer, OwnerFault
  <2> QED BY <2>1, <2>2, <2>3, <2>4 DEF OwnerNext, AllOver
<1> QED BY <1>2, <1>3, <1>4, <1>5

\* The socket of an owner that serves is removed only by another owner that ends, by a
\* script that found the backlog full, or when the owner's own script had left it before
\* it came up.
THEOREM ServingOwnerIsKeptHolds == OwnerSpec => ServingOwnerIsKept
<1>1. OwnerInv /\ [OwnerNext]_ownerVars =>
        [\A o \in Owner : Serving(o) /\ sock = o /\ sock' # o =>
           \/ \E q \in Owner \ {o} : owner[q].at = "closing" /\ owner'[q].at = "gone"
           \/ \E r \in Refresh :
                run[r].at = "remove" /\ run'[r].at = "spawn" /\ (run[r].saw = "full" \/ o \in left)]_ownerVars
  BY ServingOwnerStep
<1> QED BY <1>1, OwnerInvHolds, PTL DEF OwnerSpec, ServingOwnerIsKept

=============================================================================
