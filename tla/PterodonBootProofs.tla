------------------------ MODULE PterodonBootProofs --------------------------
(***************************************************************************)
(* Proofs about the requests to recovery.cpp, and about where pterodon.cpp *)
(* lets the device boot, for any number of requests and losses of power.   *)
(* What get_args can ever find is a request as it was made, or an update   *)
(* with a count n behind n names of the program, which the BCB has room    *)
(* for; the invariant says which of them is where.                         *)
(***************************************************************************)
EXTENDS PterodonBoot, FiniteSetTheorems, TLAPS

Plain(job) == <<Option(job)>>
Marked(n) ==
    [i \in 1..(n + 2) |-> IF i <= n THEN Option("recovery")
                          ELSE IF i = n + 1 THEN Option("update_package") ELSE RetryCount(n)]

Requests == {Plain(job) : job \in Jobs}
Retries  == {Marked(n) : n \in 1..RETRY_LIMIT}
Found    == {<<>>} \union Requests \union Retries

ArgsOf(options) == <<Option("recovery")>> \o options
Count(options)  == IF Len(options) > 2 THEN Len(options) - 2 ELSE 0

\* What main() does with the arguments as.
JobOf(as) ==
    IF Has(as, "update_package") THEN "update_package"
    ELSE IF Has(as, "wipe_data") THEN "wipe_data"
    ELSE IF Has(as, "prompt_and_wipe_data") THEN "prompt_and_wipe_data"
    ELSE IF Has(as, "wipe_cache") THEN "wipe_cache"
    ELSE IF Has(as, "other") THEN "other"
    ELSE IF Has(as, "sideload") THEN "sideload" ELSE "none"

\* The options ask for the job.
Asks(options, job) == options = Plain(job) \/ (job = "update_package" /\ options \in Retries)

-----------------------------------------------------------------------------
(* Options *)

LEMMA MarkedFacts ==
  ASSUME NEW n \in Nat
  PROVE  /\ Marked(n) \in Seq(Options) /\ Len(Marked(n)) = n + 2 /\ DOMAIN Marked(n) = 1..(n + 2)
         /\ \A i \in 1..n : Marked(n)[i] = Option("recovery")
         /\ Marked(n)[n + 1] = Option("update_package") /\ Marked(n)[n + 2] = RetryCount(n)
<1>1. /\ \A i \in 1..n : Marked(n)[i] = Option("recovery")
      /\ Marked(n)[n + 1] = Option("update_package") /\ Marked(n)[n + 2] = RetryCount(n)
      /\ DOMAIN Marked(n) = 1..(n + 2)
  BY DEF Marked
<1>2. Option("recovery") \in Options /\ Option("update_package") \in Options /\ RetryCount(n) \in Options
  BY DEF Option, RetryCount, Options, Jobs
<1>3. Marked(n) \in [1..(n + 2) -> Options]
  BY <1>2 DEF Marked
<1>4. Marked(n) \in Seq(Options) /\ Len(Marked(n)) = n + 2
  BY <1>1, <1>3
<1> QED BY <1>1, <1>4

LEMMA PlainFacts ==
  ASSUME NEW job \in Jobs
  PROVE  Plain(job) \in Seq(Options) /\ Len(Plain(job)) = 1 /\ Plain(job)[1] = Option(job)
BY DEF Plain, Option, Options

\* Two requests are told apart by what they ask for.
LEMMA OptionsDiffer ==
  /\ \A j1, j2 \in Jobs : Plain(j1) = Plain(j2) => j1 = j2
  /\ \A job \in Jobs : Plain(job) # <<>> /\ Plain(job) \notin Retries
  /\ <<>> \notin Retries
<1>1. \A j1, j2 \in Jobs : Plain(j1) = Plain(j2) => j1 = j2
  <2> SUFFICES ASSUME NEW j1 \in Jobs, NEW j2 \in Jobs, Plain(j1) = Plain(j2) PROVE j1 = j2
    OBVIOUS
  <2>1. Option(j1) = Option(j2)
    BY PlainFacts
  <2> QED BY <2>1 DEF Option
<1>2. \A s \in Retries : Len(s) # 1 /\ s # <<>>
  <2> SUFFICES ASSUME NEW s \in Retries PROVE Len(s) # 1 /\ s # <<>>
    OBVIOUS
  <2>1. PICK n \in 1..RETRY_LIMIT : s = Marked(n)
    BY DEF Retries
  <2>2. n \in Nat /\ n > 0
    BY RecoveryBootAssumption DEF RecoveryBootAssumption
  <2>3. Len(s) = n + 2 /\ s \in Seq(Options)
    BY <2>1, <2>2, MarkedFacts
  <2> QED BY <2>2, <2>3
<1>3. \A job \in Jobs : Plain(job) # <<>> /\ Plain(job) \notin Retries
  <2> SUFFICES ASSUME NEW job \in Jobs PROVE Plain(job) # <<>> /\ Plain(job) \notin Retries
    OBVIOUS
  <2>1. Len(Plain(job)) = 1
    BY PlainFacts
  <2>2. Plain(job) # <<>>
    BY DEF Plain
  <2>3. Plain(job) \notin Retries
    BY <1>2, <2>1
  <2> QED BY <2>2, <2>3
<1> QED BY <1>1, <1>2, <1>3

LEMMA FoundFacts ==
  ASSUME NEW options \in Found
  PROVE  /\ options \in Seq(Options) /\ Len(options) <= Room
         /\ options = <<>> \/ \E job \in Jobs : Asks(options, job)
         /\ Count(options) \in 0..RETRY_LIMIT
<1>1. CASE options = <<>>
  BY <1>1, RoomAssumption, RecoveryBootAssumption DEF RoomAssumption, RecoveryBootAssumption, Count
<1>2. CASE options \in Requests
  <2>1. PICK job \in Jobs : options = Plain(job)
    BY <1>2 DEF Requests
  <2>2. options \in Seq(Options) /\ Len(options) = 1 /\ Asks(options, job)
    BY <2>1, PlainFacts DEF Asks
  <2> QED BY <2>1, <2>2, RoomAssumption, RecoveryBootAssumption
          DEF RoomAssumption, RecoveryBootAssumption, Count
<1>3. CASE options \in Retries
  <2>1. PICK n \in 1..RETRY_LIMIT : options = Marked(n)
    BY <1>3 DEF Retries
  <2>2. n \in Nat /\ Len(options) = n + 2 /\ options \in Seq(Options)
    BY <2>1, MarkedFacts, RecoveryBootAssumption DEF RecoveryBootAssumption
  <2>3. Asks(options, "update_package") /\ "update_package" \in Jobs
    BY <1>3 DEF Asks, Jobs
  <2> QED BY <2>1, <2>2, <2>3, RoomAssumption, RecoveryBootAssumption
          DEF RoomAssumption, RecoveryBootAssumption, Count
<1> QED BY <1>1, <1>2, <1>3 DEF Found

\* The field has room for all that is ever written to it.
LEMMA MessageFits ==
  ASSUME NEW options \in Found
  PROVE  Message(options) = [command |-> "boot-recovery", recovery |-> options]
<1>1. options \in Seq(Options) /\ Len(options) <= Room /\ Len(options) \in Nat /\ Room \in Nat
  BY FoundFacts, RoomAssumption DEF RoomAssumption
<1>2. Min({Len(options), Room}) = Len(options)
  BY <1>1 DEF Min
<1>3. SubSeq(options, 1, Len(options)) = options
  BY <1>1
<1> QED BY <1>2, <1>3, Zenon DEF Message

LEMMA ArgsFacts ==
  ASSUME NEW options \in Seq(Options)
  PROVE  /\ ArgsOf(options) \in Seq(Options) /\ Len(ArgsOf(options)) = Len(options) + 1
         /\ ArgsOf(options)[1] = Option("recovery")
         /\ \A i \in 1..Len(options) : ArgsOf(options)[i + 1] = options[i]
BY DEF ArgsOf, Option, Options

\* main() does what the options ask for.
LEMMA JobIs ==
  ASSUME NEW job \in Jobs, NEW options \in Found, Asks(options, job),
         NEW as, as = ArgsOf(options)
  PROVE  JobOf(as) = job
<1>1. \A o \in Jobs : Has(as, o) <=> o = job
  <2> SUFFICES ASSUME NEW o \in Jobs PROVE Has(as, o) <=> o = job
    OBVIOUS
  <2>1. CASE options = Plain(job)
    <3>1. options \in Seq(Options) /\ Len(options) = 1 /\ options[1] = Option(job)
      BY <2>1, PlainFacts
    <3>2. DOMAIN as = 1..2 /\ as[1].opt = "recovery" /\ as[2].opt = job
      <4>1. as \in Seq(Options) /\ Len(as) = Len(options) + 1 /\ as[1] = Option("recovery")
        BY <3>1, ArgsFacts, Zenon
      <4>2. as[2] = options[1]
        <5>1. \A i \in 1..Len(options) : as[i + 1] = options[i]
          BY <3>1, ArgsFacts, Zenon
        <5>2. 1 \in 1..Len(options) /\ 1 + 1 = 2
          BY <3>1
        <5> QED BY ONLY <5>1, <5>2, Zenon
      <4> QED BY <3>1, <4>1, <4>2 DEF Option
    <3>3. Has(as, o) <=> o = "recovery" \/ o = job
      BY <3>2 DEF Has
    <3> QED BY <3>3 DEF Jobs
  <2>2. CASE job = "update_package" /\ options \in Retries
    <3>1. PICK n \in 1..RETRY_LIMIT : options = Marked(n)
      BY <2>2 DEF Retries
    <3>2. n \in Nat /\ options \in Seq(Options) /\ Len(options) = n + 2
      BY <3>1, MarkedFacts, RecoveryBootAssumption DEF RecoveryBootAssumption
    <3>3. /\ as[n + 2].opt = job
          /\ \A i \in DOMAIN as : as[i].opt \in {"recovery", job, "retry_count"}
      <4>1. DOMAIN as = 1..(n + 3) /\ as[1] = Option("recovery")
            /\ \A i \in 1..(n + 2) : as[i + 1] = options[i]
        <5>1. Len(as) = Len(options) + 1 /\ as \in Seq(Options) /\ as[1] = Option("recovery")
              /\ \A i \in 1..Len(options) : as[i + 1] = options[i]
          BY <3>2, ArgsFacts, Zenon
        <5> QED BY <3>2, <5>1
      <4>2. \A i \in 1..(n + 2) : options[i].opt \in {"recovery", job, "retry_count"}
        BY <2>2, <3>1, <3>2 DEF Marked, Option, RetryCount
      <4>3. options[n + 1].opt = job
        BY <2>2, <3>1, <3>2 DEF Marked, Option
      <4>4. \A i \in DOMAIN as : i = 1 \/ i - 1 \in 1..(n + 2)
        BY <3>2, <4>1
      <4>5. as[n + 2].opt = job
        <5>1. n + 1 \in 1..(n + 2) /\ (n + 1) + 1 = n + 2
          BY <3>2
        <5>2. as[n + 2] = options[n + 1]
          BY ONLY <4>1, <5>1, Zenon
        <5> QED BY <4>3, <5>2
      <4>6. ASSUME NEW i \in DOMAIN as PROVE as[i].opt \in {"recovery", job, "retry_count"}
        <5>1. CASE i = 1
          BY <4>1, <5>1 DEF Option
        <5>2. CASE i - 1 \in 1..(n + 2)
          <6>1. (i - 1) + 1 = i
            BY <3>2, <4>1
          <6>2. as[i] = options[i - 1]
            BY ONLY <4>1, <5>2, <6>1, Zenon
          <6> QED BY <4>2, <5>2, <6>2
        <5> QED BY <4>4, <5>1, <5>2
      <4> QED BY <4>5, <4>6
    <3>4. n + 2 \in DOMAIN as
      BY <3>2, ArgsFacts
    <3>5. Has(as, o) <=> o = job
      BY <2>2, <3>3, <3>4 DEF Has, Jobs
    <3> QED BY <3>5
  <2> QED BY <2>1, <2>2 DEF Asks
<1> QED BY <1>1 DEF JobOf, Jobs

\* get_args finds the last count, if there is one.
LEMMA CountIs ==
  ASSUME NEW options \in Found
  PROVE  LET as == ArgsOf(options)
             counts == {i \in DOMAIN as : as[i].opt = "retry_count"}
         IN  (IF counts = {} THEN 0 ELSE as[Max(counts)].n) = Count(options)
<1> DEFINE as == ArgsOf(options)
           counts == {i \in DOMAIN as : as[i].opt = "retry_count"}
<1>0. options \in Seq(Options) /\ as \in Seq(Options) /\ Len(as) = Len(options) + 1
      /\ as[1].opt = "recovery" /\ \A i \in 1..Len(options) : as[i + 1] = options[i]
  BY FoundFacts, ArgsFacts DEF Option
<1>1. CASE options = <<>>
  <2>1. counts = {} /\ Count(options) = 0
    BY <1>0, <1>1 DEF Count
  <2> QED BY <2>1
<1>2. CASE options \in Requests
  <2>1. PICK job \in Jobs : options = Plain(job)
    BY <1>2 DEF Requests
  <2>2. Len(options) = 1 /\ options[1].opt = job
    <3>1. Len(options) = 1 /\ options[1] = Option(job)
      BY <2>1, PlainFacts
    <3> QED BY <3>1 DEF Option
  <2>3. DOMAIN as = {1, 2} /\ as[2].opt = job /\ job # "retry_count"
    BY <1>0, <2>2 DEF Jobs
  <2>4. counts = {} /\ Count(options) = 0
    BY <1>0, <2>2, <2>3 DEF Count
  <2> QED BY <2>4
<1>3. CASE options \in Retries
  <2>1. PICK n \in 1..RETRY_LIMIT : options = Marked(n)
    BY <1>3 DEF Retries
  <2>2. n \in Nat \ {0} /\ Len(options) = n + 2 /\ Count(options) = n
    <3>1. n \in Nat \ {0}
      BY RecoveryBootAssumption DEF RecoveryBootAssumption
    <3>2. Len(options) = n + 2
      BY <2>1, <3>1, MarkedFacts
    <3> QED BY <3>1, <3>2 DEF Count
  <2>3. as[n + 3] = RetryCount(n) /\ DOMAIN as = 1..(n + 3)
    BY <1>0, <2>1, <2>2, MarkedFacts
  <2>4. \A i \in 1..(n + 1) : options[i].opt # "retry_count"
    BY <2>1, <2>2 DEF Marked, Option
  <2>5. \A i \in DOMAIN as : i = 1 \/ i - 1 \in 1..(n + 1) \/ i = n + 3
    BY <2>2, <2>3
  <2>6. counts = {n + 3}
    <3>1. n + 3 \in counts
      BY <2>2, <2>3 DEF RetryCount
    <3>2. ASSUME NEW i \in counts PROVE i = n + 3
      <4>1. i \in DOMAIN as /\ as[i].opt = "retry_count"
        OBVIOUS
      <4>2. ASSUME i - 1 \in 1..(n + 1) PROVE FALSE
        <5>1. as[(i - 1) + 1] = options[i - 1] /\ options[i - 1].opt # "retry_count"
          BY <1>0, <2>2, <2>4, <4>2
        <5> QED BY <2>3, <4>1, <5>1
      <4> QED BY <1>0, <2>5, <4>1, <4>2
    <3> QED BY <3>1, <3>2
  <2>7. Max(counts) = n + 3
    BY <2>2, <2>6 DEF Max
  <2> QED BY <2>2, <2>3, <2>6, <2>7 DEF RetryCount
<1> QED BY <1>1, <1>2, <1>3 DEF Found

\* If a count can only be last, the arguments without it are those before it.
LEMMA KeepsFront ==
  ASSUME NEW s \in Seq(Options), NEW m \in Nat,
         {i \in DOMAIN s : s[i].opt # "retry_count"} = 1..m
  PROVE  WithoutCount(s) = [j \in 1..m |-> s[j]]
<1>1. \A i \in Nat : Cardinality(1..i) = i
  <2> SUFFICES ASSUME NEW i \in Nat PROVE Cardinality(1..i) = i
    OBVIOUS
  <2>1. Cardinality(1..i) = IF 1 > i THEN 0 ELSE i - 1 + 1
    BY FS_Interval
  <2> QED BY <2>1
<1>2. \A i \in 1..m : Cardinality({h \in 1..m : h <= i}) = i
  <2> SUFFICES ASSUME NEW i \in 1..m PROVE Cardinality({h \in 1..m : h <= i}) = i
    OBVIOUS
  <2>1. {h \in 1..m : h <= i} = 1..i /\ i \in Nat
    OBVIOUS
  <2> QED BY <1>1, <2>1, Zenon
<1>3. \A j \in 1..m : (CHOOSE i \in 1..m : Cardinality({h \in 1..m : h <= i}) = j) = j
  BY <1>2
<1>4. Cardinality(1..m) = m
  BY <1>1
<1> DEFINE kept == {i \in DOMAIN s : s[i].opt # "retry_count"}
           nth(j) == CHOOSE i \in kept : Cardinality({h \in kept : h <= i}) = j
<1>5. WithoutCount(s) = [j \in 1..Cardinality(kept) |-> s[nth(j)]]
  BY DEF WithoutCount
<1>6. kept = 1..m
  OBVIOUS
<1>7. \A j \in 1..m : nth(j) = j
  BY <1>3, <1>6, Zenon
<1> HIDE DEF kept, nth
<1>8. Cardinality(kept) = m
  BY <1>4, <1>6
<1> QED BY <1>5, <1>7, <1>8

\* Each retry writes one more name of the program and the next count.
LEMMA NextMark ==
  ASSUME NEW options \in Found, Asks(options, "update_package")
  PROVE  WithoutCount(ArgsOf(options)) \o <<RetryCount(Count(options) + 1)>> = Marked(Count(options) + 1)
<1> DEFINE as == ArgsOf(options)
           n == Count(options)
           m == n + 2
<1>1. options \in Seq(Options) /\ as \in Seq(Options) /\ n \in Nat
  BY FoundFacts, ArgsFacts, RecoveryBootAssumption DEF RecoveryBootAssumption
<1>2. /\ {i \in DOMAIN as : as[i].opt # "retry_count"} = 1..m
      /\ \A j \in 1..m : as[j] = Marked(n + 1)[j]
  <2>1. CASE options = Plain("update_package")
    <3>1. Len(options) = 1 /\ options[1] = Option("update_package")
      BY <2>1, PlainFacts DEF Jobs
    <3>2. n = 0 /\ m = 2
      BY <3>1 DEF Count
    <3>3. DOMAIN as = 1..2 /\ as[1] = Option("recovery") /\ as[2] = Option("update_package")
      <4>1. Len(as) = Len(options) + 1 /\ as[1] = Option("recovery")
            /\ \A i \in 1..Len(options) : as[i + 1] = options[i]
        BY <1>1, ArgsFacts
      <4> HIDE DEF as
      <4>2. Len(as) = 2
        BY <3>1, <4>1
      <4>3. 1 \in 1..Len(options) /\ 1 + 1 = 2
        BY <3>1
      <4>4. as[2] = options[1]
        BY ONLY <4>1, <4>3, Zenon
      <4> QED BY <1>1, <3>1, <4>1, <4>2, <4>4
    <3>4. Marked(1)[1] = Option("recovery") /\ Marked(1)[2] = Option("update_package")
      BY DEF Marked
    <3>5. \A j \in 1..2 : as[j].opt # "retry_count"
      BY <3>3 DEF Option
    <3> QED BY <3>2, <3>3, <3>4, <3>5
  <2>2. CASE options \in Retries
    <3>1. PICK k \in 1..RETRY_LIMIT : options = Marked(k)
      BY <2>2 DEF Retries
    <3>2. k \in Nat \ {0}
      BY RecoveryBootAssumption DEF RecoveryBootAssumption
    <3>3. Len(options) = k + 2
      BY <3>1, <3>2, MarkedFacts
    <3>4. n = k /\ m = k + 2
      BY <3>2, <3>3 DEF Count
    <3>5. /\ DOMAIN as = 1..(k + 3) /\ as[1] = Option("recovery")
          /\ \A i \in 1..(k + 2) : as[i + 1] = options[i]
      <4>1. Len(as) = Len(options) + 1 /\ as[1] = Option("recovery")
            /\ \A i \in 1..Len(options) : as[i + 1] = options[i]
        BY <1>1, ArgsFacts
      <4>2. Len(as) = k + 3
        BY <3>2, <3>3, <4>1
      <4> QED BY <1>1, <3>3, <4>1, <4>2
    <3>6. \A i \in 2..(k + 3) : as[i] = options[i - 1]
      <4> SUFFICES ASSUME NEW i \in 2..(k + 3) PROVE as[i] = options[i - 1]
        OBVIOUS
      <4>1. i - 1 \in 1..(k + 2) /\ (i - 1) + 1 = i
        BY <3>2
      <4> QED BY <3>5, <4>1
    <3>7. \A j \in 1..m : as[j] = Marked(k + 1)[j]
      <4> SUFFICES ASSUME NEW j \in 1..(k + 2) PROVE as[j] = Marked(k + 1)[j]
        BY <3>4
      <4>1. CASE j = 1
        BY <3>2, <3>5, <4>1 DEF Marked
      <4>2. CASE j # 1
        <5>1. as[j] = Marked(k)[j - 1] /\ j - 1 \in 1..(k + 1)
          BY <3>1, <3>2, <3>6, <4>2
        <5> QED BY <3>2, <5>1 DEF Marked
      <4> QED BY <4>1, <4>2
    <3>8. \A j \in 1..(k + 2) : as[j].opt # "retry_count"
      <4> SUFFICES ASSUME NEW j \in 1..(k + 2) PROVE as[j].opt # "retry_count"
        OBVIOUS
      <4>1. as[j] \in {Option("recovery"), Option("update_package")}
        <5>1. as[j] = Marked(k + 1)[j]
          BY <3>4, <3>7
        <5>2. Marked(k + 1)[j] = IF j <= k + 1 THEN Option("recovery") ELSE Option("update_package")
          BY <3>2 DEF Marked
        <5> QED BY <5>1, <5>2
      <4> QED BY <4>1 DEF Option
    <3>9. as[k + 3].opt = "retry_count"
      <4>1. as[k + 3] = Marked(k)[k + 2]
        BY <3>1, <3>2, <3>6
      <4>2. Marked(k)[k + 2] = RetryCount(k)
        BY <3>2, MarkedFacts
      <4> QED BY <4>1, <4>2 DEF RetryCount
    <3>10. {i \in DOMAIN as : as[i].opt # "retry_count"} = 1..(k + 2)
      <4>1. \A i \in DOMAIN as : i \in 1..(k + 2) \/ i = k + 3
        BY <3>2, <3>5
      <4> QED BY <3>2, <3>5, <3>8, <3>9, <4>1
    <3> QED BY <3>4, <3>7, <3>10
  <2> QED BY <2>1, <2>2 DEF Asks
<1>0. m \in Nat /\ n + 1 \in Nat /\ m + 1 = (n + 1) + 2
  BY <1>1
<1> HIDE DEF as, n, m
<1>3. WithoutCount(as) = [j \in 1..m |-> as[j]]
  BY <1>0, <1>1, <1>2, KeepsFront, Zenon
<1>4. WithoutCount(as) = [j \in 1..m |-> Marked(n + 1)[j]]
  BY <1>2, <1>3, Zenon
<1>5. Marked(n + 1) \in Seq(Options) /\ Len(Marked(n + 1)) = m + 1 /\ Marked(n + 1)[m + 1] = RetryCount(n + 1)
  BY <1>0, MarkedFacts, Zenon
<1>6. WithoutCount(as) \in Seq(Options) /\ Len(WithoutCount(as)) = m /\ \A j \in 1..m : WithoutCount(as)[j] = Marked(n + 1)[j]
  BY <1>0, <1>4, <1>5
<1>7. WithoutCount(as) \o <<RetryCount(n + 1)>> = Marked(n + 1)
  <2> DEFINE w == WithoutCount(as)
             v == Marked(n + 1)
             c == RetryCount(n + 1)
  <2>1. w \in Seq(Options) /\ Len(w) = m /\ v \in Seq(Options) /\ Len(v) = m + 1 /\ v[m + 1] = c
        /\ \A j \in 1..m : w[j] = v[j]
    BY <1>5, <1>6, Zenon
  <2>2. c \in Options
    BY <1>0 DEF RetryCount, Options
  <2> HIDE DEF w, v, c
  <2>3. w \o <<c>> \in Seq(Options) /\ Len(w \o <<c>>) = m + 1
    BY <1>0, <2>1, <2>2
  <2>4. \A j \in 1..(m + 1) : (w \o <<c>>)[j] = v[j]
    BY <1>0, <2>1, <2>2
  <2>5. w \o <<c>> = v
    BY <1>0, <2>1, <2>3, <2>4
  <2> QED BY <2>5, Zenon DEF w, v, c
<1> QED BY <1>7 DEF as, n

\* What main() does is what the options ask for, and nothing else is asked for.
LEMMA JobAsked ==
  ASSUME NEW options \in Found, NEW as, as = ArgsOf(options)
  PROVE  \A job \in Jobs : JobOf(as) = job <=> Asks(options, job)
<1>1. CASE options = <<>>
  <2>1. \A job \in Jobs : ~Asks(options, job)
    BY <1>1, OptionsDiffer DEF Asks
  <2>2. as = <<Option("recovery")>>
    BY <1>1 DEF ArgsOf
  <2>3. \A job \in Jobs : ~Has(as, job)
    BY <2>2 DEF Has, Option, Jobs
  <2>4. JobOf(as) = "none"
    BY <2>3 DEF JobOf, Jobs
  <2> QED BY <2>1, <2>4 DEF Jobs
<1>2. CASE options \in Requests \union Retries
  <2>1. PICK job \in Jobs : Asks(options, job)
    BY <1>2 DEF Requests, Asks, Jobs
  <2>2. JobOf(as) = job
    BY <2>1, JobIs
  <2>3. \A o \in Jobs : Asks(options, o) => JobOf(as) = o
    BY JobIs
  <2> QED BY <2>1, <2>2, <2>3
<1> QED BY <1>1, <1>2 DEF Found

-----------------------------------------------------------------------------
(* The invariant of recovery.cpp *)

Outside == {"off", "system", "get_args"}
Inside  == {"main", "install", "retry", "reboot_recovery", "wipe_cache", "erase_cache", "sdcard",
            "menu", "finish", "unlink"}

\* What is in flash, and that the system is only running with a message in the
\* control block if it has just put it there.
FlashInv ==
    /\ bcb \in [command : {"", "boot-recovery"}, recovery : Found]
    /\ command_file \in {<<>>} \union Requests
    /\ bcb.command = "" => bcb.recovery = <<>>
    /\ pc = "system" /\ owed = "none" => bcb = NoMessage
    /\ pc \in Inside \union Outside /\ owed \in Jobs \union {"none"}
    /\ tries \in Nat /\ power \in 0..MaxPower

\* What get_args found.  Here and below, what is said of the request that is owed
\* holds until a lapse.
Reads(options) ==
    /\ args = ArgsOf(options)
    /\ pc \in {"main", "install", "retry"} => retry_count = Count(options)
    /\ pc \in {"install", "retry"} => Asks(options, "update_package")
    /\ owed # "none" /\ ~lapse => Asks(options, owed)

ArgsInv ==
    /\ pc \in Inside => \E options \in Found : Reads(options)
    /\ pc = "retry" => retry_count < RETRY_LIMIT

OwedInv ==
    owed # "none" /\ ~lapse =>
        /\ Asks(bcb.recovery, owed) \/ (pc \in Outside /\ bcb.recovery = <<>> /\ Asks(command_file, owed))
        /\ pc \in Inside => bcb.command = "boot-recovery" /\ pc \notin {"menu", "sdcard", "unlink"}

DoneInv ==
    owed # "none" /\ ~lapse =>
        /\ pc = "wipe_cache" => done
        /\ pc = "finish" /\ status = "success" => done
        /\ pc = "erase_cache" => owed \in {"wipe_data", "prompt_and_wipe_data"}

ResetInv ==
    /\ owed = "wipe_data" /\ done => command_file # Plain("wipe_data")
    /\ owed # "wipe_data" /\ reset =>
          /\ command_file # Plain("wipe_data") /\ bcb.recovery # Plain("wipe_data")
          /\ pc = "main" => Job # "wipe_data"

\* A try that is not yet counted in the control block is on its way there, or is
\* the last, or was cut short by a loss of power.
Lost == MaxPower - power
TriesInv ==
    /\ TriesBounded
    /\ owed = "update_package" /\ ~lapse =>
          /\ tries <= Count(bcb.recovery) + Lost + (IF pc \in {"retry", "finish"} THEN 1 ELSE 0)
          /\ pc \in {"install", "retry"} =>
                /\ retry_count <= Count(bcb.recovery)
                /\ tries <= retry_count + Lost + (IF pc = "retry" THEN 1 ELSE 0)
          /\ pc = "main" => retry_count = Count(bcb.recovery)

RInv == FlashInv /\ ArgsInv /\ OwedInv /\ DoneInv /\ ResetInv /\ TriesInv

LEMMA CountNat ==
  ASSUME FlashInv
  PROVE  /\ Count(bcb.recovery) \in Nat /\ Count(bcb.recovery) <= RETRY_LIMIT
         /\ Lost \in Nat /\ RETRY_LIMIT \in Nat
<1>1. bcb.recovery \in Found /\ power \in 0..MaxPower
  BY DEF FlashInv
<1>2. MaxPower \in Nat /\ RETRY_LIMIT \in Nat
  BY RecoveryBootAssumption DEF RecoveryBootAssumption
<1>3. Count(bcb.recovery) \in 0..RETRY_LIMIT
  BY <1>1, FoundFacts
<1> QED BY <1>1, <1>2, <1>3 DEF Lost

\* main() ends in finish_recovery(), with the message where it is.
LEMMA FinishStep ==
  ASSUME RInv, pc \in Inside, pc' = "finish", UNCHANGED <<bcb, args, owed, reset, lapse, power>>,
         command_file' \in {command_file, <<>>}, DoneInv',
         owed = "wipe_data" /\ done' => command_file' # Plain("wipe_data"),
         tries' = tries \/ (pc = "install" /\ CountTry),
         owed # "none" /\ ~lapse => pc \notin {"menu", "sdcard", "unlink"}
  PROVE  RInv'
<1>0. Plain("wipe_data") # <<>>
  BY OptionsDiffer DEF Jobs
<1>1. /\ Count(bcb.recovery) \in Nat /\ Count(bcb.recovery) <= RETRY_LIMIT
      /\ Lost \in Nat /\ RETRY_LIMIT \in Nat /\ tries \in Nat
  BY CountNat DEF RInv, FlashInv
<1>2. tries' \in Nat
  BY <1>1 DEF CountTry
<1>3. FlashInv'
  BY <1>2 DEF RInv, FlashInv, Inside
<1>4. ArgsInv'
  BY DEF RInv, ArgsInv, Reads, Inside
<1>5. OwedInv'
  BY DEF RInv, OwedInv, Inside, Outside
<1>6. ResetInv'
  BY <1>0 DEF RInv, ResetInv
<1>7. TriesInv'
  <2>1. Lost' = Lost /\ Count(bcb.recovery)' = Count(bcb.recovery)
    BY DEF Lost
  <2>2. CASE tries' = tries
    BY <1>1, <2>1, <2>2 DEF RInv, TriesInv, TriesBounded, Lost
  <2>3. CASE pc = "install" /\ CountTry
    <3>0. CASE lapse
      BY <3>0 DEF TriesInv, TriesBounded
    <3>1. CASE owed = "update_package" /\ ~lapse
      <4>1. retry_count \in Nat
        <5>1. PICK options \in Found : retry_count = Count(options)
          BY <2>3 DEF RInv, ArgsInv, Reads
        <5> QED BY <5>1, FoundFacts
      <4>2. retry_count <= Count(bcb.recovery) /\ tries <= retry_count + Lost
        BY <1>1, <2>3, <3>1, <4>1 DEF RInv, TriesInv
      <4>3. tries' <= Count(bcb.recovery) + Lost + 1
        BY <1>1, <2>3, <4>1, <4>2 DEF CountTry
      <4> QED BY <1>1, <1>2, <2>1, <4>3 DEF TriesInv, TriesBounded, Lost
    <3>2. CASE owed # "update_package"
      <4>1. tries' = tries
        BY <2>3, <3>2 DEF CountTry
      <4> QED BY <2>2, <4>1
    <3> QED BY <3>0, <3>1, <3>2
  <2> QED BY <2>2, <2>3
<1> QED BY <1>3, <1>4, <1>5, <1>6, <1>7 DEF RInv

LEMMA RequestStep ==
  ASSUME RInv, NEW job \in Jobs, Request(job)
  PROVE  RInv'
<1>0. /\ Count(<<>>) = 0 /\ Lost \in Nat /\ RETRY_LIMIT \in Nat /\ Plain(job) \in Found
      /\ Message(Plain(job)) = [command |-> "boot-recovery", recovery |-> Plain(job)]
  <2>1. Plain(job) \in Found
    BY DEF Found, Requests
  <2> QED BY <2>1, CountNat, MessageFits DEF RInv, Count
<1>1. /\ pc = "system" /\ pc' = pc /\ owed = "none" /\ owed' = job /\ job # "none" /\ bcb = NoMessage
      /\ tries' = 0 /\ ~done' /\ ~lapse' /\ UNCHANGED <<reset, power, retry_count>>
  BY DEF RInv, FlashInv, Request, Jobs, history, past, local
<1>2. \/ command_file' = Plain(job) /\ bcb' = NoMessage
      \/ bcb' = [command |-> "boot-recovery", recovery |-> Plain(job)] /\ command_file' = command_file
  BY <1>0, <1>1 DEF Request, Plain
<1>a. /\ bcb' \in [command : {"", "boot-recovery"}, recovery : Found]
      /\ bcb'.command = "" => bcb'.recovery = <<>>
      /\ bcb'.recovery = Plain(job) \/ (bcb'.recovery = <<>> /\ command_file' = Plain(job))
      /\ bcb'.recovery \in {<<>>, Plain(job)} /\ command_file' \in {command_file, Plain(job)}
  <2>1. CASE command_file' = Plain(job) /\ bcb' = NoMessage
    BY <2>1 DEF NoMessage, Found
  <2>2. CASE bcb' = [command |-> "boot-recovery", recovery |-> Plain(job)] /\ command_file' = command_file
    BY <1>0, <2>2
  <2> QED BY <1>2, <2>1, <2>2
<1>3. FlashInv'
  BY <1>0, <1>1, <1>a DEF RInv, FlashInv, Requests, Outside
<1>4. ArgsInv'
  BY <1>1 DEF ArgsInv, Inside
<1>5. OwedInv'
  BY <1>1, <1>a DEF OwedInv, Asks, Outside, Inside
<1>6. DoneInv' /\ TriesInv'
  <2>1. Lost' \in Nat /\ Count(bcb.recovery)' \in Nat
    <3>1. bcb'.recovery \in Found /\ Lost' = Lost
      BY <1>1, <1>a DEF Lost
    <3>2. Count(bcb'.recovery) \in 0..RETRY_LIMIT
      BY <3>1, FoundFacts
    <3> QED BY <1>0, <3>1, <3>2
  <2> QED BY <1>0, <1>1, <2>1 DEF DoneInv, TriesInv, TriesBounded, Lost
<1>7. ResetInv'
  <2>1. job # "wipe_data" => Plain(job) # Plain("wipe_data") /\ <<>> # Plain("wipe_data")
    BY OptionsDiffer DEF Jobs
  <2> QED BY <1>1, <1>a, <2>1 DEF RInv, ResetInv
<1> QED BY <1>3, <1>4, <1>5, <1>6, <1>7 DEF RInv

\* The device goes down, and up again.
LEMMA BootStep ==
  ASSUME RInv, SystemReboots \/ PowerFails \/ Boot
  PROVE  RInv'
<1>0. /\ Count(bcb.recovery) \in Nat /\ Lost \in Nat /\ RETRY_LIMIT \in Nat /\ MaxPower \in Nat
      /\ tries \in Nat /\ power \in 0..MaxPower
  BY CountNat, RecoveryBootAssumption DEF RInv, FlashInv, RecoveryBootAssumption
<1>1. /\ UNCHANGED <<bcb, command_file, owed, done, tries, reset, lapse>> /\ pc' \in Outside
      /\ pc' = "system" => bcb.command = ""
  <2>1. bcb.command \in {"", "boot-recovery"}
    BY DEF RInv, FlashInv
  <2>2. CASE SystemReboots
    BY <2>2 DEF SystemReboots, flash, history, past, Outside
  <2>3. CASE PowerFails
    BY <2>3 DEF PowerFails, flash, history, past, Outside
  <2>4. CASE Boot
    BY <2>1, <2>4 DEF Boot, flash, history, past, Outside
  <2> QED BY <2>2, <2>3, <2>4
<1>p. \/ power' = power /\ pc \in {"system", "off"}
      \/ power' \in 0..MaxPower /\ power = power' + 1
  <2>1. CASE SystemReboots \/ Boot
    BY <2>1 DEF SystemReboots, Boot, bounds
  <2>2. CASE PowerFails
    <3>1. power > 0 /\ power' = power - 1
      BY <2>2 DEF PowerFails
    <3> QED BY <1>0, <3>1
  <2> QED BY <2>1, <2>2
<1>2. FlashInv'
  <2>1. power' \in 0..MaxPower
    BY <1>0, <1>p
  <2>2. bcb.command = "" => bcb = NoMessage
    BY DEF RInv, FlashInv, NoMessage
  <2> QED BY <1>1, <2>1, <2>2 DEF RInv, FlashInv
<1>3. ArgsInv' /\ DoneInv'
  BY <1>1 DEF ArgsInv, DoneInv, Inside, Outside
<1>4. OwedInv'
  BY <1>1 DEF RInv, FlashInv, OwedInv, Inside, Outside
<1>5. ResetInv'
  BY <1>1 DEF RInv, ResetInv, Outside
<1>6. TriesInv'
  <2>1. CASE power' = power /\ pc \in {"system", "off"}
    BY <1>0, <1>1, <2>1 DEF RInv, TriesInv, TriesBounded, Lost, Outside
  <2>2. CASE power' \in 0..MaxPower /\ power = power' + 1
    <3>1. Lost' = Lost + 1 /\ Count(bcb.recovery)' = Count(bcb.recovery) /\ tries' = tries
      <4>1. Lost' = Lost + 1
        BY <1>0, <2>2 DEF Lost
      <4> QED BY <1>1, <4>1
    <3>2. lapse \/ tries <= RETRY_LIMIT + 1 + Lost
      BY DEF RInv, TriesInv, TriesBounded, Lost
    <3>3. owed = "update_package" /\ ~lapse => tries <= Count(bcb.recovery) + (Lost + 1)
      BY <1>0 DEF RInv, TriesInv
    <3>4. TriesBounded'
      <4>1. lapse \/ tries <= RETRY_LIMIT + 1 + (Lost + 1)
        BY <1>0, <3>2
      <4> QED BY <1>1, <3>1, <4>1 DEF TriesBounded, Lost
    <3>5. owed' = owed /\ lapse' = lapse /\ pc' \notin {"main", "install", "retry", "finish"}
      BY <1>1 DEF Outside
    <3> QED BY <1>0, <3>1, <3>3, <3>4, <3>5 DEF TriesInv
  <2> QED BY <1>p, <2>1, <2>2
<1> QED BY <1>2, <1>3, <1>4, <1>5, <1>6 DEF RInv

LEMMA GetArgsStep ==
  ASSUME RInv, GetArgs
  PROVE  RInv'
<1>0. /\ Count(bcb.recovery) \in Nat /\ Lost \in Nat /\ RETRY_LIMIT \in Nat /\ tries \in Nat
  BY CountNat DEF RInv, FlashInv
<1>1. PICK options \in Readable :
         /\ TakeArgs(options) /\ Write(Message(options))
         /\ lapse' = (lapse \/ options # Pending \/ bcb' # Message(options))
  BY DEF GetArgs
<1>2. options \in {<<>>, bcb.recovery, command_file} /\ options \in Found
  <2>1. options \in {<<>>, bcb.recovery, command_file}
    BY <1>1 DEF Readable
  <2> QED BY <2>1 DEF RInv, FlashInv, Found
<1>3. args' = ArgsOf(options) /\ retry_count' = Count(options)
  <2>1. args' = ArgsOf(options)
    BY <1>1 DEF TakeArgs, ArgsOf
  <2>2. retry_count' = LET counts == {i \in DOMAIN args' : args'[i].opt = "retry_count"}
                       IN  IF counts = {} THEN 0 ELSE args'[Max(counts)].n
    BY <1>1 DEF TakeArgs
  <2> QED BY <1>2, <2>1, <2>2, CountIs
<1>4. /\ pc = "get_args" /\ pc' = "main"
      /\ UNCHANGED <<command_file, owed, done, tries, reset, power>>
  BY DEF GetArgs, past, bounds
<1>5. Message(options) = [command |-> "boot-recovery", recovery |-> options]
  BY <1>2, MessageFits
<1>6. bcb' \in {bcb, [command |-> "boot-recovery", recovery |-> options]}
  BY <1>1, <1>5 DEF Write
<1>7. ASSUME ~lapse'
      PROVE  /\ ~lapse /\ options = Pending
             /\ bcb'.recovery = options /\ bcb'.command = "boot-recovery"
  <2>1. ~lapse /\ options = Pending /\ bcb' = Message(options)
    BY <1>1, <1>7, Zenon
  <2>2. bcb'.recovery = options /\ bcb'.command = "boot-recovery"
    BY <1>5, <2>1
  <2> QED BY <2>1, <2>2
<1>8. ASSUME owed # "none", ~lapse' PROVE Asks(options, owed) /\ owed \in Jobs
  <2>1. owed \in Jobs
    BY <1>8 DEF RInv, FlashInv
  <2>2. ~Asks(<<>>, owed)
    BY <2>1, OptionsDiffer DEF Asks
  <2> QED BY <1>7, <1>8, <2>1, <2>2 DEF RInv, OwedInv, Pending
<1>9. FlashInv'
  <2> DEFINE Fine(message) == /\ message \in [command : {"", "boot-recovery"}, recovery : Found]
                              /\ message.command = "" => message.recovery = <<>>
  <2>1. Fine(bcb)
    BY DEF RInv, FlashInv
  <2>2. Fine([command |-> "boot-recovery", recovery |-> options])
    BY <1>2
  <2>3. Fine(bcb')
    BY <1>6, <2>1, <2>2, Zenon
  <2> QED BY <1>4, <2>3 DEF RInv, FlashInv, Inside
<1>10. ArgsInv'
  <2>1. Reads(options)'
    BY <1>3, <1>4, <1>8 DEF Reads
  <2> QED BY <1>2, <1>4, <2>1 DEF ArgsInv
<1>11. OwedInv' /\ DoneInv'
  BY <1>4, <1>7, <1>8 DEF OwedInv, DoneInv
<1>12. ResetInv'
  <2>1. reset /\ owed # "wipe_data" => options # Plain("wipe_data")
    BY <1>2, OptionsDiffer DEF RInv, ResetInv, Jobs
  <2>2. ASSUME reset, owed # "wipe_data" PROVE Job' # "wipe_data"
    <3>1. ~Asks(options, "wipe_data") /\ "wipe_data" \in Jobs
      BY <2>1, <2>2 DEF Asks, Jobs
    <3>2. \A job \in Jobs : Job' = job <=> Asks(options, job)
      <4>1. \A job \in Jobs : JobOf(args') = job <=> Asks(options, job)
        BY <1>2, <1>3, JobAsked
      <4> QED BY <4>1 DEF Job, JobOf
    <3> QED BY <3>1, <3>2
  <2>3. bcb'.recovery \in {bcb.recovery, options}
    BY <1>6
  <2> QED BY <1>4, <2>1, <2>2, <2>3 DEF RInv, ResetInv
<1>13. TriesInv'
  <2>1. CASE lapse'
    BY <2>1 DEF TriesInv, TriesBounded
  <2>2. CASE ~lapse'
    <3>1. ASSUME options # bcb.recovery PROVE Count(options) = 0 /\ Count(bcb.recovery) = 0
      <4>1. bcb.recovery = <<>> /\ options \in Requests
        BY <1>7, <2>2, <3>1 DEF RInv, FlashInv, Pending
      <4>2. PICK job \in Jobs : options = Plain(job)
        BY <4>1 DEF Requests
      <4>3. Len(options) = 1
        BY <4>2, PlainFacts
      <4>4. Len(bcb.recovery) = 0
        BY <4>1
      <4> QED BY <4>3, <4>4 DEF Count
    <3>2. Count(bcb.recovery)' = Count(bcb.recovery) /\ retry_count' = Count(bcb.recovery)
      BY <1>3, <1>7, <2>2, <3>1
    <3>3. Lost' = Lost /\ ~lapse
      BY <1>4, <1>7, <2>2 DEF Lost
    <3> QED BY <1>0, <1>4, <3>2, <3>3 DEF RInv, TriesInv, TriesBounded, Lost
  <2> QED BY <2>1, <2>2
<1> QED BY <1>9, <1>10, <1>11, <1>12, <1>13 DEF RInv

\* main() knows what it does: the request, if one is owed.
LEMMA MainFacts ==
  ASSUME RInv, pc \in Inside
  PROVE  /\ owed # "none" /\ ~lapse => Job = owed /\ owed \in Jobs
         /\ pc \in {"install", "retry"} => Job = "update_package" /\ retry_count \in Nat
         /\ Job # "update_package" => pc \notin {"install", "retry"}
<1>1. PICK options \in Found : Reads(options)
  BY DEF RInv, ArgsInv
<1>2. \A job \in Jobs : Job = job <=> Asks(options, job)
  <2>1. \A job \in Jobs : JobOf(args) = job <=> Asks(options, job)
    BY <1>1, JobAsked DEF Reads
  <2> QED BY <2>1 DEF Job, JobOf
<1>3. owed # "none" /\ ~lapse => Job = owed /\ owed \in Jobs
  BY <1>1, <1>2 DEF Reads, RInv, FlashInv
<1>4. pc \in {"install", "retry"} => Job = "update_package"
  BY <1>1, <1>2 DEF Reads, Jobs
<1>5. pc \in {"install", "retry"} => retry_count \in Nat
  BY <1>1, FoundFacts DEF Reads
<1> QED BY <1>3, <1>4, <1>5

LEMMA MarkStep ==
  ASSUME NEW options \in Found, Asks(options, "update_package"), args = ArgsOf(options),
         NEW n \in Nat, n = Count(options) + 1, n <= RETRY_LIMIT, SetRetry(n)
  PROVE  /\ \/ bcb' = bcb /\ lapse'
            \/ /\ bcb' \in [command : {"boot-recovery"}, recovery : Retries]
               /\ Count(bcb'.recovery) = n /\ (lapse => lapse')
<1>1. RETRY_LIMIT \in Nat /\ Count(options) \in Nat /\ n # 0
  BY FoundFacts, RecoveryBootAssumption DEF RecoveryBootAssumption
<1>2. Marked(n) \in Retries /\ Marked(n) \in Found
  BY <1>1 DEF Retries, Found
<1>3. Len(Marked(n)) = n + 2
  BY MarkedFacts, Zenon
<1>4. WithoutCount(args) \o <<RetryCount(n)>> = Marked(n)
  BY NextMark
<1>5. /\ Write([command |-> "boot-recovery", recovery |-> Marked(n)])
      /\ lapse' = (lapse \/ bcb' # [command |-> "boot-recovery", recovery |-> Marked(n)])
  BY <1>2, <1>4, MessageFits, Zenon DEF SetRetry
<1>6. Count(Marked(n)) = n
  BY <1>1, <1>3 DEF Count
<1>7. CASE bcb' = [command |-> "boot-recovery", recovery |-> Marked(n)]
  BY <1>2, <1>5, <1>6, <1>7
<1>8. CASE bcb' # [command |-> "boot-recovery", recovery |-> Marked(n)]
  BY <1>5, <1>8 DEF Write
<1> QED BY <1>7, <1>8

LEMMA StartUpdateStep ==
  ASSUME RInv, StartUpdate
  PROVE  RInv'
<1>0. /\ Count(bcb.recovery) \in Nat /\ Lost \in Nat /\ RETRY_LIMIT \in Nat \ {0} /\ tries \in Nat
      /\ Count(bcb.recovery) <= RETRY_LIMIT
  BY CountNat, RecoveryBootAssumption DEF RInv, FlashInv, RecoveryBootAssumption
<1>1. /\ pc = "main" /\ pc' = "install" /\ Job = "update_package"
      /\ UNCHANGED <<command_file, args, retry_count, owed, done, tries, reset, power, status>>
  BY DEF StartUpdate, local, history, past, bounds
<1>2. owed # "none" /\ ~lapse => owed = "update_package"
  BY <1>1, MainFacts DEF Inside
<1>3. PICK options \in Found : Reads(options)
  BY <1>1 DEF RInv, ArgsInv, Inside
<1>4. args = ArgsOf(options) /\ retry_count = Count(options) /\ retry_count \in Nat
  BY <1>1, <1>3, FoundFacts DEF Reads
<1>5. Asks(options, "update_package")
  <2>1. \A job \in Jobs : JobOf(args) = job <=> Asks(options, job)
    BY <1>4, JobAsked
  <2> QED BY <1>1, <2>1 DEF Job, JobOf, Jobs
<1>6. \/ bcb' = bcb /\ (lapse => lapse') /\ (lapse' \/ retry_count # 0)
      \/ /\ retry_count = 0 /\ bcb' \in [command : {"boot-recovery"}, recovery : Retries]
         /\ Count(bcb'.recovery) = 1 /\ (lapse => lapse')
  <2>1. CASE retry_count = 0
    <3>1. SetRetry(1)
      BY <2>1 DEF StartUpdate
    <3>2. 1 \in Nat /\ 1 = Count(options) + 1 /\ 1 <= RETRY_LIMIT
      BY <1>0, <1>4, <2>1
    <3> QED BY <1>4, <1>5, <2>1, <3>1, <3>2, MarkStep, Zenon
  <2>2. CASE retry_count # 0
    BY <2>2 DEF StartUpdate
  <2> QED BY <2>1, <2>2
<1>7. ArgsInv'
  <2>1. ~lapse' => ~lapse
    BY <1>6
  <2>2. Reads(options)'
    BY <1>1, <1>3, <1>4, <1>5, <2>1 DEF Reads
  <2> QED BY <1>1, <2>2 DEF ArgsInv
<1>8. DoneInv'
  BY <1>1 DEF DoneInv
<1>9. CASE bcb' = bcb /\ (lapse => lapse') /\ (lapse' \/ retry_count # 0)
  <2>1. FlashInv' /\ OwedInv' /\ ResetInv'
    BY <1>1, <1>9 DEF RInv, FlashInv, OwedInv, ResetInv, Inside, Outside
  <2>2. TriesInv'
    BY <1>0, <1>1, <1>4, <1>9 DEF RInv, TriesInv, TriesBounded, Lost
  <2> QED BY <1>7, <1>8, <2>1, <2>2 DEF RInv
<1>10. CASE /\ retry_count = 0 /\ bcb' \in [command : {"boot-recovery"}, recovery : Retries]
            /\ Count(bcb'.recovery) = 1 /\ (lapse => lapse')
  <2>1. /\ bcb' \in [command : {"", "boot-recovery"}, recovery : Found] /\ bcb'.command = "boot-recovery"
        /\ bcb'.recovery \in Retries /\ bcb'.recovery # Plain("wipe_data")
    BY <1>10, OptionsDiffer DEF Found, Jobs
  <2>2. FlashInv'
    BY <1>1, <1>10, <2>1 DEF RInv, FlashInv, Inside
  <2>3. OwedInv'
    BY <1>1, <1>2, <1>10, <2>1 DEF OwedInv, Asks
  <2>4. ResetInv'
    BY <1>1, <2>1 DEF RInv, ResetInv
  <2>5. TriesInv'
    <3>1. owed = "update_package" /\ ~lapse => Count(bcb.recovery) = 0 /\ tries <= Lost
      BY <1>0, <1>1, <1>10 DEF RInv, TriesInv
    <3>2. Lost' = Lost /\ TriesBounded'
      BY <1>1, <1>10 DEF RInv, TriesInv, TriesBounded, Lost
    <3>3. Count(bcb.recovery)' = 1 /\ retry_count' = 0 /\ (lapse => lapse')
      BY <1>1, <1>10
    <3> QED BY <1>0, <1>1, <3>1, <3>2, <3>3 DEF TriesInv
  <2> QED BY <1>7, <1>8, <2>2, <2>3, <2>4, <2>5 DEF RInv
<1> QED BY <1>6, <1>9, <1>10

LEMMA InstallPackageStep ==
  ASSUME RInv, InstallPackage
  PROVE  RInv'
<1>0. /\ Count(bcb.recovery) \in Nat /\ Lost \in Nat /\ RETRY_LIMIT \in Nat /\ tries \in Nat
      /\ Count(bcb.recovery) <= RETRY_LIMIT
  BY CountNat DEF RInv, FlashInv
<1>1. pc = "install" /\ UNCHANGED <<bcb, command_file, args, retry_count, owed, reset, lapse, power>>
  BY DEF InstallPackage, flash, bounds
<1>2. (owed # "none" /\ ~lapse => owed = "update_package") /\ retry_count \in Nat
  BY <1>1, MainFacts DEF Inside
<1>3. ASSUME pc' = "finish", status' = "success" => done' \/ owed # "update_package",
             (done' => done) \/ owed = "update_package", tries' = tries \/ CountTry
      PROVE  RInv'
  <2>1. DoneInv'
    BY <1>1, <1>2, <1>3 DEF DoneInv
  <2>2. owed = "wipe_data" /\ done' => command_file' # Plain("wipe_data")
    BY <1>1, <1>3 DEF RInv, ResetInv
  <2> QED BY <1>1, <1>2, <1>3, <2>1, <2>2, FinishStep DEF Inside
<1>4. CASE /\ pc' = "wipe_cache" /\ (done' \/ owed # "update_package") /\ tries' = tries
           /\ (done' => done) \/ owed = "update_package"
  <2>1. FlashInv' /\ ArgsInv'
    BY <1>1, <1>4 DEF RInv, FlashInv, ArgsInv, Reads, Inside, Outside
  <2>2. OwedInv' /\ DoneInv'
    BY <1>1, <1>2, <1>4 DEF RInv, OwedInv, DoneInv, Inside, Outside
  <2>3. ResetInv'
    BY <1>1, <1>2, <1>4 DEF RInv, ResetInv
  <2>4. TriesInv'
    BY <1>0, <1>1, <1>2, <1>4 DEF RInv, TriesInv, TriesBounded, Lost
  <2> QED BY <2>1, <2>2, <2>3, <2>4 DEF RInv
<1>5. CASE pc' = "retry" /\ retry_count < RETRY_LIMIT /\ CountTry /\ done' = done
  <2>1. tries' \in Nat
    BY <1>0, <1>5 DEF CountTry
  <2>2. FlashInv' /\ ArgsInv'
    BY <1>1, <1>5, <2>1 DEF RInv, FlashInv, ArgsInv, Reads, Inside, Outside
  <2>3. OwedInv' /\ DoneInv'
    BY <1>1, <1>2, <1>5 DEF RInv, OwedInv, DoneInv, Inside, Outside
  <2>4. ResetInv'
    BY <1>1, <1>2, <1>5 DEF RInv, ResetInv
  <2>5. TriesInv'
    <3>1. Lost' = Lost /\ Count(bcb.recovery)' = Count(bcb.recovery) /\ retry_count' = retry_count
      BY <1>1 DEF Lost
    <3>0. CASE lapse
      BY <1>1, <3>0 DEF TriesInv, TriesBounded
    <3>2. CASE owed = "update_package" /\ ~lapse
      <4>1. retry_count <= Count(bcb.recovery) /\ tries <= retry_count + Lost
        BY <1>0, <1>1, <1>2, <3>2 DEF RInv, TriesInv
      <4>2. tries' <= tries + 1
        BY <1>0, <1>5 DEF CountTry
      <4>3. tries' <= retry_count + Lost + 1 /\ tries' <= Count(bcb.recovery) + Lost + 1
            /\ tries' <= RETRY_LIMIT + 1 + Lost
        BY <1>0, <1>2, <2>1, <4>1, <4>2
      <4>4. TriesBounded'
        BY <3>1, <4>3 DEF TriesBounded, Lost
      <4> QED BY <1>1, <1>5, <3>1, <4>1, <4>3, <4>4 DEF TriesInv
    <3>3. CASE owed # "update_package"
      BY <1>1, <1>5, <3>3 DEF RInv, TriesInv, TriesBounded, CountTry
    <3> QED BY <3>0, <3>2, <3>3
  <2> QED BY <2>2, <2>3, <2>4, <2>5 DEF RInv
<1>6. \/ /\ pc' = "finish" /\ (status' = "success" => done' \/ owed # "update_package")
         /\ (done' => done) \/ owed = "update_package"
         /\ tries' = tries \/ CountTry
      \/ /\ pc' = "wipe_cache" /\ (done' \/ owed # "update_package") /\ tries' = tries
         /\ (done' => done) \/ owed = "update_package"
      \/ pc' = "retry" /\ retry_count < RETRY_LIMIT /\ CountTry /\ done' = done
  BY Zenon DEF InstallPackage, Finish
<1> QED BY <1>3, <1>4, <1>5, <1>6

LEMMA RetryStep ==
  ASSUME RInv, Retry
  PROVE  RInv'
<1>0. /\ Count(bcb.recovery) \in Nat /\ Lost \in Nat /\ RETRY_LIMIT \in Nat /\ tries \in Nat
  BY CountNat DEF RInv, FlashInv
<1>1. /\ pc = "retry" /\ pc' = "reboot_recovery" /\ SetRetry(retry_count + 1)
      /\ UNCHANGED <<command_file, args, owed, done, tries, reset, power>>
  BY DEF Retry, history, past, bounds
<1>2. (owed # "none" /\ ~lapse => owed = "update_package") /\ retry_count \in Nat
  BY <1>1, MainFacts DEF Inside
<1>3. PICK options \in Found : Reads(options)
  BY <1>1 DEF RInv, ArgsInv, Inside
<1>4. args = ArgsOf(options) /\ retry_count = Count(options) /\ Asks(options, "update_package")
  BY <1>1, <1>3 DEF Reads
<1>5. retry_count + 1 \in Nat /\ retry_count + 1 <= RETRY_LIMIT
  BY <1>0, <1>1, <1>2 DEF RInv, ArgsInv
<1>6. \/ bcb' = bcb /\ lapse'
      \/ /\ bcb' \in [command : {"boot-recovery"}, recovery : Retries]
         /\ Count(bcb'.recovery) = retry_count + 1 /\ (lapse => lapse')
  BY <1>1, <1>4, <1>5, MarkStep
<1>7. lapse => lapse'
  BY <1>6
<1>8. ArgsInv'
  BY <1>1, <1>7 DEF RInv, ArgsInv, Reads, Inside
<1>9. DoneInv'
  BY <1>1 DEF DoneInv
<1>10. CASE bcb' = bcb /\ lapse'
  <2>1. FlashInv' /\ ResetInv'
    BY <1>1, <1>7, <1>10 DEF RInv, FlashInv, ResetInv, Inside
  <2>2. OwedInv' /\ TriesInv'
    BY <1>10 DEF OwedInv, TriesInv, TriesBounded
  <2> QED BY <1>8, <1>9, <2>1, <2>2 DEF RInv
<1>11. CASE /\ bcb' \in [command : {"boot-recovery"}, recovery : Retries]
            /\ Count(bcb'.recovery) = retry_count + 1 /\ (lapse => lapse')
  <2>1. /\ bcb' \in [command : {"", "boot-recovery"}, recovery : Found] /\ bcb'.command = "boot-recovery"
        /\ bcb'.recovery \in Retries /\ bcb'.recovery # Plain("wipe_data")
    BY <1>11, OptionsDiffer DEF Found, Jobs
  <2>2. FlashInv'
    BY <1>1, <1>7, <2>1 DEF RInv, FlashInv, Inside
  <2>3. OwedInv'
    BY <1>1, <1>2, <1>11, <2>1 DEF OwedInv, Asks
  <2>4. ResetInv'
    BY <1>1, <2>1 DEF RInv, ResetInv
  <2>5. TriesInv'
    <3>1. owed = "update_package" /\ ~lapse => tries <= retry_count + 1 + Lost
      BY <1>0, <1>1, <1>2 DEF RInv, TriesInv
    <3>2. Lost' = Lost /\ Count(bcb.recovery)' = retry_count + 1 /\ TriesBounded'
      BY <1>1, <1>11 DEF RInv, TriesInv, TriesBounded, Lost
    <3> QED BY <1>0, <1>1, <1>2, <1>11, <3>1, <3>2 DEF TriesInv
  <2> QED BY <1>8, <1>9, <2>2, <2>3, <2>4, <2>5 DEF RInv
<1> QED BY <1>6, <1>10, <1>11

\* The other steps of main() and of the menu.
LEMMA WorkStep ==
  ASSUME RInv,
         SkipUpdate \/ RebootRecovery \/ WipeCache \/ EraseData \/ EraseCacheAfterData
         \/ OtherWork \/ ApplyOther \/ LeaveMenu
  PROVE  RInv'
<1>0. "wipe_data" \in Jobs /\ <<>> # Plain("wipe_data") /\ owed \in Jobs \union {"none"}
  BY OptionsDiffer DEF Jobs, RInv, FlashInv
<1>1. owed # "none" /\ ~lapse => pc \notin {"menu", "sdcard", "unlink"}
  BY DEF RInv, OwedInv, Inside
<1>2. ASSUME pc \in Inside PROVE owed # "none" /\ ~lapse => Job = owed
  BY <1>2, MainFacts
<1>3. CASE SkipUpdate
  <2>1. /\ pc = "main" /\ pc' = "finish" /\ status' = "skipped" /\ pc \in Inside
        /\ UNCHANGED <<bcb, command_file, args, owed, done, tries, reset, lapse, power>>
    BY <1>3 DEF SkipUpdate, Finish, flash, history, past, bounds, Inside
  <2>2. DoneInv'
    BY <2>1 DEF DoneInv
  <2> QED BY <1>1, <2>1, <2>2, FinishStep DEF RInv, ResetInv
<1>4. CASE RebootRecovery
  <2>1. /\ pc = "reboot_recovery" /\ pc \in Inside
        /\ pc' = "off" \/ (pc' = "finish" /\ status' = "retry")
        /\ UNCHANGED <<bcb, command_file, args, owed, done, tries, reset, lapse, power, retry_count>>
    BY <1>4 DEF RebootRecovery, Finish, flash, history, past, bounds, Inside
  <2>2. CASE pc' = "finish" /\ status' = "retry"
    <3>1. DoneInv'
      BY <2>1, <2>2 DEF DoneInv
    <3> QED BY <1>1, <2>1, <2>2, <3>1, FinishStep DEF RInv, ResetInv
  <2>3. CASE pc' = "off"
    <3>1. FlashInv' /\ ArgsInv' /\ DoneInv'
      BY <2>1, <2>3 DEF RInv, FlashInv, ArgsInv, DoneInv, Inside, Outside
    <3>2. OwedInv' /\ ResetInv'
      BY <2>1, <2>3 DEF RInv, OwedInv, ResetInv, Inside, Outside
    <3>3. TriesInv'
      BY <2>1, <2>3 DEF RInv, TriesInv, TriesBounded, Lost
    <3> QED BY <3>1, <3>2, <3>3 DEF RInv
  <2> QED BY <2>1, <2>2, <2>3
<1>5. CASE WipeCache
  <2>1. /\ pc \in {"main", "wipe_cache", "menu"} /\ pc \in Inside /\ pc' = "finish"
        /\ pc = "main" => Job = "wipe_cache"
        /\ UNCHANGED <<bcb, args, owed, tries, reset, lapse, power>>
    BY <1>5 DEF WipeCache, Finish, bounds, Inside
  <2>2. PICK erased \in FormatWorks :
           /\ EraseCache(erased)
           /\ status' = IF erased \/ pc = "wipe_cache" THEN "success" ELSE "error"
           /\ done' = (done \/ (owed = "wipe_cache" /\ erased))
    BY <1>5 DEF WipeCache, Finish
  <2>3. command_file' \in {command_file, <<>>}
    BY <2>2 DEF EraseCache
  <2>4. DoneInv'
    BY <1>1, <1>2, <2>1, <2>2, Zenon DEF RInv, DoneInv
  <2>5. owed = "wipe_data" /\ done' => command_file' # Plain("wipe_data")
    BY <1>0, <2>2, <2>3, Zenon DEF RInv, ResetInv
  <2> QED BY <1>1, <2>1, <2>3, <2>4, <2>5, FinishStep
<1>6. CASE EraseData
  <2>1. /\ pc \in {"main", "menu"} /\ pc \in Inside
        /\ pc = "main" => Job \in {"wipe_data", "prompt_and_wipe_data"}
        /\ pc' = "erase_cache" \/ (pc' = "finish" /\ status' = "error")
        /\ UNCHANGED <<bcb, command_file, args, owed, done, tries, reset, lapse, power, retry_count>>
    BY <1>6 DEF EraseData, Finish, flash, history, past, bounds, Inside
  <2>2. CASE pc' = "finish" /\ status' = "error"
    <3>1. DoneInv'
      BY <2>1, <2>2 DEF DoneInv
    <3> QED BY <1>1, <2>1, <2>2, <3>1, FinishStep DEF RInv, ResetInv
  <2>3. CASE pc' = "erase_cache"
    <3>1. FlashInv' /\ ArgsInv' /\ OwedInv'
      BY <1>1, <2>1, <2>3 DEF RInv, FlashInv, ArgsInv, Reads, OwedInv, Inside, Outside
    <3>2. DoneInv' /\ ResetInv'
      BY <1>1, <1>2, <2>1, <2>3 DEF RInv, DoneInv, ResetInv
    <3>3. TriesInv'
      BY <2>1, <2>3 DEF RInv, TriesInv, TriesBounded, Lost
    <3> QED BY <3>1, <3>2, <3>3 DEF RInv
  <2> QED BY <2>1, <2>2, <2>3
<1>7. CASE EraseCacheAfterData
  <2>1. /\ pc = "erase_cache" /\ pc \in Inside /\ pc' = "finish"
        /\ done' = (done \/ (owed \in {"wipe_data", "prompt_and_wipe_data"} /\ status' = "success"))
        /\ UNCHANGED <<bcb, args, owed, tries, reset, lapse, power>>
    BY <1>7 DEF EraseCacheAfterData, Finish, bounds, Inside
  <2>2. PICK erased \in FormatWorks :
           EraseCache(erased) /\ status' = IF erased THEN status ELSE "error"
    BY <1>7 DEF EraseCacheAfterData, Finish
  <2>3. command_file' \in {command_file, <<>>} /\ (status' = "success" => command_file' = <<>>)
    BY <2>2 DEF EraseCache
  <2>4. DoneInv'
    BY <2>1, Zenon DEF RInv, DoneInv
  <2>5. owed = "wipe_data" /\ done' => command_file' # Plain("wipe_data")
    BY <1>0, <2>1, <2>3, Zenon DEF RInv, ResetInv
  <2> QED BY <1>1, <2>1, <2>3, <2>4, <2>5, FinishStep
<1>8. CASE OtherWork
  <2>1. /\ pc = "main" /\ pc \in Inside /\ pc' = "finish"
        /\ UNCHANGED <<bcb, command_file, args, owed, tries, reset, lapse, power>>
    BY <1>8 DEF OtherWork, Finish, flash, bounds, Inside
  <2>2. Job # "wipe_data" /\ done' = (done \/ (owed = Job /\ status' = "success"))
    BY <1>8 DEF OtherWork, Finish
  <2>3. DoneInv'
    BY <1>2, <2>1, <2>2, Zenon DEF DoneInv
  <2>4. owed = "wipe_data" /\ done' => command_file' # Plain("wipe_data")
    BY <2>1, <2>2 DEF RInv, ResetInv
  <2> QED BY <1>1, <2>1, <2>3, <2>4, FinishStep
<1>9. CASE ApplyOther
  <2>1. /\ pc \in {"main", "menu", "sdcard"} /\ pc \in Inside /\ pc' = "finish"
        /\ pc = "main" => Job = "sideload"
        /\ UNCHANGED <<bcb, args, owed, tries, reset, lapse, power>>
    BY <1>9 DEF ApplyOther, Finish, bounds, Inside
  <2>2. /\ command_file' \in {command_file, <<>>}
        /\ (status' = "error" /\ done' = done) \/ done' = (done \/ owed = "sideload")
    BY <1>9 DEF ApplyOther, Finish, EraseCache
  <2>3. DoneInv'
    BY <1>1, <1>2, <2>1, <2>2, Zenon DEF DoneInv
  <2>4. owed = "wipe_data" /\ done' => command_file' # Plain("wipe_data")
    BY <1>0, <2>2, Zenon DEF RInv, ResetInv
  <2> QED BY <1>1, <2>1, <2>2, <2>3, <2>4, FinishStep
<1>10. CASE LeaveMenu
  <2>1. /\ pc = "menu" /\ pc \in Inside /\ pc' = "finish" /\ (owed = "none" \/ lapse)
        /\ UNCHANGED <<bcb, command_file, args, owed, done, tries, reset, lapse, power>>
    BY <1>1, <1>10 DEF LeaveMenu, flash, history, past, bounds, Inside
  <2>2. DoneInv'
    BY <2>1 DEF DoneInv
  <2>3. owed = "wipe_data" /\ done' => command_file' # Plain("wipe_data")
    BY <2>1 DEF RInv, ResetInv
  <2> QED BY <1>1, <2>1, <2>2, <2>3, FinishStep
<1> QED BY <1>3, <1>4, <1>5, <1>6, <1>7, <1>8, <1>9, <1>10

\* apply_from_sdcard and finish_recovery() write flash themselves.
LEMMA ClearStep ==
  ASSUME RInv, ApplyFromSdcard \/ ClearMessage \/ UnlinkCommandFile
  PROVE  RInv'
<1>0. /\ <<>> # Plain("wipe_data") /\ <<>> \in Found
      /\ Message(<<>>) = [command |-> "boot-recovery", recovery |-> <<>>]
  <2>1. <<>> \in Found
    BY DEF Found
  <2> QED BY <2>1, MessageFits, OptionsDiffer DEF Jobs
<1>1. CASE ApplyFromSdcard
  <2>1. /\ pc = "menu" /\ pc' = "sdcard" /\ bcb' \in {bcb, [command |-> "boot-recovery", recovery |-> <<>>]}
        /\ UNCHANGED <<command_file, args, owed, done, tries, reset, lapse, power>>
        /\ owed = "none" \/ lapse
    BY <1>0, <1>1 DEF ApplyFromSdcard, Write, local, history, past, bounds, RInv, OwedInv, Inside
  <2> DEFINE Fine(message) == /\ message \in [command : {"", "boot-recovery"}, recovery : Found]
                              /\ message.command = "" => message.recovery = <<>>
  <2>5. Fine(bcb)
    BY DEF RInv, FlashInv
  <2>6. Fine([command |-> "boot-recovery", recovery |-> <<>>])
    BY <1>0
  <2>7. Fine(bcb')
    BY <2>1, <2>5, <2>6, Zenon
  <2>8. bcb'.recovery \in {bcb.recovery, <<>>}
    BY <2>1
  <2>2. FlashInv' /\ ArgsInv'
    BY <1>0, <2>1, <2>7 DEF RInv, FlashInv, ArgsInv, Reads, Inside
  <2>3. OwedInv' /\ DoneInv' /\ ResetInv'
    BY <1>0, <2>1, <2>8 DEF RInv, OwedInv, DoneInv, ResetInv
  <2>4. TriesInv'
    BY <2>1 DEF RInv, TriesInv, TriesBounded
  <2> QED BY <2>2, <2>3, <2>4 DEF RInv
<1>4. CASE ClearMessage /\ bcb' = bcb /\ lapse' = TRUE /\ UNCHANGED <<owed, reset>>
  <2>1. pc = "finish" /\ pc' = "unlink" /\ UNCHANGED <<command_file, args, done, tries, power>>
    BY <1>4 DEF ClearMessage, local, bounds
  <2>2. FlashInv' /\ ArgsInv'
    BY <1>4, <2>1 DEF RInv, FlashInv, ArgsInv, Reads, Inside
  <2>3. OwedInv' /\ DoneInv' /\ TriesInv'
    BY <1>4 DEF OwedInv, DoneInv, TriesInv, TriesBounded
  <2>4. ResetInv'
    BY <1>4, <2>1 DEF RInv, ResetInv
  <2> QED BY <2>2, <2>3, <2>4 DEF RInv
<1>2. CASE ClearMessage /\ bcb' = NoMessage /\ owed' = "none"
           /\ reset' = (IF owed = "wipe_data" THEN done ELSE reset) /\ lapse' = lapse
  <2>1. /\ pc = "finish" /\ pc' = "unlink" /\ bcb' = NoMessage /\ owed' = "none"
        /\ reset' = (IF owed = "wipe_data" THEN done ELSE reset)
        /\ UNCHANGED <<command_file, args, done, tries, lapse, power>>
    BY <1>2 DEF ClearMessage, local, bounds
  <2>2. FlashInv' /\ ArgsInv'
    BY <1>0, <2>1 DEF RInv, FlashInv, ArgsInv, Reads, NoMessage, Inside
  <2>3. OwedInv' /\ DoneInv'
    BY <2>1 DEF OwedInv, DoneInv
  <2>4. ResetInv'
    BY <1>0, <2>1 DEF RInv, ResetInv, NoMessage
  <2>5. TriesInv'
    BY <2>1 DEF RInv, TriesInv, TriesBounded
  <2> QED BY <2>2, <2>3, <2>4, <2>5 DEF RInv
<1>3. CASE UnlinkCommandFile
  <2>1. /\ pc = "unlink" /\ pc' \in {"menu", "off"} /\ command_file' \in {command_file, <<>>}
        /\ UNCHANGED <<bcb, args, owed, done, tries, reset, lapse, power>>
        /\ owed = "none" \/ lapse
    BY <1>3 DEF UnlinkCommandFile, local, history, past, bounds, RInv, OwedInv, Inside
  <2>2. FlashInv' /\ ArgsInv'
    BY <2>1 DEF RInv, FlashInv, ArgsInv, Reads, Inside, Outside
  <2>3. OwedInv' /\ DoneInv' /\ ResetInv'
    BY <1>0, <2>1 DEF RInv, OwedInv, DoneInv, ResetInv
  <2>4. TriesInv'
    BY <2>1 DEF RInv, TriesInv, TriesBounded
  <2> QED BY <2>2, <2>3, <2>4 DEF RInv
<1> QED BY <1>1, <1>2, <1>3, <1>4 DEF ClearMessage

LEMMA RecoveryInit == Init => RInv
<1> SUFFICES ASSUME Init PROVE RInv
  OBVIOUS
<1>1. /\ bcb = NoMessage /\ command_file = <<>> /\ pc = "system" /\ owed = "none" /\ ~reset
      /\ tries = 0 /\ power = MaxPower /\ MaxPower \in Nat /\ RETRY_LIMIT \in Nat /\ lapse = FALSE
  BY RecoveryBootAssumption DEF Init, RecoveryBootAssumption
<1>2. FlashInv
  <2>1. bcb \in [command : {"", "boot-recovery"}, recovery : Found] /\ bcb.recovery = <<>>
    BY <1>1 DEF NoMessage, Found
  <2>2. power \in 0..MaxPower /\ tries \in Nat
    BY <1>1
  <2>3. pc \in Inside \union Outside /\ owed \in Jobs \union {"none"} /\ command_file \in {<<>>} \union Requests
    BY <1>1 DEF Outside
  <2> QED BY <1>1, <2>1, <2>2, <2>3 DEF FlashInv
<1>3. ArgsInv /\ OwedInv /\ DoneInv /\ ResetInv
  BY <1>1 DEF ArgsInv, OwedInv, DoneInv, ResetInv, Inside
<1>4. TriesInv
  BY <1>1 DEF TriesInv, TriesBounded
<1> QED BY <1>2, <1>3, <1>4 DEF RInv

LEMMA RecoveryNext == RInv /\ Next => RInv'
<1> SUFFICES ASSUME RInv, Next PROVE RInv'
  OBVIOUS
<1>1. ASSUME NEW job \in Jobs, Request(job) PROVE RInv'
  BY <1>1, RequestStep
<1>2. CASE SystemReboots \/ PowerFails \/ Boot
  BY <1>2, BootStep
<1>3. CASE RecoveryStep
  BY <1>3, GetArgsStep, StartUpdateStep, InstallPackageStep, RetryStep, WorkStep, ClearStep
     DEF RecoveryStep
<1> QED BY <1>1, <1>2, <1>3 DEF Next

LEMMA RecoveryStutter == RInv /\ vars' = vars => RInv'
<1> SUFFICES ASSUME RInv, vars' = vars PROVE RInv'
  OBVIOUS
<1>1. UNCHANGED <<bcb, command_file, pc, args, retry_count, status, owed, done, tries, reset, lapse, power>>
  BY DEF vars, flash, local, history, past, bounds
<1>2. FlashInv' /\ ArgsInv'
  BY <1>1 DEF RInv, FlashInv, ArgsInv, Reads
<1>3. OwedInv' /\ DoneInv'
  BY <1>1 DEF RInv, OwedInv, DoneInv
<1>4. Job' = Job
  BY <1>1 DEF Job, Has
<1>5. ResetInv' /\ TriesInv'
  BY <1>1, <1>4 DEF RInv, ResetInv, TriesInv, TriesBounded, Lost
<1> QED BY <1>2, <1>3, <1>5 DEF RInv

-----------------------------------------------------------------------------
(* Both programs *)

\* pterodon.cpp runs without a request of its own, and nothing in the control block
\* leads back to it once RebootDevice has cleared it; lapse says that the last write
\* of the control block failed.
PterodonInv ==
    /\ owed = "none" /\ tries = 0 /\ power \in 0..MaxPower
    /\ pc \in Pterodons \union Outside
    /\ ~lapse =>
          /\ pc = "gui" => bcb.command = "boot-recovery"
          /\ pc \in {"reboot_remove", "reboot"} => bcb.command = ""
          /\ pc = "off" /\ asked = "system" => bcb.command = ""

PInv ==
    /\ program \in {"recovery", "pterodon"}
    /\ program = "recovery" => RInv
    /\ program = "pterodon" => PterodonInv

LEMMA PterodonNext ==
  ASSUME PterodonInv,
         (\E job \in Jobs : LeaveCommand(job)) \/ BootsAgain \/ Down \/ Pterodon
  PROVE  PterodonInv'
<1>0. MaxPower \in Nat /\ power \in 0..MaxPower
  BY RecoveryBootAssumption DEF PterodonInv, RecoveryBootAssumption
<1>1. CASE \E job \in Jobs : LeaveCommand(job)
  BY <1>1 DEF PterodonInv, LeaveCommand, history, past, Outside
<1>2. CASE BootsAgain
  BY <1>2 DEF PterodonInv, BootsAgain, Boot, flash, history, past, bounds, Outside
<1>3. CASE Down
  <2>1. /\ pc' = "off" /\ asked' = "" /\ UNCHANGED <<owed, tries>>
        /\ power' = power \/ (power > 0 /\ power' = power - 1)
    BY <1>3 DEF Down, SystemReboots, PowerFails, history, past, bounds
  <2>2. power' \in 0..MaxPower
    <3>1. CASE power' = power
      BY <1>0, <3>1
    <3>2. CASE power > 0 /\ power' = power - 1
      BY <1>0, <3>2
    <3> QED BY <2>1, <3>1, <3>2
  <2> QED BY <2>1, <2>2 DEF PterodonInv, Outside
<1>4. CASE Pterodon
  <2>1. UNCHANGED <<owed, tries, power>>
    BY <1>4 DEF Pterodon, Start, RemoveCommandFile, ClearBootloaderMessage, ParseArguments, Restart,
                RebootDevice, Reboots, Stays, history, past, bounds
  <2>2. CASE Start
    BY <2>1, <2>2 DEF PterodonInv, Start, flash, Outside, Pterodons
  <2>3. CASE RemoveCommandFile
    BY <2>1, <2>3 DEF PterodonInv, RemoveCommandFile, Outside, Pterodons
  <2>4. CASE ClearBootloaderMessage
    <3>1. ~lapse' => bcb' = NoMessage
      BY <2>4, Zenon DEF ClearBootloaderMessage
    <3>2. pc' \in {"parse", "reboot_remove"} /\ UNCHANGED asked
      BY <2>4 DEF ClearBootloaderMessage
    <3>3. NoMessage.command = ""
      BY DEF NoMessage
    <3> QED BY <2>1, <3>1, <3>2, <3>3 DEF PterodonInv, Pterodons
  <2>5. CASE ParseArguments
    <3>1. ~lapse' => \E options \in FoundOptions : bcb' = Message(options)
      BY <2>5, Zenon DEF ParseArguments
    <3>2. \A options : Message(options).command = "boot-recovery"
      BY DEF Message
    <3>3. pc' = "gui" /\ (~lapse' => bcb'.command = "boot-recovery")
      BY <2>5, <3>1, <3>2, Zenon DEF ParseArguments
    <3> QED BY <2>1, <3>3 DEF PterodonInv, Pterodons
  <2>6. CASE Restart
    BY <2>1, <2>6 DEF PterodonInv, Restart, flash, Outside, Pterodons
  <2>7. CASE RebootDevice
    BY <2>1, <2>7 DEF PterodonInv, RebootDevice, flash, Outside, Pterodons
  <2>8. CASE Reboots
    BY <2>1, <2>8 DEF PterodonInv, Reboots, flash, history, Outside, Pterodons
  <2> QED BY <1>4, <2>2, <2>3, <2>4, <2>5, <2>6, <2>7, <2>8 DEF Pterodon
<1> QED BY <1>1, <1>2, <1>3, <1>4

\* What get_args finds, what is owed and how often it was tried, and where pterodon.cpp
\* is, fit together in every reachable state.
THEOREM RequestsInvariant == PSpec => []PInv
<1>1. PInit => PInv
  <2> SUFFICES ASSUME PInit PROVE PInv
    OBVIOUS
  <2>1. RInv
    BY RecoveryInit DEF PInit
  <2>2. PterodonInv
    <3>1. power = MaxPower /\ MaxPower \in Nat
      BY RecoveryBootAssumption DEF PInit, Init, RecoveryBootAssumption
    <3>2. power \in 0..MaxPower
      BY <3>1
    <3> QED BY <3>2 DEF PInit, Init, PterodonInv, Outside
  <2> QED BY <2>1, <2>2 DEF PInit, PInv
<1>2. PInv /\ [PNext]_pvars => PInv'
  <2> SUFFICES ASSUME PInv, [PNext]_pvars PROVE PInv'
    OBVIOUS
  <2>1. CASE PNext
    <3>1. program' = program
      BY <2>1 DEF PNext
    <3>2. CASE program = "recovery"
      <4>1. RInv /\ Next
        BY <2>1, <3>2 DEF PInv, PNext
      <4> QED BY <3>1, <3>2, <4>1, RecoveryNext DEF PInv
    <3>3. CASE program = "pterodon"
      <4>1. PterodonInv /\ ((\E job \in Jobs : LeaveCommand(job)) \/ BootsAgain \/ Down \/ Pterodon)
        BY <2>1, <3>3 DEF PInv, PNext
      <4>2. PterodonInv'
        BY <4>1, PterodonNext
      <4> QED BY <3>1, <3>3, <4>2 DEF PInv
    <3> QED BY <3>2, <3>3 DEF PInv
  <2>2. CASE pvars' = pvars
    <3>1. vars' = vars /\ program' = program /\ asked' = asked
      BY <2>2 DEF pvars
    <3>2. RInv => RInv'
      BY <3>1, RecoveryStutter
    <3>3. PterodonInv => PterodonInv'
      <4>1. UNCHANGED <<bcb, pc, owed, tries, lapse, power>>
        BY <3>1 DEF vars, flash, history, past, bounds
      <4> QED BY <3>1, <4>1 DEF PterodonInv
    <3> QED BY <3>1, <3>2, <3>3 DEF PInv
  <2> QED BY <2>1, <2>2
<1> QED BY <1>1, <1>2, PTL DEF PSpec

\* Options that ask for a job have its option among them.
LEMMA AsksHas ==
  ASSUME NEW job \in Jobs, NEW options, Asks(options, job)
  PROVE  Has(options, job)
<1>1. CASE options = Plain(job)
  <2>1. options \in Seq(Options) /\ Len(options) = 1 /\ options[1] = Option(job)
    BY <1>1, PlainFacts
  <2>2. 1 \in DOMAIN options /\ options[1].opt = job
    BY <2>1 DEF Option
  <2> QED BY <2>2 DEF Has
<1>2. CASE job = "update_package" /\ options \in Retries
  <2>1. PICK n \in 1..RETRY_LIMIT : options = Marked(n)
    BY <1>2 DEF Retries
  <2>2. n \in Nat
    BY RecoveryBootAssumption DEF RecoveryBootAssumption
  <2>3. DOMAIN options = 1..(n + 2) /\ options[n + 1] = Option("update_package")
    BY <2>1, <2>2, MarkedFacts, Zenon
  <2>4. n + 1 \in DOMAIN options /\ options[n + 1].opt = job
    BY <1>2, <2>2, <2>3 DEF Option
  <2> QED BY <2>4 DEF Has
<1> QED BY <1>1, <1>2 DEF Asks

\* Wherever the power fails, a request that is not settled is what get_args will find,
\* and once recovery has started on it every boot leads back to recovery, as long as
\* the control block and the command file can be read and written.
THEOREM RequestSurvives == PSpec => []JobSurvives
<1>1. PInv => JobSurvives
  <2> SUFFICES ASSUME PInv, owed # "none", ~lapse
               PROVE  /\ \/ Has(bcb.recovery, owed)
                         \/ bcb.recovery = <<>> /\ Has(command_file, owed)
                      /\ pc \notin {"off", "system", "get_args"} => bcb.command = "boot-recovery"
    BY DEF JobSurvives
  <2>1. RInv
    BY DEF PInv, PterodonInv
  <2>2. owed \in Jobs /\ pc \in Inside \union Outside
    BY <2>1 DEF RInv, FlashInv
  <2>3. \/ Asks(bcb.recovery, owed)
        \/ bcb.recovery = <<>> /\ Asks(command_file, owed)
    BY <2>1 DEF RInv, OwedInv
  <2>4. pc \in Inside => bcb.command = "boot-recovery"
    BY <2>1 DEF RInv, OwedInv
  <2>5. \/ Has(bcb.recovery, owed)
        \/ bcb.recovery = <<>> /\ Has(command_file, owed)
    BY <2>2, <2>3, AsksHas
  <2> QED BY <2>2, <2>4, <2>5 DEF Outside
<1> QED BY <1>1, RequestsInvariant, PTL

\* A package that ends in INSTALL_RETRY is installed RETRY_LIMIT + 1 times, and once
\* more for each loss of power, at most, whatever RETRY_LIMIT is, as long as the
\* count in the control block is not lost.
THEOREM TriesAreBounded == PSpec => []TriesBounded
<1>1. PInv => TriesBounded
  <2> SUFFICES ASSUME PInv PROVE TriesBounded
    OBVIOUS
  <2>1. CASE program = "recovery"
    BY <2>1 DEF PInv, RInv, TriesInv
  <2>2. CASE program = "pterodon"
    <3>1. tries = 0 /\ power \in 0..MaxPower /\ MaxPower \in Nat /\ RETRY_LIMIT \in Nat
      BY <2>2, RecoveryBootAssumption DEF PInv, PterodonInv, RecoveryBootAssumption
    <3> QED BY <3>1 DEF TriesBounded
  <2> QED BY <2>1, <2>2 DEF PInv
<1> QED BY <1>1, RequestsInvariant, PTL

\* While the interface of pterodon.cpp runs every boot leads back to it, and after a
\* reboot into the system that the user asked for none does, unless the write of the
\* control block before it failed.
THEOREM BootsWhereTheUserAsks == PSpec => []BootsWhereAsked
<1>1. PInv => BootsWhereAsked
  BY DEF PInv, PterodonInv, BootsWhereAsked
<1> QED BY <1>1, RequestsInvariant, PTL

\* finish_recovery() settles the request that main() worked on, and what main() takes
\* for a success has been done, unless get_args could not read the request or the
\* control block could not be written.
THEOREM NoRequestDropped == PSpec => NothingDropped
<1> DEFINE A == owed # "none" /\ owed' = "none" /\ ~lapse =>
                   Job = owed /\ (status = "success" => done)
<1>1. PInv /\ [PNext]_pvars => [A]_vars
  <2> SUFFICES ASSUME PInv, [PNext]_pvars, owed # "none", owed' = "none", ~lapse, vars' # vars
               PROVE  Job = owed /\ (status = "success" => done)
    OBVIOUS
  <2>1. RInv /\ program = "recovery"
    BY DEF PInv, PterodonInv
  <2>2. Next
    BY <2>1 DEF PNext, pvars
  <2>3. ClearMessage
    <3>1. \A job \in Jobs : ~Request(job)
      BY DEF Request, Jobs
    <3>2. ~(SystemReboots \/ PowerFails \/ Boot)
      BY DEF SystemReboots, PowerFails, Boot, history, past
    <3>3. ~(GetArgs \/ SkipUpdate \/ StartUpdate \/ Retry \/ RebootRecovery \/ EraseData
            \/ ApplyFromSdcard \/ LeaveMenu \/ UnlinkCommandFile)
      BY DEF GetArgs, SkipUpdate, StartUpdate, Retry, RebootRecovery, EraseData, ApplyFromSdcard,
             LeaveMenu, UnlinkCommandFile, history, past
    <3>4. ~(InstallPackage \/ WipeCache \/ EraseCacheAfterData \/ OtherWork \/ ApplyOther)
      BY DEF InstallPackage, WipeCache, EraseCacheAfterData, OtherWork, ApplyOther
    <3> QED BY <2>2, <3>1, <3>2, <3>3, <3>4 DEF Next, RecoveryStep
  <2>4. pc = "finish"
    BY <2>3 DEF ClearMessage
  <2>5. Job = owed
    BY <2>1, <2>4, MainFacts DEF Inside
  <2>6. status = "success" => done
    BY <2>1, <2>4 DEF RInv, DoneInv
  <2> QED BY <2>5, <2>6
<1> QED BY <1>1, RequestsInvariant, PTL DEF PSpec, NothingDropped

\* A factory reset that is done and settled is never repeated from the arguments,
\* whatever could not be read or written.
THEOREM ResetNotRepeated == PSpec => ResetOnlyWhenOwed
<1> DEFINE A == EraseData /\ pc = "main" /\ Job = "wipe_data" => owed = "wipe_data" \/ ~reset
<1>1. PInv /\ [PNext]_pvars => [A]_vars
  <2> SUFFICES ASSUME PInv, pc = "main", Job = "wipe_data" PROVE owed = "wipe_data" \/ ~reset
    OBVIOUS
  <2>1. RInv
    BY DEF PInv, PterodonInv, Pterodons, Outside
  <2> QED BY <2>1 DEF RInv, ResetInv
<1> QED BY <1>1, RequestsInvariant, PTL DEF PSpec, ResetOnlyWhenOwed

=============================================================================
