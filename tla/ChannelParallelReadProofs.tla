--------------------- MODULE ChannelParallelReadProofs ---------------------
(***************************************************************************)
(* Proofs about the channel-parallel reader, for any request, any number   *)
(* of workers, any plans and any budget: no channel is lost or answered    *)
(* twice, no failure is swallowed, and only a report that says it was      *)
(* cancelled leaves a batch out, although the stop flag is read without    *)
(* ordering.                                                               *)
(***************************************************************************)
EXTENDS ChannelParallelRead, SequenceTheorems, SumTheorems, TLAPS

\* The channels by where they are.
Waiting == Range(queue)
Held == {c \in Channels : \E w \in Workers : wch[w] = c}
Sent == Range(ChannelsOf(chan))
Answered == Range(ChannelsOf(reports))

Reading == {"open", "wave", "poll", "visit", "tell"}
Holding == Reading \cup {"fail", "send", "dead"}

\* What a message says is so, and whether it asks the other workers to stop.
Truthful(m) == m.error = NoError /\ ~m.cancelled => seen[m.channel] = Planned(m.channel)
Ends(m) == m.cancelled \/ m.error # NoError

\* Where the calling thread is, and what that says of its variables.
ControlSound ==
  /\ cpc = "enter" => /\ spawned = 0 /\ chan = <<>> /\ reports = <<>>
                      /\ \A c \in Channels : seen[c] = 0
  /\ outcome # "none" <=> cpc = "done"
  /\ outcome = "invalid_input" => spawned = 0
  /\ cpc # "enter" /\ outcome # "invalid_input" => Acceptable
  /\ cpc \notin {"enter", "spawn"} /\ outcome # "invalid_input" => spawned = EffectiveWorkers
  /\ cpc = "join" \/ outcome \in {"ok", "error"} => chan = <<>> /\ AllGone
  /\ outcome = "ok" =>
       /\ firstError = NoError /\ Ascending(ChannelsOf(reports))
       /\ \A w \in 1 .. EffectiveWorkers : wpc[w] # "dead"

\* The four places share no channel, and none has one twice.
PlacesSound ==
  /\ IsInjective(queue) /\ IsInjective(ChannelsOf(chan)) /\ IsInjective(ChannelsOf(reports))
  /\ \A v, w \in Workers : wch[v] = wch[w] /\ wch[w] # NoChannel => v = w
  /\ Waiting \cap Held = {} /\ Waiting \cap Sent = {} /\ Waiting \cap Answered = {}
  /\ Held \cap Sent = {} /\ Held \cap Answered = {} /\ Sent \cap Answered = {}
  /\ Waiting \cup Held \cup Sent \cup Answered \subseteq Range(request)
  /\ cpc # "enter" /\ outcome # "invalid_input" /\ firstError = NoError =>
       Range(request) \subseteq Waiting \cup Held \cup Sent \cup Answered

\* A worker: a channel is with it while it reads, fails or panics over it; what the
\* visitor saw is what was handed over; and it left for a reason.
WorkerOk(w) ==
  /\ w > spawned => wpc[w] = "idle"
  /\ wch[w] # NoChannel <=> wpc[w] \in Holding
  /\ wpc[w] \in Reading => seen[wch[w]] = pos[w]
  /\ wpc[w] \in {"poll", "visit"} => pos[w] < wave[w]
  /\ wpc[w] \in {"fail", "send"} =>
       wmsg[w] \in Messages /\ wmsg[w].channel = wch[w] /\ Truthful(wmsg[w])
  /\ wpc[w] = "fail" => wmsg[w].error # NoError
  /\ knows[w] => stop
  /\ wpc[w] = "exited" => stop \/ queue = <<>>
WorkersSound == \A w \in Workers : WorkerOk(w)

\* What was sent and answered is so, and nothing of a waiting channel was seen.
MessagesSound ==
  /\ \A i \in DOMAIN chan : Truthful(chan[i])
  /\ \A i \in DOMAIN reports : Truthful(reports[i]) /\ reports[i].error = NoError
  /\ \A c \in Waiting : seen[c] = 0

\* The flag is set for a reason that the caller has learnt or will learn.
StopSound ==
  stop => \/ \E w \in Workers : wpc[w] = "send" /\ Ends(wmsg[w])
          \/ \E i \in DOMAIN chan : Ends(chan[i])
          \/ Cancelled
          \/ firstError # NoError

PlacesTyped == pos \in [Workers -> Nat] /\ wave \in [Workers -> Nat]

IInv == /\ TypeOK /\ PlacesTyped /\ ControlSound /\ PlacesSound
        /\ WorkersSound /\ MessagesSound /\ StopSound
-----------------------------------------------------------------------------
(* Sequences without repetition, and the numbers of workers.               *)

\* The smaller of two numbers.
LEMMA SmallerOfTwo ==
  ASSUME NEW a \in Nat, NEW b \in Nat
  PROVE  Min({a, b}) \in {a, b} /\ Min({a, b}) <= a /\ Min({a, b}) <= b
<1>1. \E x \in {a, b} : \A y \in {a, b} : x =< y
  <2>1. CASE a <= b
    BY <2>1
  <2>2. CASE b <= a
    BY <2>2
  <2> QED BY <2>1, <2>2
<1> QED BY <1>1 DEF Min

\* At least one worker is started and no more than were asked for.
LEMMA EffectiveBounds ==
  ASSUME TypeOK
  PROVE  /\ EffectiveWorkers \in 1 .. ChannelWorkers /\ spawned \in Nat
         /\ \A w \in Workers : w \in Nat
         /\ ChannelWorkers \in Nat \ {0}
<1>1. ChannelWorkers \in Nat \ {0} /\ request \in Seq(Nat)
  BY ChannelReadAssumption DEF TypeOK
<1>2. EffectiveWorkers \in 1 .. ChannelWorkers
  <2>1. CASE request = <<>>
    BY <1>1, <2>1 DEF EffectiveWorkers
  <2>2. CASE request # <<>>
    <3>1. Len(request) \in Nat \ {0}
      BY <1>1, <2>2, EmptySeq, LenProperties
    <3> QED BY <1>1, <2>2, <3>1, SmallerOfTwo DEF EffectiveWorkers
  <2> QED BY <2>1, <2>2
<1>3. spawned \in Nat
  BY <1>1, <1>2 DEF TypeOK
<1> QED BY <1>1, <1>2, <1>3 DEF Workers

\* Taking the first element, and adding one at the end.
LEMMA TailRange ==
  ASSUME NEW S, NEW s \in Seq(S), s # <<>>, IsInjective(s)
  PROVE  /\ Head(s) \in S /\ Tail(s) \in Seq(S) /\ IsInjective(Tail(s))
         /\ Range(Tail(s)) = Range(s) \ {Head(s)} /\ Head(s) \in Range(s)
<1>1. /\ Len(s) \in Nat /\ Len(s) >= 1 /\ DOMAIN s = 1 .. Len(s)
      /\ Head(s) = s[1] /\ Tail(s) \in Seq(S) /\ Head(s) \in S
      /\ DOMAIN Tail(s) = 1 .. Len(s) - 1 /\ \A i \in 1 .. Len(s) - 1 : Tail(s)[i] = s[i + 1]
  BY HeadTailProperties, LenProperties, EmptySeq
<1>2. IsInjective(Tail(s))
  BY <1>1 DEF IsInjective
<1>3. ASSUME NEW e \in Range(Tail(s)) PROVE e \in Range(s) /\ e # Head(s)
  <2>1. PICK i \in 1 .. Len(s) - 1 : e = s[i + 1]
    BY <1>1, <1>3 DEF Range
  <2>2. i + 1 \in DOMAIN s /\ i + 1 # 1 /\ 1 \in DOMAIN s
    BY <1>1, <2>1
  <2> QED BY <1>1, <2>1, <2>2 DEF Range, IsInjective
<1>4. ASSUME NEW e \in Range(s), e # Head(s) PROVE e \in Range(Tail(s))
  <2>1. PICK i \in 1 .. Len(s) : e = s[i]
    BY <1>1, <1>4 DEF Range
  <2>2. i # 1 /\ i - 1 \in 1 .. Len(s) - 1 /\ (i - 1) + 1 = i
    BY <1>1, <1>4, <2>1
  <2>3. Tail(s)[i - 1] = e
    BY <1>1, <2>1, <2>2
  <2> QED BY <1>1, <2>2, <2>3 DEF Range
<1>5. Head(s) \in Range(s)
  BY <1>1 DEF Range
<1> QED BY <1>1, <1>2, <1>3, <1>4, <1>5

\* Appending a new element keeps a sequence without repetition.
LEMMA AppendRange ==
  ASSUME NEW S, NEW s \in Seq(S), NEW e \in S
  PROVE  /\ Append(s, e) \in Seq(S) /\ Range(Append(s, e)) = Range(s) \cup {e}
         /\ IsInjective(s) /\ e \notin Range(s) => IsInjective(Append(s, e))
<1>1. /\ Len(s) \in Nat /\ DOMAIN s = 1 .. Len(s) /\ DOMAIN Append(s, e) = 1 .. Len(s) + 1
      /\ Append(s, e) \in Seq(S) /\ Append(s, e)[Len(s) + 1] = e
      /\ \A i \in 1 .. Len(s) : Append(s, e)[i] = s[i]
  BY AppendProperties, LenProperties
<1>2. \A i \in 1 .. Len(s) + 1 : i \in 1 .. Len(s) \/ i = Len(s) + 1
  BY <1>1
<1>3. Range(Append(s, e)) = Range(s) \cup {e}
  <2>1. ASSUME NEW x \in Range(Append(s, e)) PROVE x \in Range(s) \cup {e}
    BY <1>1, <1>2, <2>1 DEF Range
  <2>2. ASSUME NEW x \in Range(s) PROVE x \in Range(Append(s, e))
    <3>1. PICK i \in 1 .. Len(s) : x = s[i]
      BY <1>1, <2>2 DEF Range
    <3>2. i \in 1 .. Len(s) + 1
      BY <1>1
    <3> QED BY <1>1, <3>1, <3>2 DEF Range
  <2>3. e \in Range(Append(s, e))
    <3>1. Len(s) + 1 \in DOMAIN Append(s, e)
      BY <1>1
    <3> QED BY <1>1, <3>1 DEF Range
  <2> QED BY <2>1, <2>2, <2>3
<1>4. ASSUME IsInjective(s), e \notin Range(s) PROVE IsInjective(Append(s, e))
  <2> SUFFICES ASSUME NEW a \in 1 .. Len(s) + 1, NEW b \in 1 .. Len(s) + 1,
                      Append(s, e)[a] = Append(s, e)[b]
               PROVE  a = b
    BY <1>1 DEF IsInjective
  <2>1. \A i \in 1 .. Len(s) : s[i] # e
    BY <1>1, <1>4 DEF Range
  <2> QED BY <1>1, <1>2, <1>4, <2>1 DEF IsInjective
<1> QED BY <1>1, <1>3, <1>4

\* The same for messages and the channels they are about.
LEMMA MessageFields ==
  ASSUME NEW m \in Messages
  PROVE  /\ m.channel \in Channels /\ m.cancelled \in BOOLEAN
         /\ m.error \in Errors \cup {NoError}
BY DEF Messages

\* The channels of a sequence of messages, one for each.
LEMMA ChannelsTyped ==
  ASSUME NEW s \in Seq(Messages)
  PROVE  /\ ChannelsOf(s) \in Seq(Channels) /\ DOMAIN ChannelsOf(s) = DOMAIN s
         /\ Len(ChannelsOf(s)) = Len(s)
         /\ \A i \in DOMAIN s : s[i] \in Messages /\ ChannelsOf(s)[i] = s[i].channel
<1>1. /\ DOMAIN s = 1 .. Len(s) /\ Len(s) \in Nat /\ \A i \in DOMAIN s : s[i] \in Messages
  BY LenProperties, ElementOfSeq
<1>2. /\ DOMAIN ChannelsOf(s) = 1 .. Len(s)
      /\ \A i \in DOMAIN s : ChannelsOf(s)[i] = s[i].channel
      /\ ChannelsOf(s) \in [1 .. Len(s) -> Channels]
  BY <1>1, MessageFields DEF ChannelsOf
<1>3. ChannelsOf(s) \in Seq(Channels)
  BY <1>1, <1>2 
<1>4. Len(ChannelsOf(s)) = Len(s)
  BY <1>1, <1>2, <1>3, LenProperties
<1> QED BY <1>1, <1>2, <1>3, <1>4

\* Sending and receiving a message moves its channel.
LEMMA ChannelsMove ==
  ASSUME NEW s \in Seq(Messages)
  PROVE  /\ \A m \in Messages : ChannelsOf(Append(s, m)) = Append(ChannelsOf(s), m.channel)
         /\ s # <<>> => /\ ChannelsOf(Tail(s)) = Tail(ChannelsOf(s))
                        /\ Head(ChannelsOf(s)) = Head(s).channel
                        /\ ChannelsOf(s) # <<>>
<1>0. /\ ChannelsOf(s) \in Seq(Channels) /\ DOMAIN ChannelsOf(s) = DOMAIN s
      /\ Len(ChannelsOf(s)) = Len(s) /\ Len(s) \in Nat /\ DOMAIN s = 1 .. Len(s)
      /\ \A i \in DOMAIN s : s[i] \in Messages /\ ChannelsOf(s)[i] = s[i].channel
  BY ChannelsTyped, LenProperties
<1>1. ASSUME NEW m \in Messages
      PROVE  ChannelsOf(Append(s, m)) = Append(ChannelsOf(s), m.channel)
  <2>1. m.channel \in Channels
    BY MessageFields
  <2>2. /\ Append(s, m) \in Seq(Messages) /\ Len(Append(s, m)) = Len(s) + 1
        /\ \A i \in 1 .. Len(s) : Append(s, m)[i] = s[i]
        /\ Append(s, m)[Len(s) + 1] = m
    BY AppendProperties
  <2>3. /\ Append(ChannelsOf(s), m.channel) \in Seq(Channels)
        /\ Len(Append(ChannelsOf(s), m.channel)) = Len(s) + 1
        /\ \A i \in 1 .. Len(s) : Append(ChannelsOf(s), m.channel)[i] = ChannelsOf(s)[i]
        /\ Append(ChannelsOf(s), m.channel)[Len(s) + 1] = m.channel
    BY <1>0, <2>1, AppendProperties
  <2>4. /\ ChannelsOf(Append(s, m)) \in Seq(Channels) /\ Len(ChannelsOf(Append(s, m))) = Len(s) + 1
        /\ \A i \in 1 .. Len(s) + 1 : ChannelsOf(Append(s, m))[i] = Append(s, m)[i].channel
    BY <2>2, ChannelsTyped, LenProperties
  <2>5. \A i \in 1 .. Len(s) + 1 :
          ChannelsOf(Append(s, m))[i] = Append(ChannelsOf(s), m.channel)[i]
    <3> SUFFICES ASSUME NEW i \in 1 .. Len(s) + 1
                 PROVE  ChannelsOf(Append(s, m))[i] = Append(ChannelsOf(s), m.channel)[i]
      OBVIOUS
    <3>1. CASE i = Len(s) + 1
      BY <2>2, <2>3, <2>4, <3>1
    <3>2. CASE i \in 1 .. Len(s)
      BY <1>0, <2>2, <2>3, <2>4, <3>2
    <3> QED BY <1>0, <3>1, <3>2
  <2> QED BY <2>3, <2>4, <2>5, SeqEqual
<1>2. ASSUME s # <<>>
      PROVE  /\ ChannelsOf(Tail(s)) = Tail(ChannelsOf(s))
             /\ Head(ChannelsOf(s)) = Head(s).channel /\ ChannelsOf(s) # <<>>
  <2>1. /\ Len(s) >= 1 /\ Tail(s) \in Seq(Messages) /\ Len(Tail(s)) = Len(s) - 1
        /\ Head(s) = s[1] /\ \A i \in 1 .. Len(s) - 1 : Tail(s)[i] = s[i + 1]
    BY <1>0, <1>2, HeadTailProperties, EmptySeq
  <2>2. ChannelsOf(s) # <<>>
    BY <1>0, <2>1, EmptySeq
  <2>3. /\ Tail(ChannelsOf(s)) \in Seq(Channels) /\ Len(Tail(ChannelsOf(s))) = Len(s) - 1
        /\ Head(ChannelsOf(s)) = ChannelsOf(s)[1]
        /\ \A i \in 1 .. Len(s) - 1 : Tail(ChannelsOf(s))[i] = ChannelsOf(s)[i + 1]
    BY <1>0, <2>2, HeadTailProperties
  <2>4. /\ ChannelsOf(Tail(s)) \in Seq(Channels) /\ Len(ChannelsOf(Tail(s))) = Len(s) - 1
        /\ \A i \in 1 .. Len(s) - 1 : ChannelsOf(Tail(s))[i] = Tail(s)[i].channel
    BY <2>1, ChannelsTyped, LenProperties
  <2>5. \A i \in 1 .. Len(s) - 1 : ChannelsOf(Tail(s))[i] = Tail(ChannelsOf(s))[i]
    <3> SUFFICES ASSUME NEW i \in 1 .. Len(s) - 1
                 PROVE  ChannelsOf(Tail(s))[i] = Tail(ChannelsOf(s))[i]
      OBVIOUS
    <3>1. i + 1 \in DOMAIN s
      BY <1>0
    <3> QED BY <1>0, <2>1, <2>3, <2>4, <3>1
  <2>6. ChannelsOf(Tail(s)) = Tail(ChannelsOf(s))
    BY <2>3, <2>4, <2>5, SeqEqual
  <2>7. Head(ChannelsOf(s)) = Head(s).channel
    BY <1>0, <2>1, <2>3
  <2> QED BY <2>2, <2>6, <2>7
<1> QED BY <1>1, <1>2
-----------------------------------------------------------------------------
(* Steps of one worker that move no channel.                               *)

\* What a worker does, it does between the caller's Enter and its StopReceiving.
LEMMA WorkerRuns ==
  ASSUME IInv, NEW w \in Workers, w <= spawned, ~Gone(w)
  PROVE  cpc \in {"spawn", "receive"} /\ outcome = "none"
<1>0. TypeOK /\ ControlSound
  BY DEF IInv
<1>1. EffectiveWorkers \in 1 .. ChannelWorkers /\ spawned \in Nat /\ w \in Nat /\ w >= 1
  BY <1>0, EffectiveBounds DEF Workers
<1>2. cpc # "enter" /\ outcome # "invalid_input"
  BY <1>0, <1>1 DEF ControlSound
<1>3. ~AllGone
  <2>1. spawned <= EffectiveWorkers
    BY <1>0, <1>1 DEF TypeOK
  <2>2. w \in 1 .. EffectiveWorkers
    BY <1>1, <2>1
  <2> QED BY <2>2 DEF AllGone
<1>4. cpc # "join" /\ outcome \notin {"ok", "error"}
  BY <1>0, <1>3 DEF ControlSound
<1>5. outcome = "none"
  BY <1>0, <1>2, <1>4 DEF TypeOK
<1> QED BY <1>0, <1>2, <1>4, <1>5 DEF ControlSound, TypeOK

\* A worker's step says nothing new about the calling thread.
LEMMA ControlKept ==
  ASSUME IInv, NEW w \in Workers, w <= spawned, ~Gone(w),
         UNCHANGED <<request, cpc, spawned, reports, firstError, outcome>>
  PROVE  ControlSound'
<1>1. cpc \in {"spawn", "receive"} /\ outcome = "none"
  BY WorkerRuns
<1> QED BY <1>1 DEF IInv, ControlSound, Acceptable, EffectiveWorkers

\* A step that moves no channel keeps every channel in its place.
LEMMA PlacesKept ==
  ASSUME PlacesSound,
         UNCHANGED <<request, cpc, reports, firstError, outcome, queue, wch, chan>>
  PROVE  PlacesSound'
BY DEF PlacesSound, Waiting, Held, Sent, Answered, ChannelsOf

\* The other workers do not notice, but for a flag that may have been set.
LEMMA OtherWorkers ==
  ASSUME IInv, NEW w \in Workers, NEW v \in Workers, v # w, spawned' = spawned,
         wpc'[v] = wpc[v], wch'[v] = wch[v], pos'[v] = pos[v], wave'[v] = wave[v],
         wmsg'[v] = wmsg[v], knows'[v] = knows[v],
         \A c \in Channels : c # wch[w] => seen'[c] = seen[c],
         stop => stop', queue = <<>> => queue' = <<>>
  PROVE  WorkerOk(v)'
<1>0. TypeOK /\ PlacesSound /\ WorkerOk(v) /\ Channels \subseteq Nat \ {0}
  BY ChannelReadAssumption DEF IInv, WorkersSound
<1>1. wch[v] # NoChannel => wch[v] \in Channels /\ wch[v] # wch[w]
  BY <1>0 DEF TypeOK, PlacesSound
<1>2. wpc[v] \in Holding => seen'[wch[v]] = seen[wch[v]]
  BY <1>0, <1>1 DEF WorkerOk
<1>3. wpc'[v] \in Reading => seen'[wch'[v]] = pos'[v]
  BY <1>0, <1>2 DEF WorkerOk, Holding
<1>4. wpc'[v] \in {"fail", "send"} =>
        wmsg'[v] \in Messages /\ wmsg'[v].channel = wch'[v] /\ Truthful(wmsg[v])'
  BY <1>0, <1>2 DEF WorkerOk, Truthful, Holding
<1> QED BY <1>0, <1>3, <1>4 DEF WorkerOk, Truthful

\* What was said of channels that the step does not touch stays so.
LEMMA MessagesKept ==
  ASSUME IInv, NEW w \in Workers, UNCHANGED <<queue, chan, reports>>,
         \A c \in Channels : c # wch[w] => seen'[c] = seen[c]
  PROVE  MessagesSound'
<1>0. /\ TypeOK /\ PlacesSound /\ MessagesSound /\ Channels \subseteq Nat \ {0}
      /\ chan \in Seq(Messages) /\ reports \in Seq(Messages) /\ queue \in Seq(Channels)
  BY ChannelReadAssumption DEF IInv, TypeOK
<1>1. ASSUME NEW c \in Waiting \cup Sent \cup Answered, c \in Channels
      PROVE  seen'[c] = seen[c]
  <2>1. c # wch[w]
    BY <1>0, <1>1 DEF PlacesSound, Held
  <2> QED BY <1>1, <2>1
<1>2. ASSUME NEW i \in DOMAIN chan PROVE Truthful(chan[i])'
  <2>1. chan[i].channel \in Sent /\ chan[i].channel \in Channels
    BY <1>0, ChannelsTyped, MessageFields DEF Sent, Range
  <2> QED BY <1>0, <1>1, <2>1 DEF MessagesSound, Truthful
<1>3. ASSUME NEW i \in DOMAIN reports PROVE Truthful(reports[i])' /\ reports[i].error = NoError
  <2>1. reports[i].channel \in Answered /\ reports[i].channel \in Channels
    BY <1>0, ChannelsTyped, MessageFields DEF Answered, Range
  <2> QED BY <1>0, <1>1, <2>1 DEF MessagesSound, Truthful
<1>4. ASSUME NEW c \in Waiting PROVE seen'[c] = 0
  <2>1. c \in Channels
    BY <1>0, LenProperties DEF Waiting, Range
  <2> QED BY <1>0, <1>1, <2>1 DEF MessagesSound
<1> QED BY <1>2, <1>3, <1>4 DEF MessagesSound, Waiting

\* A step of worker w that takes and sends no channel keeps the invariant if it
\* leaves w sound, and sets the flag only with a message that says so.
LEMMA LocalStep ==
  ASSUME IInv, NEW w \in Workers, w <= spawned, ~Gone(w),
         UNCHANGED <<request, cpc, spawned, reports, firstError, outcome, queue, wch, chan>>,
         wpc' \in [Workers -> WorkerPcs], knows' \in [Workers -> BOOLEAN], stop' \in BOOLEAN,
         pos' \in [Workers -> Nat], wave' \in [Workers -> Nat],
         wmsg' \in [Workers -> Messages \cup {NoMessage}], seen' \in [Channels -> Nat],
         \A v \in Workers : v # w => /\ wpc'[v] = wpc[v] /\ knows'[v] = knows[v]
                                     /\ pos'[v] = pos[v] /\ wave'[v] = wave[v]
                                     /\ wmsg'[v] = wmsg[v],
         \A c \in Channels : c # wch[w] => seen'[c] = seen[c],
         wch[w] # NoChannel => pos'[w] \in 0 .. Planned(wch[w]) /\ wave'[w] \in 0 .. Planned(wch[w]),
         stop => stop', WorkerOk(w)',
         \/ stop' = stop /\ wpc[w] # "send"
         \/ wpc'[w] = "send" /\ Ends(wmsg'[w])
  PROVE  IInv'
<1>0. TypeOK /\ PlacesSound /\ WorkersSound /\ StopSound
  BY DEF IInv
<1>1. TypeOK'
  <2>1. \A v \in Workers : wch'[v] # NoChannel =>
          pos'[v] \in 0 .. Planned(wch'[v]) /\ wave'[v] \in 0 .. Planned(wch'[v])
    BY <1>0 DEF TypeOK
  <2>2. spawned' \in 0 .. EffectiveWorkers'
    BY <1>0 DEF TypeOK, EffectiveWorkers
  <2> QED BY <1>0, <2>1, <2>2 DEF TypeOK
<1>2. PlacesTyped'
  BY DEF PlacesTyped
<1>3. ControlSound'
  BY ControlKept
<1>4. PlacesSound'
  BY <1>0, PlacesKept
<1>5. WorkersSound'
  <2>1. ASSUME NEW v \in Workers, v # w PROVE WorkerOk(v)'
    BY <2>1, OtherWorkers
  <2> QED BY <2>1 DEF WorkersSound, Workers
<1>6. MessagesSound'
  BY MessagesKept
<1>7. StopSound'
  <2>1. CASE wpc'[w] = "send" /\ Ends(wmsg'[w])
    BY <2>1 DEF StopSound, Ends, Workers
  <2>2. CASE stop' = stop /\ wpc[w] # "send"
    <3> SUFFICES ASSUME stop
                 PROVE  \/ \E v \in Workers : wpc'[v] = "send" /\ Ends(wmsg'[v])
                        \/ \E i \in DOMAIN chan : Ends(chan[i])
                        \/ Cancelled
                        \/ firstError # NoError
      BY <2>2 DEF StopSound, Cancelled, Ends, Workers
    <3>1. ASSUME NEW v \in Workers, wpc[v] = "send", Ends(wmsg[v])
          PROVE  wpc'[v] = "send" /\ Ends(wmsg'[v])
      BY <2>2, <3>1 DEF Ends
    <3> QED BY <1>0, <3>1 DEF StopSound
  <2> QED BY <2>1, <2>2
<1> QED BY <1>1, <1>2, <1>3, <1>4, <1>5, <1>6, <1>7 DEF IInv

\* A worker that holds a channel.
LEMMA HolderFields ==
  ASSUME IInv, NEW w \in Workers, wpc[w] \in Holding
  PROVE  /\ wch[w] \in Channels /\ wch[w] # NoChannel /\ Planned(wch[w]) \in Nat
         /\ pos[w] \in 0 .. Planned(wch[w]) /\ wave[w] \in 0 .. Planned(wch[w])
         /\ pos[w] \in Nat /\ wave[w] \in Nat
<1>1. wch[w] \in Channels /\ wch[w] # NoChannel
  BY DEF IInv, TypeOK, WorkersSound, WorkerOk
<1>2. Planned(wch[w]) \in Nat
  BY <1>1, ChannelReadAssumption, LenProperties DEF Planned
<1> QED BY <1>1, <1>2 DEF IInv, TypeOK, PlacesTyped

\* The read of a channel returns a message that is so, and the flag is set with it
\* only when the message says that it was cancelled.
LEMMA ReturnStep ==
  ASSUME IInv, NEW w \in Workers, w <= spawned, wpc[w] \in Reading,
         NEW m \in Messages, Returns(w, m), m.channel = wch[w],
         m.error # NoError \/ m.cancelled \/ seen[wch[w]] = Planned(wch[w]),
         UNCHANGED <<request, cpc, spawned, reports, firstError, outcome, queue, wch, chan, seen>>,
         knows' \in [Workers -> BOOLEAN], stop' \in BOOLEAN, pos' \in [Workers -> Nat],
         \A v \in Workers : v # w => knows'[v] = knows[v] /\ pos'[v] = pos[v],
         knows'[w] => stop', stop => stop', pos'[w] \in 0 .. Planned(wch[w]),
         stop' = stop \/ (m.error = NoError /\ m.cancelled)
  PROVE  IInv'
<1>0. /\ wpc \in [Workers -> WorkerPcs] /\ wave \in [Workers -> Nat]
      /\ wmsg \in [Workers -> Messages \cup {NoMessage}] /\ seen \in [Channels -> Nat]
      /\ WorkerOk(w) /\ spawned \in Nat /\ w \in Nat
  BY EffectiveBounds DEF IInv, TypeOK, PlacesTyped, WorkersSound
<1>1. wch[w] \in Channels /\ wch[w] # NoChannel /\ Planned(wch[w]) \in Nat
  BY HolderFields DEF Holding
<1>2. /\ wpc' = [wpc EXCEPT ![w] = IF m.error = NoError THEN "send" ELSE "fail"]
      /\ wave' = [wave EXCEPT ![w] = 0] /\ wmsg' = [wmsg EXCEPT ![w] = m]
  BY DEF Returns, Goto
<1>3. /\ wpc' \in [Workers -> WorkerPcs] /\ wave' \in [Workers -> Nat]
      /\ wmsg' \in [Workers -> Messages \cup {NoMessage}]
      /\ \A v \in Workers : v # w => wpc'[v] = wpc[v] /\ wave'[v] = wave[v] /\ wmsg'[v] = wmsg[v]
      /\ wpc'[w] = IF m.error = NoError THEN "send" ELSE "fail"
      /\ wave'[w] = 0 /\ wmsg'[w] = m
  BY <1>0, <1>2 DEF WorkerPcs
<1>4. WorkerOk(w)'
  <2>1. Truthful(m)'
    BY DEF Truthful
  <2> QED BY <1>0, <1>1, <1>3, <2>1 DEF WorkerOk, Holding, Reading, Truthful
<1>5. ~Gone(w) /\ wpc[w] # "send"
  BY DEF Gone, Reading
<1>6. wave'[w] \in 0 .. Planned(wch[w])
  BY <1>1, <1>3
<1>7. \/ stop' = stop /\ wpc[w] # "send"
      \/ wpc'[w] = "send" /\ Ends(wmsg'[w])
  BY <1>3, <1>5 DEF Ends
<1> QED BY <1>0, <1>3, <1>4, <1>5, <1>6, <1>7, LocalStep

\* A failure names its channel and its error.
LEMMA FailureFields ==
  ASSUME NEW c \in Channels, NEW e \in Errors
  PROVE  Failure(c, e) \in Messages /\ Failure(c, e).channel = c /\ Failure(c, e).error # NoError
BY DEF Failure, Messages, Errors, NoError

\* A report names its channel and carries no error.
LEMMA ReportFields ==
  ASSUME NEW c \in Channels, NEW n \in Nat, NEW b \in BOOLEAN
  PROVE  /\ Report(c, n, b) \in Messages /\ Report(c, n, b).channel = c
         /\ Report(c, n, b).error = NoError /\ Report(c, n, b).cancelled = b
BY DEF Report, Messages

\* A failed read, whatever the reason.
LEMMA FailStep ==
  ASSUME IInv, NEW w \in Workers, w <= spawned, wpc[w] \in Reading,
         NEW e \in Errors, Returns(w, Failure(wch[w], e)),
         UNCHANGED <<request, cpc, spawned, reports, firstError, outcome, queue, wch, chan, seen,
                     knows, stop, pos>>
  PROVE  IInv'
<1>0. /\ wch[w] \in Channels /\ pos[w] \in 0 .. Planned(wch[w]) /\ WorkerOk(w)
      /\ knows \in [Workers -> BOOLEAN] /\ stop \in BOOLEAN /\ pos \in [Workers -> Nat]
  BY HolderFields DEF Holding, IInv, TypeOK, PlacesTyped, WorkersSound
<1>1. /\ Failure(wch[w], e) \in Messages /\ Failure(wch[w], e).channel = wch[w]
      /\ Failure(wch[w], e).error # NoError
  BY <1>0, FailureFields
<1>2. knows[w] => stop
  BY <1>0 DEF WorkerOk
<1> QED BY <1>0, <1>1, <1>2, ReturnStep

\* A step that leaves everything but the place of the worker, the flag as it sees
\* it and the wave it holds.
LEMMA PlainStep ==
  ASSUME IInv, NEW w \in Workers, w <= spawned, ~Gone(w), wpc[w] # "send",
         UNCHANGED <<request, cpc, spawned, reports, firstError, outcome, queue, wch, chan, seen,
                     stop, pos, wmsg>>,
         NEW there \in WorkerPcs, Goto(w, there),
         knows' \in [Workers -> BOOLEAN], wave' \in [Workers -> Nat],
         \A v \in Workers : v # w => knows'[v] = knows[v] /\ wave'[v] = wave[v],
         knows'[w] => stop, wch[w] # NoChannel => wave'[w] \in 0 .. Planned(wch[w]),
         wch[w] # NoChannel <=> there \in Holding,
         there \in Reading => wpc[w] \in Reading,
         there \in {"poll", "visit"} => pos[w] < wave'[w],
         there \notin {"fail", "send"},
         there = "exited" => stop \/ queue = <<>>
  PROVE  IInv'
<1>0. /\ wpc \in [Workers -> WorkerPcs] /\ pos \in [Workers -> Nat]
      /\ wmsg \in [Workers -> Messages \cup {NoMessage}] /\ seen \in [Channels -> Nat]
      /\ stop \in BOOLEAN /\ WorkerOk(w) /\ spawned \in Nat /\ w \in Nat
  BY EffectiveBounds DEF IInv, TypeOK, PlacesTyped, WorkersSound
<1>1. /\ wpc' \in [Workers -> WorkerPcs] /\ wpc'[w] = there
      /\ \A v \in Workers : v # w => wpc'[v] = wpc[v]
  BY <1>0 DEF Goto
<1>2. WorkerOk(w)'
  BY <1>0, <1>1 DEF WorkerOk, Holding, Reading
<1>3. wch[w] # NoChannel => pos'[w] \in 0 .. Planned(wch[w])
  BY DEF IInv, TypeOK
<1> QED BY <1>0, <1>1, <1>2, <1>3, LocalStep

\* What a load of the flag yields is no news.
LEMMA LoadedFlag ==
  ASSUME IInv, NEW w \in Workers, NEW v \in BOOLEAN, LoadStop(w, v)
  PROVE  /\ knows' \in [Workers -> BOOLEAN] /\ knows'[w] = v /\ (v => stop)
         /\ \A u \in Workers : u # w => knows'[u] = knows[u]
<1>1. knows \in [Workers -> BOOLEAN] /\ stop \in BOOLEAN /\ (knows[w] => stop)
  BY DEF IInv, TypeOK, WorkersSound, WorkerOk
<1>2. knows' = [knows EXCEPT ![w] = v] /\ v \in IF knows[w] THEN {TRUE} ELSE {FALSE, stop}
  BY DEF LoadStop
<1>3. v => stop
  BY <1>1, <1>2
<1> QED BY <1>1, <1>2, <1>3
-----------------------------------------------------------------------------
(* The steps of a worker, one by one.                                      *)

\* A worker looks at the stop flag before it takes a channel.
LEMMA CheckStopStep ==
  ASSUME IInv, NEW w \in Workers, w <= spawned, CheckStop(w)
  PROVE  IInv'
<1>0. /\ wpc[w] = "idle" /\ ~Gone(w)
      /\ UNCHANGED <<request, cpc, spawned, reports, firstError, outcome, queue, wch, chan, seen,
                     stop, pos, wave, wmsg>>
  BY DEF CheckStop, At, Gone, Caller, Work
<1>1. /\ wch[w] = NoChannel /\ wave \in [Workers -> Nat]
  BY <1>0 DEF IInv, WorkersSound, WorkerOk, Holding, Reading, PlacesTyped
<1>2. ASSUME NEW v \in BOOLEAN, LoadStop(w, v), Goto(w, IF v THEN "exited" ELSE "take")
      PROVE  IInv'
  <2>1. /\ knows' \in [Workers -> BOOLEAN] /\ knows'[w] = v /\ (v => stop)
        /\ \A u \in Workers : u # w => knows'[u] = knows[u]
    BY <1>2, LoadedFlag
  <2>2. CASE v
    <3>1. Goto(w, "exited") /\ "exited" \in WorkerPcs
      BY <1>2, <2>2 DEF WorkerPcs
    <3> QED BY <1>0, <1>1, <2>1, <2>2, <3>1, PlainStep DEF Holding, Reading
  <2>3. CASE ~v
    <3>1. Goto(w, "take") /\ "take" \in WorkerPcs
      BY <1>2, <2>3 DEF WorkerPcs
    <3> QED BY <1>0, <1>1, <2>1, <2>3, <3>1, PlainStep DEF Holding, Reading
  <2> QED BY <2>2, <2>3
<1> QED BY <1>2 DEF CheckStop

\* A worker that finds the queue empty leaves.
LEMMA TakeNoneStep ==
  ASSUME IInv, NEW w \in Workers, w <= spawned, TakeNone(w)
  PROVE  IInv'
<1>0. /\ wpc[w] = "take" /\ ~Gone(w) /\ queue = <<>> /\ Goto(w, "exited") /\ "exited" \in WorkerPcs
      /\ UNCHANGED <<request, cpc, spawned, reports, firstError, outcome, queue, wch, chan, seen,
                     stop, knows, pos, wave, wmsg>>
  BY DEF TakeNone, At, Gone, Caller, Work, WorkerPcs
<1>1. /\ wch[w] = NoChannel /\ wave \in [Workers -> Nat] /\ knows \in [Workers -> BOOLEAN]
      /\ (knows[w] => stop)
  BY <1>0 DEF IInv, WorkersSound, WorkerOk, Holding, Reading, PlacesTyped, TypeOK
<1> QED BY <1>0, <1>1, PlainStep DEF Holding, Reading

\* Opening and planning a channel, or failing to.
LEMMA OpenStep ==
  ASSUME IInv, NEW w \in Workers, w <= spawned, Open(w)
  PROVE  IInv'
<1>0. /\ wpc[w] = "open" /\ wpc[w] \in Reading /\ ~Gone(w) /\ {"overLimit", "read"} \subseteq Errors
      /\ UNCHANGED <<request, cpc, spawned, reports, firstError, outcome, queue, wch, chan, seen,
                     stop, knows, pos>>
  BY DEF Open, At, Gone, Caller, Reading, Errors
<1>1. CASE Returns(w, Failure(wch[w], "overLimit"))
  BY <1>0, <1>1, FailStep
<1>2. CASE Returns(w, Failure(wch[w], "read"))
  BY <1>0, <1>2, FailStep
<1>3. CASE Goto(w, "wave") /\ UNCHANGED <<wmsg, wave>>
  <2>1. /\ wave \in [Workers -> Nat] /\ knows \in [Workers -> BOOLEAN] /\ (knows[w] => stop)
        /\ "wave" \in WorkerPcs
    BY DEF IInv, WorkersSound, WorkerOk, PlacesTyped, TypeOK, WorkerPcs
  <2>2. wch[w] # NoChannel /\ wave[w] \in 0 .. Planned(wch[w])
    BY <1>0, HolderFields DEF Holding
  <2> QED BY <1>0, <1>3, <2>1, <2>2, PlainStep DEF Holding, Reading
<1> QED BY <1>1, <1>2, <1>3 DEF Open

\* Reading a wave, or failing to.
LEMMA ReadWaveStep ==
  ASSUME IInv, NEW w \in Workers, w <= spawned, ReadWave(w)
  PROVE  IInv'
<1>0. /\ wpc[w] = "wave" /\ wpc[w] \in Reading /\ ~Gone(w) /\ "read" \in Errors
      /\ pos[w] # Planned(wch[w])
      /\ UNCHANGED <<request, cpc, spawned, reports, firstError, outcome, queue, wch, chan, seen,
                     stop, knows, pos>>
  BY DEF ReadWave, At, Gone, Caller, Reading, Errors, AllHandedOver
<1>1. CASE Returns(w, Failure(wch[w], "read"))
  BY <1>0, <1>1, FailStep
<1>2. CASE wave' = [wave EXCEPT ![w] = WaveEnd(wch[w], pos[w])] /\ Goto(w, "poll") /\ UNCHANGED wmsg
  <2>1. /\ wave \in [Workers -> Nat] /\ knows \in [Workers -> BOOLEAN] /\ (knows[w] => stop)
        /\ "poll" \in WorkerPcs
    BY DEF IInv, WorkersSound, WorkerOk, PlacesTyped, TypeOK, WorkerPcs
  <2>2. wch[w] # NoChannel /\ pos[w] \in 0 .. Planned(wch[w]) /\ Planned(wch[w]) \in Nat
    BY <1>0, HolderFields DEF Holding
  <2>3. WaveEnd(wch[w], pos[w]) \in 0 .. Planned(wch[w]) /\ pos[w] < WaveEnd(wch[w], pos[w])
    <3>1. WaveSize \in Nat \ {0} /\ pos[w] + WaveSize \in Nat
      BY <2>2, ChannelReadAssumption
    <3>2. /\ WaveEnd(wch[w], pos[w]) \in {pos[w] + WaveSize, Planned(wch[w])}
          /\ WaveEnd(wch[w], pos[w]) <= Planned(wch[w])
      BY <2>2, <3>1, SmallerOfTwo DEF WaveEnd
    <3> QED BY <1>0, <2>2, <3>1, <3>2
  <2>4. /\ wave' \in [Workers -> Nat] /\ wave'[w] = WaveEnd(wch[w], pos[w])
        /\ \A v \in Workers : v # w => wave'[v] = wave[v]
    BY <1>2, <2>1, <2>2, <2>3
  <2> QED BY <1>0, <1>2, <2>1, <2>2, <2>3, <2>4, PlainStep DEF Holding, Reading
<1> QED BY <1>1, <1>2 DEF ReadWave

\* Handing a batch over counts it for this worker only.
LEMMA HandedOver ==
  ASSUME IInv, NEW w \in Workers, wpc[w] \in {"poll", "visit"}, HandOver(w)
  PROVE  /\ pos' \in [Workers -> Nat] /\ pos'[w] = pos[w] + 1 /\ pos[w] + 1 \in 0 .. Planned(wch[w])
         /\ pos[w] + 1 <= wave[w]
         /\ \A v \in Workers : v # w => pos'[v] = pos[v]
<1>1. /\ Planned(wch[w]) \in Nat /\ pos[w] \in Nat /\ wave[w] \in Nat /\ wave[w] <= Planned(wch[w])
  BY HolderFields DEF Holding, Reading
<1>2. pos[w] < wave[w] /\ pos \in [Workers -> Nat]
  BY DEF IInv, WorkersSound, WorkerOk, PlacesTyped
<1>3. pos' = [pos EXCEPT ![w] = pos[w] + 1]
  BY DEF HandOver
<1> QED BY <1>1, <1>2, <1>3

\* The flag is polled before a batch is handed over.
LEMMA PollStopStep ==
  ASSUME IInv, NEW w \in Workers, w <= spawned, PollStop(w)
  PROVE  IInv'
<1>0. /\ wpc[w] = "poll" /\ wpc[w] \in Reading /\ ~Gone(w)
      /\ UNCHANGED <<request, cpc, spawned, reports, firstError, outcome, queue, wch, chan, seen, stop>>
  BY DEF PollStop, At, Gone, Caller, Reading
<1>1. /\ wch[w] \in Channels /\ wch[w] # NoChannel /\ pos[w] \in Nat /\ wave[w] \in 0 .. Planned(wch[w])
      /\ stop \in BOOLEAN /\ wave \in [Workers -> Nat] /\ pos[w] < wave[w]
  BY <1>0, HolderFields DEF Holding, IInv, TypeOK, PlacesTyped, WorkersSound, WorkerOk
<1>2. ASSUME NEW v \in BOOLEAN, LoadStop(w, v), v, HandOver(w), EndEarly(w, pos[w] + 1)
      PROVE  IInv'
  <2>1. /\ knows' \in [Workers -> BOOLEAN] /\ stop
        /\ \A u \in Workers : u # w => knows'[u] = knows[u]
    BY <1>2, LoadedFlag
  <2>2. /\ pos' \in [Workers -> Nat] /\ pos'[w] \in 0 .. Planned(wch[w])
        /\ \A u \in Workers : u # w => pos'[u] = pos[u]
    BY <1>0, <1>2, HandedOver
  <2>3. PICK m \in Messages : /\ Returns(w, m) /\ m.channel = wch[w] /\ m.error = NoError
                              /\ m.cancelled
    <3>1. pos[w] + 1 \in Nat
      BY <1>1
    <3>2. Returns(w, Report(wch[w], pos[w] + 1, TRUE))
      BY <1>2 DEF EndEarly
    <3> QED BY <1>1, <3>1, <3>2, ReportFields
  <2> QED BY <1>0, <1>1, <2>1, <2>2, <2>3, ReturnStep
<1>3. ASSUME NEW v \in BOOLEAN, LoadStop(w, v), ~v, Goto(w, "visit"), UNCHANGED <<pos, wave, wmsg>>
      PROVE  IInv'
  <2>1. /\ knows' \in [Workers -> BOOLEAN] /\ ~knows'[w] /\ "visit" \in WorkerPcs
        /\ \A u \in Workers : u # w => knows'[u] = knows[u]
    BY <1>3, LoadedFlag DEF WorkerPcs
  <2> QED BY <1>0, <1>1, <1>3, <2>1, PlainStep DEF Holding, Reading
<1> QED BY <1>2, <1>3 DEF PollStop

\* The visitor returned from the batch: it was seen, and the worker goes on.
LEMMA SeenStep ==
  ASSUME IInv, NEW w \in Workers, w <= spawned, wpc[w] = "visit", HandOver(w),
         NEW there \in {"wave", "poll", "tell"}, Goto(w, there),
         there = "poll" => pos[w] + 1 # wave[w],
         seen' = [seen EXCEPT ![wch[w]] = @ + 1],
         UNCHANGED <<request, cpc, spawned, reports, firstError, outcome, queue, wch, chan,
                     stop, knows, wave, wmsg>>
  PROVE  IInv'
<1>0. /\ wpc \in [Workers -> WorkerPcs] /\ knows \in [Workers -> BOOLEAN] /\ stop \in BOOLEAN
      /\ wave \in [Workers -> Nat] /\ wmsg \in [Workers -> Messages \cup {NoMessage}]
      /\ seen \in [Channels -> Nat] /\ WorkerOk(w) /\ ~Gone(w)
      /\ there \in WorkerPcs /\ there \in Reading
  BY DEF IInv, TypeOK, PlacesTyped, WorkersSound, Gone, WorkerPcs, Reading
<1>1. /\ wch[w] \in Channels /\ wch[w] # NoChannel /\ pos[w] \in Nat /\ wave[w] \in Nat
      /\ wave[w] \in 0 .. Planned(wch[w])
  BY HolderFields DEF Holding, Reading
<1>2. /\ pos' \in [Workers -> Nat] /\ pos'[w] = pos[w] + 1 /\ pos'[w] \in 0 .. Planned(wch[w])
      /\ pos[w] + 1 <= wave[w] /\ \A v \in Workers : v # w => pos'[v] = pos[v]
  BY HandedOver
<1>3. /\ wpc' \in [Workers -> WorkerPcs] /\ wpc'[w] = there
      /\ \A v \in Workers : v # w => wpc'[v] = wpc[v]
  BY <1>0 DEF Goto
<1>4. /\ seen' \in [Channels -> Nat] /\ seen'[wch[w]] = pos'[w]
      /\ \A c \in Channels : c # wch[w] => seen'[c] = seen[c]
  <2>1. seen[wch[w]] = pos[w]
    BY <1>0 DEF WorkerOk, Reading
  <2> QED BY <1>0, <1>1, <1>2, <2>1
<1>5. there = "poll" => pos'[w] < wave'[w]
  BY <1>1, <1>2
<1>6. WorkerOk(w)'
  <2>1. spawned \in Nat /\ w \in Nat
    BY EffectiveBounds DEF IInv
  <2> QED BY <1>0, <1>1, <1>3, <1>4, <1>5, <2>1 DEF WorkerOk, Holding, Reading
<1> QED BY <1>0, <1>1, <1>2, <1>3, <1>4, <1>6, LocalStep

\* The visitor continues, stops, fails or panics.
LEMMA VisitStep ==
  ASSUME IInv, NEW w \in Workers, w <= spawned, Visit(w)
  PROVE  IInv'
<1>0. /\ wpc[w] = "visit" /\ wpc[w] \in Reading /\ ~Gone(w)
      /\ UNCHANGED <<request, cpc, spawned, reports, firstError, outcome, queue, wch, chan,
                     stop, knows>>
  BY DEF Visit, At, Gone, Caller, Reading
<1>1. CASE /\ HandOver(w) /\ AfterBatch(w)
           /\ seen' = [seen EXCEPT ![wch[w]] = @ + 1] /\ UNCHANGED <<wave, wmsg>>
  <2>1. CASE pos[w] + 1 = wave[w]
    BY <1>0, <1>1, <2>1, SeenStep DEF AfterBatch
  <2>2. CASE pos[w] + 1 # wave[w]
    BY <1>0, <1>1, <2>2, SeenStep DEF AfterBatch
  <2> QED BY <2>1, <2>2
<1>2. CASE /\ HandOver(w) /\ Goto(w, "tell")
           /\ seen' = [seen EXCEPT ![wch[w]] = @ + 1] /\ UNCHANGED <<wave, wmsg>>
  BY <1>0, <1>2, SeenStep
<1>3. ASSUME NEW e \in {"view", "visitor"}, Returns(w, Failure(wch[w], e)), UNCHANGED <<pos, seen>>
      PROVE  IInv'
  BY <1>0, <1>3, FailStep DEF Errors
<1>4. CASE Goto(w, "dead") /\ wave' = [wave EXCEPT ![w] = 0] /\ UNCHANGED <<pos, wmsg, seen>>
  <2>1. /\ wave \in [Workers -> Nat] /\ knows \in [Workers -> BOOLEAN] /\ (knows[w] => stop)
        /\ "dead" \in WorkerPcs
    BY DEF IInv, WorkersSound, WorkerOk, PlacesTyped, TypeOK, WorkerPcs
  <2>2. wch[w] # NoChannel /\ Planned(wch[w]) \in Nat
    BY <1>0, HolderFields DEF Holding
  <2>3. /\ wave' \in [Workers -> Nat] /\ wave'[w] \in 0 .. Planned(wch[w])
        /\ \A v \in Workers : v # w => wave'[v] = wave[v]
    BY <1>4, <2>1, <2>2
  <2> QED BY <1>0, <1>4, <2>1, <2>2, <2>3, PlainStep DEF Holding, Reading
<1> QED BY <1>1, <1>2, <1>3, <1>4 DEF Visit

\* A visitor that stopped has the flag set before its report is sent.
LEMMA TellOthersStep ==
  ASSUME IInv, NEW w \in Workers, w <= spawned, TellOthers(w)
  PROVE  IInv'
<1>0. /\ wpc[w] \in Reading /\ stop' = TRUE /\ knows' = [knows EXCEPT ![w] = TRUE]
      /\ UNCHANGED <<request, cpc, spawned, reports, firstError, outcome, queue, wch, chan, seen, pos>>
  BY DEF TellOthers, At, Caller, Reading, StoreStop
<1>1. /\ wch[w] \in Channels /\ pos[w] \in Nat /\ pos[w] \in 0 .. Planned(wch[w])
      /\ pos \in [Workers -> Nat] /\ knows \in [Workers -> BOOLEAN]
  BY <1>0, HolderFields DEF Holding, IInv, TypeOK, PlacesTyped
<1>2. knows' \in [Workers -> BOOLEAN] /\ \A u \in Workers : u # w => knows'[u] = knows[u]
  BY <1>0, <1>1
<1>3. PICK m \in Messages : /\ Returns(w, m) /\ m.channel = wch[w] /\ m.error = NoError
                            /\ m.cancelled
  BY <1>1, ReportFields DEF TellOthers, EndEarly
<1> QED BY <1>0, <1>1, <1>2, <1>3, ReturnStep

\* All waves read: the report is complete.
LEMMA CompleteStep ==
  ASSUME IInv, NEW w \in Workers, w <= spawned, Complete(w)
  PROVE  IInv'
<1>0. /\ wpc[w] = "wave" /\ wpc[w] \in Reading /\ pos[w] = Planned(wch[w])
      /\ UNCHANGED <<request, cpc, spawned, reports, firstError, outcome, queue, wch, chan, seen,
                     stop, knows, pos>>
  BY DEF Complete, At, Caller, Reading, AllHandedOver
<1>1. /\ wch[w] \in Channels /\ pos[w] \in Nat /\ pos[w] \in 0 .. Planned(wch[w])
      /\ pos \in [Workers -> Nat] /\ knows \in [Workers -> BOOLEAN] /\ stop \in BOOLEAN
      /\ (knows[w] => stop) /\ seen[wch[w]] = pos[w]
  BY <1>0, HolderFields DEF Holding, IInv, TypeOK, PlacesTyped, WorkersSound, WorkerOk
<1>2. CASE Returns(w, Failure(wch[w], "rowCount"))
  BY <1>0, <1>2, FailStep DEF Errors
<1>3. CASE Returns(w, Report(wch[w], pos[w], FALSE))
  <2>1. PICK m \in Messages : Returns(w, m) /\ m.channel = wch[w]
    BY <1>1, <1>3, ReportFields
  <2> QED BY <1>0, <1>1, <2>1, ReturnStep
<1> QED BY <1>2, <1>3 DEF Complete

\* A failure sets the flag before it is sent.
LEMMA RaiseStopStep ==
  ASSUME IInv, NEW w \in Workers, w <= spawned, RaiseStop(w)
  PROVE  IInv'
<1>0. /\ wpc[w] = "fail" /\ ~Gone(w) /\ stop' = TRUE /\ knows' = [knows EXCEPT ![w] = TRUE]
      /\ wpc' = [wpc EXCEPT ![w] = "send"]
      /\ UNCHANGED <<request, cpc, spawned, reports, firstError, outcome, queue, wch, chan, seen,
                     pos, wave, wmsg>>
  BY DEF RaiseStop, At, Gone, Goto, Caller, Work, StoreStop
<1>1. /\ wpc \in [Workers -> WorkerPcs] /\ knows \in [Workers -> BOOLEAN]
      /\ wave \in [Workers -> Nat] /\ pos \in [Workers -> Nat]
      /\ wmsg \in [Workers -> Messages \cup {NoMessage}]
      /\ seen \in [Channels -> Nat] /\ WorkerOk(w) /\ spawned \in Nat /\ w \in Nat
  BY EffectiveBounds DEF IInv, TypeOK, PlacesTyped, WorkersSound
<1>2. /\ wpc' \in [Workers -> WorkerPcs] /\ wpc'[w] = "send"
      /\ \A v \in Workers : v # w => wpc'[v] = wpc[v]
  BY <1>0, <1>1 DEF WorkerPcs
<1>3. knows' \in [Workers -> BOOLEAN] /\ \A u \in Workers : u # w => knows'[u] = knows[u]
  BY <1>0, <1>1
<1>4. WorkerOk(w)' /\ Ends(wmsg'[w])
  BY <1>0, <1>1, <1>2 DEF WorkerOk, Holding, Reading, Truthful, Ends
<1>5. wch[w] # NoChannel => pos'[w] \in 0 .. Planned(wch[w]) /\ wave'[w] \in 0 .. Planned(wch[w])
  BY <1>0 DEF IInv, TypeOK
<1> QED BY <1>0, <1>1, <1>2, <1>3, <1>4, <1>5, LocalStep
-----------------------------------------------------------------------------
(* Steps that move a channel from one place to the next.                   *)

\* The other workers hold what they held, and w has c, or nothing.
LEMMA HeldMoves ==
  ASSUME IInv, NEW w \in Workers, NEW c \in Channels \cup {NoChannel},
         wch' = [wch EXCEPT ![w] = c]
  PROVE  /\ wch' \in [Workers -> Channels \cup {NoChannel}] /\ wch'[w] = c
         /\ \A v \in Workers : v # w => wch'[v] = wch[v]
         /\ wch[w] = NoChannel /\ c # NoChannel => Held' = Held \cup {c}
         /\ wch[w] # NoChannel /\ c = NoChannel => Held' = Held \ {wch[w]} /\ wch[w] \in Held
<1>0. /\ wch \in [Workers -> Channels \cup {NoChannel}] /\ NoChannel \notin Channels
      /\ \A u, v \in Workers : wch[u] = wch[v] /\ wch[v] # NoChannel => u = v
  BY ChannelReadAssumption DEF IInv, TypeOK, PlacesSound, NoChannel
<1>1. /\ wch' \in [Workers -> Channels \cup {NoChannel}] /\ wch'[w] = c
      /\ \A v \in Workers : v # w => wch'[v] = wch[v]
  BY <1>0
<1>2. ASSUME wch[w] = NoChannel, c # NoChannel PROVE Held' = Held \cup {c}
  BY <1>0, <1>1, <1>2 DEF Held, Workers
<1>3. ASSUME wch[w] # NoChannel, c = NoChannel
      PROVE  Held' = Held \ {wch[w]} /\ wch[w] \in Held
  <2>1. wch[w] \in Held
    BY <1>0, <1>3 DEF Held
  <2>2. ASSUME NEW x \in Held', x \notin Held \ {wch[w]} PROVE FALSE
    <3>1. PICK v \in Workers : wch'[v] = x /\ x \in Channels
      BY <2>2 DEF Held, Workers
    <3>2. v # w
      BY <1>0, <1>1, <1>3, <3>1
    <3>3. wch[v] = x /\ x # NoChannel /\ x \in Held
      BY <1>0, <1>1, <3>1, <3>2 DEF Held
    <3>4. x = wch[w]
      BY <2>2, <3>3
    <3> QED BY <1>0, <3>2, <3>3, <3>4
  <2>3. ASSUME NEW x \in Held, x # wch[w] PROVE x \in Held'
    <3>1. PICK v \in Workers : wch[v] = x /\ x \in Channels
      BY <2>3 DEF Held
    <3>2. wch'[v] = x
      BY <1>1, <2>3, <3>1
    <3> QED BY <3>1, <3>2 DEF Held, Workers
  <2> QED BY <2>1, <2>2, <2>3
<1> QED BY <1>1, <1>2, <1>3

\* A channel moves from the queue to the worker that takes it.
LEMMA TakeStep ==
  ASSUME IInv, NEW w \in Workers, w <= spawned, Take(w)
  PROVE  IInv'
<1>0. /\ wpc[w] = "take" /\ ~Gone(w) /\ queue # <<>> /\ queue' = Tail(queue)
      /\ wch' = [wch EXCEPT ![w] = Head(queue)] /\ wpc' = [wpc EXCEPT ![w] = "open"]
      /\ pos' = [pos EXCEPT ![w] = 0] /\ wave' = [wave EXCEPT ![w] = 0]
      /\ UNCHANGED <<request, cpc, spawned, reports, firstError, outcome, chan, seen, stop, knows,
                     wmsg>>
  BY DEF Take, At, Gone, Goto, Caller
<1>1. /\ TypeOK /\ ControlSound /\ PlacesSound /\ WorkersSound /\ MessagesSound /\ StopSound
      /\ WorkerOk(w) /\ queue \in Seq(Channels) /\ IsInjective(queue)
      /\ NoChannel \notin Channels /\ spawned \in Nat /\ w \in Nat
  BY ChannelReadAssumption, EffectiveBounds DEF IInv, WorkersSound, TypeOK, PlacesSound, NoChannel
<1>2. PICK h \in Channels : h = Head(queue)
  BY <1>0, <1>1, TailRange
<1>3. /\ queue' \in Seq(Channels) /\ IsInjective(queue') /\ Waiting' = Waiting \ {h} /\ h \in Waiting
  BY <1>0, <1>1, <1>2, TailRange DEF Waiting
<1>4. wch[w] = NoChannel /\ h # NoChannel
  BY <1>0, <1>1 DEF WorkerOk, Holding, Reading
<1>5. /\ wch' \in [Workers -> Channels \cup {NoChannel}] /\ wch'[w] = h
      /\ \A v \in Workers : v # w => wch'[v] = wch[v]
      /\ Held' = Held \cup {h}
  BY <1>0, <1>2, <1>4, HeldMoves
<1>6. /\ wpc' \in [Workers -> WorkerPcs] /\ pos' \in [Workers -> Nat] /\ wave' \in [Workers -> Nat]
      /\ wpc'[w] = "open" /\ pos'[w] = 0 /\ wave'[w] = 0
      /\ \A v \in Workers : v # w => wpc'[v] = wpc[v] /\ pos'[v] = pos[v] /\ wave'[v] = wave[v]
  BY <1>0, <1>1 DEF IInv, TypeOK, PlacesTyped, WorkerPcs
<1>7. TypeOK' /\ PlacesTyped'
  <2>1. Planned(h) \in Nat
    BY ChannelReadAssumption, LenProperties DEF Planned
  <2>2. \A v \in Workers : wch'[v] # NoChannel =>
          pos'[v] \in 0 .. Planned(wch'[v]) /\ wave'[v] \in 0 .. Planned(wch'[v])
    <3>1. ASSUME NEW v \in Workers, v # w, wch[v] # NoChannel
          PROVE  pos[v] \in 0 .. Planned(wch[v]) /\ wave[v] \in 0 .. Planned(wch[v])
      BY <1>1, <3>1 DEF TypeOK
    <3>2. 0 \in 0 .. Planned(h)
      BY <2>1
    <3> QED BY <1>5, <1>6, <3>1, <3>2
  <2>3. spawned' \in 0 .. EffectiveWorkers'
    BY <1>0, <1>1 DEF TypeOK, EffectiveWorkers
  <2> QED BY <1>0, <1>1, <1>3, <1>5, <1>6, <2>2, <2>3 DEF TypeOK, PlacesTyped
<1>8. ControlSound'
  BY <1>0, ControlKept
<1>9. PlacesSound'
  <2>1. Sent' = Sent /\ Answered' = Answered /\ ChannelsOf(chan)' = ChannelsOf(chan)
        /\ ChannelsOf(reports)' = ChannelsOf(reports)
    BY <1>0 DEF Sent, Answered, ChannelsOf
  <2>2. \A u, v \in Workers : wch'[u] = wch'[v] /\ wch'[v] # NoChannel => u = v
    <3>1. \A v \in Workers : wch[v] # h
      BY <1>1, <1>3 DEF PlacesSound, Held
    <3> QED BY <1>1, <1>5, <3>1 DEF PlacesSound
  <2>3. \A u, v \in Workers' : wch'[u] = wch'[v] /\ wch'[v] # NoChannel => u = v
    BY <2>2 DEF Workers
  <2> QED BY <1>0, <1>1, <1>3, <1>5, <2>1, <2>3 DEF PlacesSound
<1>10. WorkersSound'
  <2>1. ASSUME NEW v \in Workers, v # w PROVE WorkerOk(v)'
    BY <1>0, <1>5, <1>6, <2>1, OtherWorkers
  <2>2. WorkerOk(w)'
    <3>1. seen[h] = 0
      BY <1>1, <1>3 DEF MessagesSound
    <3> QED BY <1>0, <1>1, <1>4, <1>5, <1>6, <3>1 DEF WorkerOk, Holding, Reading
  <2> QED BY <2>1, <2>2 DEF WorkersSound, Workers
<1>11. MessagesSound'
  BY <1>0, <1>1, <1>3 DEF MessagesSound, Truthful
<1>12. StopSound'
  BY <1>0, <1>1, <1>6 DEF StopSound, Cancelled, Ends, Workers
<1> QED BY <1>7, <1>8, <1>9, <1>10, <1>11, <1>12 DEF IInv

\* A channel moves from the worker to the result channel.
LEMMA SendStep ==
  ASSUME IInv, NEW w \in Workers, w <= spawned, Send(w)
  PROVE  IInv'
<1>0. /\ wpc[w] = "send" /\ ~Gone(w) /\ chan' = Append(chan, wmsg[w])
      /\ wmsg' = [wmsg EXCEPT ![w] = NoMessage]
      /\ wch' = [wch EXCEPT ![w] = NoChannel] /\ wpc' = [wpc EXCEPT ![w] = "idle"]
      /\ UNCHANGED <<request, cpc, spawned, reports, firstError, outcome, queue, seen, stop, knows,
                     pos, wave>>
  BY DEF Send, At, Gone, Goto, Caller
<1>1. /\ TypeOK /\ ControlSound /\ PlacesSound /\ WorkersSound /\ MessagesSound /\ StopSound
      /\ WorkerOk(w) /\ chan \in Seq(Messages) /\ NoChannel \notin Channels
      /\ spawned \in Nat /\ w \in Nat
  BY ChannelReadAssumption, EffectiveBounds DEF IInv, WorkersSound, TypeOK, NoChannel
<1>2. PICK m \in Messages : m = wmsg[w] /\ m.channel = wch[w] /\ Truthful(m)
  BY <1>0, <1>1 DEF WorkerOk
<1>3. PICK c \in Channels : c = wch[w] /\ c # NoChannel
  BY <1>0, HolderFields DEF Holding
<1>4. /\ wch' \in [Workers -> Channels \cup {NoChannel}] /\ wch'[w] = NoChannel
      /\ \A v \in Workers : v # w => wch'[v] = wch[v]
      /\ Held' = Held \ {c} /\ c \in Held
  BY <1>0, <1>3, HeldMoves
<1>5. /\ chan' \in Seq(Messages) /\ Sent' = Sent \cup {c} /\ IsInjective(ChannelsOf(chan)')
  <2>1. ChannelsOf(chan)' = Append(ChannelsOf(chan), c) /\ ChannelsOf(chan) \in Seq(Channels)
        /\ IsInjective(ChannelsOf(chan))
    <3>1. ChannelsOf(Append(chan, m)) = Append(ChannelsOf(chan), c)
      BY <1>1, <1>2, <1>3, ChannelsMove
    <3>2. ChannelsOf(chan)' = ChannelsOf(Append(chan, m))
      BY <1>0, <1>2 DEF ChannelsOf
    <3> QED BY <1>1, <3>1, <3>2, ChannelsTyped DEF PlacesSound
  <2>2. c \notin Range(ChannelsOf(chan))
    BY <1>1, <1>4 DEF PlacesSound, Sent
  <2>3. chan' \in Seq(Messages)
    BY <1>0, <1>1, <1>2, AppendProperties
  <2> QED BY <2>1, <2>2, <2>3, AppendRange DEF Sent
<1>6. /\ wpc' \in [Workers -> WorkerPcs] /\ wmsg' \in [Workers -> Messages \cup {NoMessage}]
      /\ wpc'[w] = "idle"
      /\ \A v \in Workers : v # w => wpc'[v] = wpc[v] /\ wmsg'[v] = wmsg[v]
  BY <1>0, <1>1 DEF TypeOK, WorkerPcs
<1>7. TypeOK' /\ PlacesTyped'
  <2>1. \A v \in Workers : wch'[v] # NoChannel =>
          pos'[v] \in 0 .. Planned(wch'[v]) /\ wave'[v] \in 0 .. Planned(wch'[v])
    BY <1>0, <1>1, <1>4 DEF TypeOK
  <2>2. spawned' \in 0 .. EffectiveWorkers'
    BY <1>0, <1>1 DEF TypeOK, EffectiveWorkers
  <2>3. PlacesTyped'
    BY <1>0 DEF IInv, PlacesTyped
  <2> QED BY <1>0, <1>1, <1>4, <1>5, <1>6, <2>1, <2>2, <2>3 DEF TypeOK
<1>8. ControlSound'
  BY <1>0, ControlKept
<1>9. PlacesSound'
  <2>1. Waiting' = Waiting /\ Answered' = Answered
        /\ ChannelsOf(reports)' = ChannelsOf(reports)
    BY <1>0 DEF Waiting, Answered, ChannelsOf
  <2>2. \A u, v \in Workers' : wch'[u] = wch'[v] /\ wch'[v] # NoChannel => u = v
    BY <1>1, <1>4 DEF PlacesSound, Workers
  <2> QED BY <1>0, <1>1, <1>4, <1>5, <2>1, <2>2 DEF PlacesSound
<1>10. WorkersSound'
  <2>1. ASSUME NEW v \in Workers, v # w PROVE WorkerOk(v)'
    BY <1>0, <1>4, <1>6, <2>1, OtherWorkers
  <2>2. WorkerOk(w)'
    BY <1>0, <1>1, <1>4, <1>6 DEF WorkerOk, Holding, Reading
  <2> QED BY <2>1, <2>2 DEF WorkersSound, Workers
<1>11. /\ DOMAIN chan \subseteq DOMAIN chan' /\ \A i \in DOMAIN chan : chan'[i] = chan[i]
       /\ \A i \in DOMAIN chan' : i \in DOMAIN chan \/ chan'[i] = m
       /\ \E i \in DOMAIN chan' : chan'[i] = m
  <2>1. /\ Len(chan) \in Nat /\ DOMAIN chan = 1 .. Len(chan) /\ DOMAIN chan' = 1 .. Len(chan) + 1
        /\ chan'[Len(chan) + 1] = m /\ \A i \in 1 .. Len(chan) : chan'[i] = chan[i]
    BY <1>0, <1>1, <1>2, <1>5, AppendProperties, LenProperties
  <2> QED BY <2>1
<1>12. MessagesSound'
  <2>1. \A i \in DOMAIN chan' : Truthful(chan[i])'
    BY <1>0, <1>1, <1>2, <1>11 DEF MessagesSound, Truthful
  <2> QED BY <1>0, <1>1, <2>1 DEF MessagesSound, Truthful, Waiting
<1>13. StopSound'
  <2> SUFFICES ASSUME stop
               PROVE  \/ \E v \in Workers : wpc'[v] = "send" /\ Ends(wmsg'[v])
                      \/ \E i \in DOMAIN chan' : Ends(chan'[i])
                      \/ Cancelled
                      \/ firstError # NoError
    BY <1>0 DEF StopSound, Cancelled, Ends, Workers
  <2>1. CASE Ends(m)
    BY <1>11, <2>1
  <2>2. ASSUME NEW v \in Workers, wpc[v] = "send", Ends(wmsg[v]), ~Ends(m)
        PROVE  wpc'[v] = "send" /\ Ends(wmsg'[v])
    BY <1>2, <1>6, <2>2
  <2>3. ASSUME NEW i \in DOMAIN chan, Ends(chan[i]) PROVE i \in DOMAIN chan' /\ Ends(chan'[i])
    BY <1>11, <2>3
  <2> QED BY <1>1, <2>1, <2>2, <2>3 DEF StopSound
<1> QED BY <1>7, <1>8, <1>9, <1>10, <1>12, <1>13 DEF IInv

\* Every step of a worker keeps the invariant.
LEMMA WorkerKeepsIInv ==
  ASSUME IInv, NEW w \in Workers, WorkerStep(w)
  PROVE  IInv'
BY CheckStopStep, TakeStep, TakeNoneStep, OpenStep, ReadWaveStep, PollStopStep, VisitStep,
   TellOthersStep, CompleteStep, RaiseStopStep, SendStep
DEF WorkerStep
-----------------------------------------------------------------------------
(* The steps of the calling thread.                                        *)

\* A rearranged sequence has the same elements, each as often.
LEMMA Rearranged ==
  ASSUME NEW S, NEW s \in Seq(S), NEW t \in Arrangements(s)
  PROVE  /\ t \in Seq(S) /\ DOMAIN t = DOMAIN s
         /\ Range(t) = Range(s) /\ (IsInjective(s) => IsInjective(t))
         /\ \E p \in Bijection(DOMAIN s, DOMAIN s) : \A i \in DOMAIN s : t[i] = s[p[i]]
<1>1. PICK p \in Bijection(DOMAIN s, DOMAIN s) : t = [i \in DOMAIN s |-> s[p[i]]]
  BY DEF Arrangements
<1>2. /\ p \in [DOMAIN s -> DOMAIN s] /\ IsInjective(p)
      /\ \A j \in DOMAIN s : \E i \in DOMAIN s : p[i] = j
  BY <1>1 DEF Bijection, Injection, Surjection
<1>3. DOMAIN s = 1 .. Len(s) /\ Len(s) \in Nat /\ \A i \in DOMAIN s : s[i] \in S
  BY LenProperties
<1>4. t \in [1 .. Len(s) -> S] /\ DOMAIN t = DOMAIN s
  BY <1>1, <1>2, <1>3
<1>5. t \in Seq(S)
  BY <1>3, <1>4
<1>6. Range(t) = Range(s)
  <2>1. ASSUME NEW e \in Range(s) PROVE e \in Range(t)
    <3>1. PICK j \in DOMAIN s : e = s[j]
      BY <2>1 DEF Range
    <3>2. PICK i \in DOMAIN s : p[i] = j
      BY <1>2
    <3> QED BY <1>1, <3>1, <3>2 DEF Range
  <2>2. ASSUME NEW e \in Range(t) PROVE e \in Range(s)
    BY <1>1, <1>2, <2>2 DEF Range
  <2> QED BY <2>1, <2>2
<1>7. IsInjective(s) => IsInjective(t)
  BY <1>1, <1>2 DEF IsInjective
<1> QED BY <1>1, <1>4, <1>5, <1>6, <1>7

\* No worker moves: their variables, and what was seen, stay.
LEMMA WorkersKept ==
  ASSUME IInv, UNCHANGED <<stop, knows, wpc, wch, pos, wave, wmsg, seen>>,
         spawned' >= spawned, spawned' \in Nat, queue = <<>> => queue' = <<>>
  PROVE  WorkersSound'
<1> SUFFICES ASSUME NEW w \in Workers PROVE WorkerOk(w)'
  BY DEF WorkersSound, Workers
<1>1. WorkerOk(w) /\ w \in Nat /\ spawned \in Nat
  BY EffectiveBounds DEF IInv, WorkersSound
<1>2. w > spawned' => w > spawned
  BY <1>1
<1> QED BY <1>1, <1>2 DEF WorkerOk, Truthful

\* The request is refused, or its channels are queued in ascending order.
LEMMA EnterStep ==
  ASSUME IInv, Enter
  PROVE  IInv'
<1>0. /\ cpc = "enter"
      /\ UNCHANGED <<request, spawned, stop, knows, wpc, wch, pos, wave, wmsg, chan, reports,
                     firstError, seen>>
  BY DEF Enter, Work
<1>1. /\ TypeOK /\ PlacesTyped /\ ControlSound /\ PlacesSound /\ WorkersSound /\ MessagesSound
      /\ StopSound /\ spawned = 0 /\ chan = <<>> /\ reports = <<>> /\ outcome = "none"
      /\ \A c \in Channels : seen[c] = 0
  BY <1>0 DEF IInv, ControlSound
<1>2. StopSound'
  BY <1>0, <1>1 DEF StopSound, Cancelled, Ends, Workers
<1>3. /\ EffectiveWorkers' = EffectiveWorkers /\ Acceptable' = Acceptable /\ AllGone' = AllGone
  BY <1>0 DEF EffectiveWorkers, Acceptable, AllGone, Gone
<1>4. \A w \in Workers : wpc[w] = "idle" /\ wch[w] = NoChannel
  <2> SUFFICES ASSUME NEW w \in Workers PROVE wpc[w] = "idle" /\ wch[w] = NoChannel
    OBVIOUS
  <2>1. WorkerOk(w) /\ w > spawned
    BY <1>1 DEF WorkersSound, Workers
  <2> QED BY <2>1 DEF WorkerOk, Holding, Reading
<1>5. CASE ~Acceptable /\ cpc' = "done" /\ outcome' = "invalid_input" /\ UNCHANGED queue
  <2>1. TypeOK' /\ PlacesTyped'
    BY <1>0, <1>1, <1>3, <1>5 DEF TypeOK, PlacesTyped
  <2>2. ControlSound'
    BY <1>0, <1>1, <1>5 DEF ControlSound
  <2>3. PlacesSound'
    BY <1>0, <1>1, <1>5 DEF PlacesSound, Waiting, Held, Sent, Answered, ChannelsOf
  <2>4. WorkersSound'
    BY <1>0, <1>1, <1>5, WorkersKept
  <2>5. MessagesSound'
    BY <1>0, <1>1, <1>5 DEF MessagesSound, Truthful, Waiting
  <2> QED BY <1>2, <2>1, <2>2, <2>3, <2>4, <2>5 DEF IInv
<1>6. ASSUME Acceptable, NEW q \in Arrangements(request), queue' = q, cpc' = "spawn", UNCHANGED outcome
      PROVE  IInv'
  <2>1. request \in Seq(Channels)
    <3>1. request \in Seq(Nat) /\ Range(request) \subseteq Channels
      BY <1>1, <1>6, ChannelReadAssumption DEF TypeOK, Acceptable
    <3>2. request \in [1 .. Len(request) -> Channels] /\ Len(request) \in Nat
      BY <3>1, LenProperties DEF Range
    <3> QED BY <3>2
  <2>2. q \in Seq(Channels) /\ Range(q) = Range(request) /\ IsInjective(q)
    BY <1>6, <2>1, Rearranged DEF Acceptable
  <2>3. TypeOK' /\ PlacesTyped'
    BY <1>0, <1>1, <1>3, <1>6, <2>2 DEF TypeOK, PlacesTyped
  <2>4. ControlSound'
    BY <1>0, <1>1, <1>3, <1>6 DEF ControlSound
  <2>5. /\ Waiting' = Range(request) /\ Held' = {} /\ Sent' = {} /\ Answered' = {}
        /\ IsInjective(ChannelsOf(chan)') /\ IsInjective(ChannelsOf(reports)')
    <3>1. NoChannel \notin Channels
      BY ChannelReadAssumption DEF NoChannel
    <3>2. Held' = {}
      BY <1>0, <1>4, <3>1 DEF Held, Workers
    <3>3. Sent' = {} /\ Answered' = {}
      BY <1>0, <1>1 DEF Sent, Answered, ChannelsOf, Range
    <3>4. IsInjective(ChannelsOf(chan)') /\ IsInjective(ChannelsOf(reports)')
      BY <1>0, <1>1 DEF PlacesSound, ChannelsOf
    <3> QED BY <1>6, <2>2, <3>2, <3>3, <3>4 DEF Waiting
  <2>6. PlacesSound'
    BY <1>0, <1>4, <1>6, <2>2, <2>5 DEF PlacesSound, Workers
  <2>7. WorkersSound'
    <3> SUFFICES ASSUME NEW w \in Workers PROVE WorkerOk(w)'
      BY DEF WorkersSound, Workers
    <3> QED BY <1>0, <1>1, <1>4 DEF WorkersSound, WorkerOk, Holding, Reading
  <2>8. MessagesSound'
    <3>1. Waiting' \subseteq Channels
      BY <2>1, <2>5, LenProperties DEF Range
    <3> QED BY <1>0, <1>1, <3>1 DEF MessagesSound, Truthful
  <2> QED BY <1>2, <2>3, <2>4, <2>6, <2>7, <2>8 DEF IInv
<1> QED BY <1>5, <1>6 DEF Enter

\* One more worker is started.
LEMMA SpawnWorkerStep ==
  ASSUME IInv, SpawnWorker
  PROVE  IInv'
<1>0. /\ cpc = "spawn"
      /\ UNCHANGED <<request, queue, stop, knows, wpc, wch, pos, wave, wmsg, chan, seen, reports,
                     firstError, outcome>>
  BY DEF SpawnWorker, Pool, Work
<1>1. /\ TypeOK /\ PlacesTyped /\ ControlSound /\ PlacesSound /\ WorkersSound /\ MessagesSound
      /\ StopSound /\ outcome = "none" /\ Acceptable
      /\ EffectiveWorkers \in Nat /\ spawned \in Nat /\ spawned <= EffectiveWorkers
  BY <1>0, EffectiveBounds DEF IInv, ControlSound, TypeOK
<1>2. /\ EffectiveWorkers' = EffectiveWorkers /\ Acceptable' = Acceptable
  BY <1>0 DEF EffectiveWorkers, Acceptable
<1>3. /\ cpc' \in {"spawn", "receive"} /\ spawned' \in 0 .. EffectiveWorkers /\ spawned' >= spawned
      /\ cpc' = "receive" => spawned' = EffectiveWorkers
  <2>1. CASE spawned < EffectiveWorkers /\ spawned' = spawned + 1 /\ UNCHANGED cpc
    BY <1>0, <1>1, <2>1
  <2>2. CASE spawned = EffectiveWorkers /\ cpc' = "receive" /\ UNCHANGED spawned
    BY <1>1, <2>2
  <2> QED BY <2>1, <2>2 DEF SpawnWorker
<1>4. TypeOK' /\ PlacesTyped'
  BY <1>0, <1>1, <1>2, <1>3 DEF TypeOK, PlacesTyped
<1>5. ControlSound'
  BY <1>0, <1>1, <1>2, <1>3 DEF ControlSound
<1>6. PlacesSound'
  BY <1>0, <1>1, <1>3 DEF PlacesSound, Waiting, Held, Sent, Answered, ChannelsOf
<1>7. WorkersSound'
  <2>1. spawned' \in Nat
    BY <1>3
  <2> QED BY <1>0, <1>3, <2>1, WorkersKept
<1>8. MessagesSound'
  BY <1>0, <1>1 DEF MessagesSound, Truthful, Waiting
<1>9. StopSound'
  BY <1>0, <1>1 DEF StopSound, Cancelled, Ends, Workers
<1> QED BY <1>4, <1>5, <1>6, <1>7, <1>8, <1>9 DEF IInv

\* The caller stops receiving when every sender is gone.
LEMMA StopReceivingStep ==
  ASSUME IInv, StopReceiving
  PROVE  IInv'
<1>0. /\ cpc = "receive" /\ cpc' = "join" /\ chan = <<>> /\ AllGone
      /\ UNCHANGED <<request, spawned, queue, stop, knows, wpc, wch, pos, wave, wmsg, chan, seen,
                     reports, firstError, outcome>>
  BY DEF StopReceiving, Disconnected, Pool, Work
<1>1. /\ TypeOK /\ PlacesTyped /\ ControlSound /\ PlacesSound /\ MessagesSound /\ StopSound
  BY DEF IInv
<1>2. /\ EffectiveWorkers' = EffectiveWorkers /\ Acceptable' = Acceptable /\ AllGone' = AllGone
  BY <1>0 DEF EffectiveWorkers, Acceptable, AllGone, Gone
<1>3. TypeOK' /\ PlacesTyped'
  BY <1>0, <1>1, <1>2 DEF TypeOK, PlacesTyped
<1>4. ControlSound'
  BY <1>0, <1>1, <1>2 DEF ControlSound
<1>5. PlacesSound'
  BY <1>0, <1>1 DEF PlacesSound, Waiting, Held, Sent, Answered, ChannelsOf
<1>6. WorkersSound'
  <2>1. spawned \in Nat /\ spawned >= spawned
    BY <1>1, EffectiveBounds
  <2> QED BY <1>0, <2>1, WorkersKept
<1>7. MessagesSound'
  BY <1>0, <1>1 DEF MessagesSound, Truthful, Waiting
<1>8. StopSound'
  BY <1>0, <1>1 DEF StopSound, Cancelled, Ends, Workers
<1> QED BY <1>3, <1>4, <1>5, <1>6, <1>7, <1>8 DEF IInv

\* A channel moves from the result channel to the reports or to the first error.
LEMMA ReceiveStep ==
  ASSUME IInv, Receive
  PROVE  IInv'
<1>0. /\ cpc = "receive" /\ chan # <<>> /\ chan' = Tail(chan)
      /\ UNCHANGED <<request, cpc, spawned, queue, stop, knows, wpc, wch, pos, wave, wmsg, outcome,
                     seen>>
  BY DEF Receive, Work
<1>1. /\ TypeOK /\ PlacesTyped /\ ControlSound /\ PlacesSound /\ MessagesSound /\ StopSound
      /\ chan \in Seq(Messages) /\ reports \in Seq(Messages) /\ outcome = "none"
  BY <1>0 DEF IInv, TypeOK, ControlSound
<1>2. /\ Head(chan) \in Messages /\ Tail(chan) \in Seq(Messages)
      /\ Len(chan) \in Nat /\ Len(chan) >= 1 /\ DOMAIN chan = 1 .. Len(chan) /\ Head(chan) = chan[1]
      /\ DOMAIN chan' = 1 .. Len(chan) - 1 /\ \A i \in 1 .. Len(chan) - 1 : chan'[i] = chan[i + 1]
  BY <1>0, <1>1, HeadTailProperties, LenProperties, EmptySeq
<1>3. PICK m \in Messages : m = Head(chan)
  BY <1>2
<1>4. PICK c \in Channels : c = m.channel
  BY MessageFields
<1>5. /\ Sent' = Sent \ {c} /\ c \in Sent /\ IsInjective(ChannelsOf(chan)')
  <2>1. /\ ChannelsOf(Tail(chan)) = Tail(ChannelsOf(chan)) /\ Head(ChannelsOf(chan)) = c
        /\ ChannelsOf(chan) # <<>> /\ ChannelsOf(chan) \in Seq(Channels)
        /\ IsInjective(ChannelsOf(chan))
    BY <1>0, <1>1, <1>3, <1>4, ChannelsMove, ChannelsTyped DEF PlacesSound
  <2>2. ChannelsOf(chan)' = Tail(ChannelsOf(chan))
    BY <1>0, <2>1 DEF ChannelsOf
  <2> QED BY <2>1, <2>2, TailRange DEF Sent
<1>6. /\ Truthful(m) /\ \A i \in DOMAIN chan' : Truthful(chan'[i])
  <2>1. \A i \in 1 .. Len(chan) - 1 : i + 1 \in DOMAIN chan
    BY <1>2
  <2>2. 1 \in DOMAIN chan
    BY <1>2
  <2> QED BY <1>1, <1>2, <1>3, <2>1, <2>2 DEF MessagesSound
<1>7. \A i \in DOMAIN chan : chan[i] = m \/ \E j \in DOMAIN chan' : chan'[j] = chan[i]
  <2> SUFFICES ASSUME NEW i \in 1 .. Len(chan), i # 1
               PROVE  \E j \in DOMAIN chan' : chan'[j] = chan[i]
    BY <1>2, <1>3
  <2>1. i - 1 \in 1 .. Len(chan) - 1 /\ (i - 1) + 1 = i
    BY <1>2
  <2> QED BY <1>2, <2>1
<1>8. WorkersSound'
  <2>1. spawned \in Nat /\ spawned >= spawned
    BY <1>1, EffectiveBounds
  <2> QED BY <1>0, <2>1, WorkersKept
<1>9. /\ EffectiveWorkers' = EffectiveWorkers /\ Acceptable' = Acceptable
      /\ Waiting' = Waiting /\ Held' = Held
  BY <1>0 DEF EffectiveWorkers, Acceptable, Waiting, Held, Workers
<1>10. ControlSound'
  BY <1>0, <1>1, <1>9 DEF ControlSound
<1>11. CASE m.error = NoError /\ reports' = Append(reports, m) /\ UNCHANGED firstError
  <2>1. /\ reports' \in Seq(Messages) /\ Answered' = Answered \cup {c}
        /\ IsInjective(ChannelsOf(reports)')
    <3>1. /\ ChannelsOf(Append(reports, m)) = Append(ChannelsOf(reports), c)
          /\ ChannelsOf(reports) \in Seq(Channels) /\ IsInjective(ChannelsOf(reports))
      BY <1>1, <1>4, ChannelsMove, ChannelsTyped DEF PlacesSound
    <3>2. ChannelsOf(reports)' = Append(ChannelsOf(reports), c)
      BY <1>11, <3>1 DEF ChannelsOf
    <3>3. c \notin Range(ChannelsOf(reports))
      BY <1>1, <1>5 DEF PlacesSound, Answered
    <3>4. reports' \in Seq(Messages)
      BY <1>1, <1>11, AppendProperties
    <3> QED BY <3>1, <3>2, <3>3, <3>4, AppendRange DEF Answered
  <2>2. /\ DOMAIN reports \subseteq DOMAIN reports'
        /\ \A i \in DOMAIN reports : reports'[i] = reports[i]
        /\ \A i \in DOMAIN reports' : i \in DOMAIN reports \/ reports'[i] = m
        /\ \E i \in DOMAIN reports' : reports'[i] = m
    <3>1. /\ Len(reports) \in Nat /\ DOMAIN reports = 1 .. Len(reports)
          /\ DOMAIN reports' = 1 .. Len(reports) + 1 /\ reports'[Len(reports) + 1] = m
          /\ \A i \in 1 .. Len(reports) : reports'[i] = reports[i]
      BY <1>1, <1>11, <2>1, AppendProperties, LenProperties
    <3> QED BY <3>1
  <2>3. TypeOK' /\ PlacesTyped'
    BY <1>0, <1>1, <1>2, <1>9, <1>11, <2>1 DEF TypeOK, PlacesTyped
  <2>4. PlacesSound'
    <3>1. \A u, v \in Workers' : wch'[u] = wch'[v] /\ wch'[v] # NoChannel => u = v
      BY <1>0, <1>1 DEF PlacesSound, Workers
    <3> QED BY <1>0, <1>1, <1>5, <1>9, <1>11, <2>1, <3>1 DEF PlacesSound
  <2>5. MessagesSound'
    <3>1. \A i \in DOMAIN reports' : Truthful(reports'[i]) /\ reports'[i].error = NoError
      BY <1>1, <1>6, <1>11, <2>2 DEF MessagesSound
    <3> QED BY <1>0, <1>1, <1>6, <1>9, <3>1 DEF MessagesSound, Truthful
  <2>6. StopSound'
    <3> SUFFICES ASSUME stop
                 PROVE  \/ \E v \in Workers : wpc[v] = "send" /\ Ends(wmsg[v])
                        \/ \E i \in DOMAIN chan' : Ends(chan'[i])
                        \/ \E i \in DOMAIN reports' : reports'[i].cancelled
                        \/ firstError # NoError
      BY <1>0, <1>11 DEF StopSound, Cancelled, Ends, Workers
    <3>1. ASSUME NEW i \in DOMAIN chan, Ends(chan[i])
          PROVE  \/ \E j \in DOMAIN chan' : Ends(chan'[j])
                 \/ \E j \in DOMAIN reports' : reports'[j].cancelled
      <4>1. CASE chan[i] = m
        BY <1>11, <2>2, <3>1, <4>1 DEF Ends
      <4>2. CASE \E j \in DOMAIN chan' : chan'[j] = chan[i]
        BY <3>1, <4>2
      <4> QED BY <1>7, <4>1, <4>2
    <3>2. ASSUME Cancelled PROVE \E j \in DOMAIN reports' : reports'[j].cancelled
      BY <2>2, <3>2 DEF Cancelled
    <3> QED BY <1>1, <3>1, <3>2 DEF StopSound
  <2> QED BY <1>8, <1>10, <2>3, <2>4, <2>5, <2>6 DEF IInv
<1>12. CASE /\ m.error # NoError /\ UNCHANGED reports
            /\ firstError' = IF firstError = NoError THEN m.error ELSE firstError
  <2>1. firstError' # NoError /\ firstError' \in Errors \cup {NoError, "panic"}
    BY <1>1, <1>12, MessageFields DEF TypeOK
  <2>2. TypeOK' /\ PlacesTyped'
    BY <1>0, <1>1, <1>2, <1>9, <1>12, <2>1 DEF TypeOK, PlacesTyped
  <2>3. PlacesSound'
    <3>1. \A u, v \in Workers' : wch'[u] = wch'[v] /\ wch'[v] # NoChannel => u = v
      BY <1>0, <1>1 DEF PlacesSound, Workers
    <3>2. Answered' = Answered /\ ChannelsOf(reports)' = ChannelsOf(reports)
      BY <1>12 DEF Answered, ChannelsOf
    <3> QED BY <1>0, <1>1, <1>5, <1>9, <2>1, <3>1, <3>2 DEF PlacesSound
  <2>4. MessagesSound'
    BY <1>0, <1>1, <1>6, <1>9, <1>12 DEF MessagesSound, Truthful
  <2>5. StopSound'
    BY <2>1 DEF StopSound
  <2> QED BY <1>8, <1>10, <2>2, <2>3, <2>4, <2>5 DEF IInv
<1> QED BY <1>3, <1>11, <1>12 DEF Receive

\* The caller joins the workers, sorts the reports and returns.
LEMMA JoinStep ==
  ASSUME IInv, Join
  PROVE  IInv'
<1>0. /\ cpc = "join" /\ AllGone /\ firstError' = JoinError /\ cpc' = "done"
      /\ outcome' = IF firstError' = NoError THEN "ok" ELSE "error"
      /\ UNCHANGED <<request, spawned, queue, stop, knows, wpc, wch, pos, wave, wmsg, chan, seen>>
  BY DEF Join, Pool, Work
<1>1. /\ TypeOK /\ PlacesTyped /\ ControlSound /\ PlacesSound /\ MessagesSound /\ StopSound
      /\ reports \in Seq(Messages) /\ outcome = "none" /\ chan = <<>>
  BY <1>0 DEF IInv, TypeOK, ControlSound
<1>2. PICK r \in Arrangements(reports) : Ascending(ChannelsOf(r)) /\ reports' = r
  BY DEF Join
<1>3. /\ r \in Seq(Messages) /\ DOMAIN r = DOMAIN reports
  BY <1>1, <1>2, Rearranged
<1>4. PICK p \in Bijection(DOMAIN reports, DOMAIN reports) :
        \A i \in DOMAIN reports : r[i] = reports[p[i]]
  BY <1>1, <1>2, Rearranged
<1>5. /\ p \in [DOMAIN reports -> DOMAIN reports]
      /\ \A j \in DOMAIN reports : \E i \in DOMAIN reports : p[i] = j
  BY <1>4 DEF Bijection, Injection, Surjection
<1>6. Answered' = Answered /\ IsInjective(ChannelsOf(reports)')
  <2>1. /\ ChannelsOf(reports) \in Seq(Channels) /\ DOMAIN ChannelsOf(reports) = DOMAIN reports
        /\ \A i \in DOMAIN reports : ChannelsOf(reports)[i] = reports[i].channel
        /\ IsInjective(ChannelsOf(reports))
    BY <1>1, ChannelsTyped DEF PlacesSound
  <2>2. ChannelsOf(r) = [i \in DOMAIN ChannelsOf(reports) |-> ChannelsOf(reports)[p[i]]]
    BY <1>3, <1>4, <1>5, <2>1 DEF ChannelsOf
  <2>3. ChannelsOf(r) \in Arrangements(ChannelsOf(reports))
    BY <1>4, <2>1, <2>2 DEF Arrangements
  <2>4. /\ Range(ChannelsOf(r)) = Range(ChannelsOf(reports)) /\ IsInjective(ChannelsOf(r))
    BY <2>1, <2>3, Rearranged
  <2>5. ChannelsOf(reports)' = ChannelsOf(r)
    BY <1>2 DEF ChannelsOf
  <2> QED BY <2>4, <2>5 DEF Answered
<1>7. /\ \A i \in DOMAIN r : \E j \in DOMAIN reports : r[i] = reports[j]
      /\ \A j \in DOMAIN reports : \E i \in DOMAIN r : r[i] = reports[j]
  BY <1>3, <1>4, <1>5
<1>8. /\ firstError' \in Errors \cup {NoError, "panic"} /\ (firstError # NoError => firstError' # NoError)
      /\ firstError' = NoError => \A w \in 1 .. EffectiveWorkers : wpc[w] # "dead"
      /\ "panic" # NoError
  BY <1>0, <1>1 DEF JoinError, TypeOK, NoError
<1>9. /\ EffectiveWorkers' = EffectiveWorkers /\ Acceptable' = Acceptable /\ AllGone' = AllGone
      /\ Waiting' = Waiting /\ Held' = Held /\ Sent' = Sent
      /\ ChannelsOf(chan)' = ChannelsOf(chan)
  BY <1>0 DEF EffectiveWorkers, Acceptable, AllGone, Gone, Waiting, Held, Sent, ChannelsOf, Workers
<1>10. TypeOK' /\ PlacesTyped'
  BY <1>0, <1>1, <1>2, <1>3, <1>8, <1>9 DEF TypeOK, PlacesTyped
<1>11. ControlSound'
  <2>1. Ascending(ChannelsOf(reports))'
    BY <1>2 DEF Ascending, ChannelsOf
  <2>2. outcome' \in {"ok", "error"} /\ (outcome' = "ok" => firstError' = NoError)
    BY <1>0
  <2>3. \A w \in 1 .. EffectiveWorkers' : outcome' = "ok" => wpc'[w] # "dead"
    BY <1>0, <1>8, <1>9, <2>2
  <2> QED BY <1>0, <1>1, <1>9, <2>1, <2>2, <2>3 DEF ControlSound
<1>12. PlacesSound'
  <2>1. \A u, v \in Workers' : wch'[u] = wch'[v] /\ wch'[v] # NoChannel => u = v
    BY <1>0, <1>1 DEF PlacesSound, Workers
  <2> QED BY <1>0, <1>1, <1>6, <1>8, <1>9, <2>1 DEF PlacesSound
<1>13. WorkersSound'
  <2>1. spawned \in Nat /\ spawned >= spawned
    BY <1>1, EffectiveBounds
  <2> QED BY <1>0, <2>1, WorkersKept
<1>14. MessagesSound'
  <2>1. \A i \in DOMAIN r : Truthful(r[i]) /\ r[i].error = NoError
    BY <1>1, <1>7 DEF MessagesSound
  <2> QED BY <1>0, <1>1, <1>2, <1>9, <2>1 DEF MessagesSound, Truthful
<1>15. StopSound'
  <2>1. Cancelled => \E i \in DOMAIN r : r[i].cancelled
    BY <1>7 DEF Cancelled
  <2>2. Cancelled => Cancelled'
    BY <1>2, <2>1 DEF Cancelled
  <2> QED BY <1>0, <1>1, <1>8, <2>2 DEF StopSound, Ends, Workers
<1> QED BY <1>10, <1>11, <1>12, <1>13, <1>14, <1>15 DEF IInv
-----------------------------------------------------------------------------
(* The theorems.                                                           *)

\* Before the call nothing is queued, held, sent or answered.
LEMMA InitSound ==
  ASSUME Init
  PROVE  IInv
<1>1. request \in Requests /\ EffectiveWorkers \in Nat
  <2>1. request \in Seq(Nat) /\ ChannelWorkers \in Nat
    BY ChannelReadAssumption DEF Init
  <2> QED BY <2>1, SmallerOfTwo, LenProperties DEF Init, EffectiveWorkers
<1>2. NoChannel \notin Channels
  BY ChannelReadAssumption DEF NoChannel
<1>3. /\ <<>> \in Seq(Messages) /\ <<>> \in Seq(Channels)
  BY EmptySeq
<1>4. TypeOK /\ PlacesTyped
  <2>1. /\ knows \in [Workers -> BOOLEAN] /\ wpc \in [Workers -> WorkerPcs]
        /\ wch \in [Workers -> Channels \cup {NoChannel}]
        /\ wmsg \in [Workers -> Messages \cup {NoMessage}]
    BY DEF Init, WorkerPcs
  <2>2. pos \in [Workers -> Nat] /\ wave \in [Workers -> Nat] /\ seen \in [Channels -> Nat]
    BY DEF Init
  <2>3. \A w \in Workers : wch[w] = NoChannel
    BY DEF Init
  <2>4. spawned \in 0 .. EffectiveWorkers
    BY <1>1 DEF Init
  <2>5. stop \in BOOLEAN /\ queue \in Seq(Channels) /\ chan \in Seq(Messages)
        /\ reports \in Seq(Messages)
    BY <1>3 DEF Init
  <2> QED BY <1>1, <2>1, <2>2, <2>3, <2>4, <2>5 DEF Init, TypeOK, PlacesTyped
<1>5. ControlSound
  BY DEF Init, ControlSound
<1>6. PlacesSound
  <2>1. Waiting = {} /\ Sent = {} /\ Answered = {} /\ Held = {}
    BY <1>2 DEF Init, Waiting, Sent, Answered, Held, ChannelsOf, Range
  <2>2. IsInjective(queue) /\ IsInjective(ChannelsOf(chan)) /\ IsInjective(ChannelsOf(reports))
    BY DEF Init, IsInjective, ChannelsOf
  <2> QED BY <2>1, <2>2 DEF Init, PlacesSound
<1>7. WorkersSound
  BY DEF Init, WorkersSound, WorkerOk, Holding, Reading
<1>8. MessagesSound /\ StopSound
  BY DEF Init, MessagesSound, StopSound, Waiting, Range
<1> QED BY <1>4, <1>5, <1>6, <1>7, <1>8 DEF IInv

\* Every step of the caller or a worker keeps the invariant.
LEMMA StepSound ==
  ASSUME IInv, [Next]_vars
  PROVE  IInv'
<1>1. CASE CallerStep
  BY <1>1, EnterStep, SpawnWorkerStep, ReceiveStep, StopReceivingStep, JoinStep DEF CallerStep
<1>2. ASSUME NEW w \in Workers, WorkerStep(w) PROVE IInv'
  BY <1>2, WorkerKeepsIInv
<1>3. CASE UNCHANGED vars
  <2>0. UNCHANGED <<request, cpc, spawned, queue, stop, knows, wpc, wch, pos, wave, wmsg, chan,
                    reports, firstError, outcome, seen>>
    BY <1>3 DEF vars
  <2>1. TypeOK' /\ PlacesTyped'
    BY <2>0 DEF IInv, TypeOK, PlacesTyped, EffectiveWorkers
  <2>2. ControlSound'
    BY <2>0 DEF IInv, ControlSound, Acceptable, EffectiveWorkers, AllGone, Gone, Ascending, ChannelsOf
  <2>3. PlacesSound'
    BY <2>0, PlacesKept DEF IInv
  <2>4. WorkersSound'
    <3>1. spawned \in Nat /\ spawned >= spawned
      BY EffectiveBounds DEF IInv
    <3> QED BY <2>0, <3>1, WorkersKept
  <2>5. MessagesSound' /\ StopSound'
    BY <2>0 DEF IInv, MessagesSound, StopSound, Truthful, Ends, Cancelled, Waiting, Workers
  <2> QED BY <2>1, <2>2, <2>3, <2>4, <2>5 DEF IInv
<1> QED BY <1>1, <1>2, <1>3 DEF Next

\* The inductive invariant of read_compact_l2_physical_v2_inputs_with_resource_limits.
THEOREM ChannelInvariant == Spec => []IInv
<1>1. Init => IInv
  BY InitSound
<1>2. IInv /\ [Next]_vars => IInv'
  BY StepSound
<1> QED BY <1>1, <1>2, PTL DEF Spec

\* The four sets of channels, as places.
LEMMA OnePlace ==
  ASSUME IInv
  PROVE  ChannelInOnePlace
<1>0. /\ TypeOK /\ PlacesSound /\ chan \in Seq(Messages) /\ reports \in Seq(Messages)
      /\ Channels \subseteq Nat \ {0}
  BY ChannelReadAssumption DEF IInv, TypeOK
<1>1. /\ DOMAIN ChannelsOf(chan) = DOMAIN chan /\ DOMAIN ChannelsOf(reports) = DOMAIN reports
      /\ \A i \in DOMAIN chan : ChannelsOf(chan)[i] = chan[i].channel
      /\ \A i \in DOMAIN reports : ChannelsOf(reports)[i] = reports[i].channel
  BY <1>0, ChannelsTyped
<1> SUFFICES ASSUME cpc # "enter", outcome # "invalid_input", NEW c \in Range(request)
             PROVE  /\ \A p, q \in Places(c) : p = q
                    /\ Places(c) = {} => firstError # NoError
  BY DEF ChannelInOnePlace
<1>2. c \in Channels /\ c # NoChannel
  <2>1. Acceptable /\ request \in Requests
    BY DEF IInv, ControlSound, TypeOK
  <2> QED BY <1>0, <2>1, ChannelReadAssumption DEF Acceptable, NoChannel
<1>3. /\ c \in Waiting <=> \E i \in DOMAIN queue : queue[i] = c
      /\ c \in Held <=> \E w \in Workers : wch[w] = c
      /\ c \in Sent <=> \E i \in DOMAIN chan : chan[i].channel = c
      /\ c \in Answered <=> \E i \in DOMAIN reports : reports[i].channel = c
  <2>1. c \in Waiting <=> \E i \in DOMAIN queue : queue[i] = c
    BY DEF Waiting, Range
  <2>2. c \in Held <=> \E w \in Workers : wch[w] = c
    BY <1>2 DEF Held
  <2>3. c \in Sent <=> \E i \in DOMAIN chan : chan[i].channel = c
    BY <1>1 DEF Sent, Range
  <2>4. c \in Answered <=> \E i \in DOMAIN reports : reports[i].channel = c
    BY <1>1 DEF Answered, Range
  <2> QED BY <2>1, <2>2, <2>3, <2>4
<1>4. /\ \A i, j \in DOMAIN queue : queue[i] = c /\ queue[j] = c => i = j
      /\ \A v, w \in Workers : wch[v] = c /\ wch[w] = c => v = w
      /\ \A i, j \in DOMAIN chan : chan[i].channel = c /\ chan[j].channel = c => i = j
      /\ \A i, j \in DOMAIN reports : reports[i].channel = c /\ reports[j].channel = c => i = j
  BY <1>0, <1>1, <1>2 DEF PlacesSound, IsInjective
<1>5. ASSUME NEW p \in Places(c), NEW q \in Places(c) PROVE p = q
  <2>1. /\ ~(c \in Waiting /\ c \in Held) /\ ~(c \in Waiting /\ c \in Sent)
        /\ ~(c \in Waiting /\ c \in Answered) /\ ~(c \in Held /\ c \in Sent)
        /\ ~(c \in Held /\ c \in Answered) /\ ~(c \in Sent /\ c \in Answered)
    BY <1>0 DEF PlacesSound
  <2>2. CASE c \in Waiting
    <3>1. \A x \in Places(c) : \E i \in DOMAIN queue : queue[i] = c /\ x = <<"queue", i>>
      BY <1>3, <2>1, <2>2 DEF Places
    <3> QED BY <1>4, <3>1
  <2>3. CASE c \in Held
    <3>1. \A x \in Places(c) : \E w \in Workers : wch[w] = c /\ x = <<"worker", w>>
      BY <1>3, <2>1, <2>3 DEF Places
    <3> QED BY <1>4, <3>1
  <2>4. CASE c \in Sent
    <3>1. \A x \in Places(c) : \E i \in DOMAIN chan : chan[i].channel = c /\ x = <<"chan", i>>
      BY <1>3, <2>1, <2>4 DEF Places
    <3> QED BY <1>4, <3>1
  <2>5. CASE c \in Answered
    <3>1. \A x \in Places(c) : \E i \in DOMAIN reports :
            reports[i].channel = c /\ x = <<"reports", i>>
      BY <1>3, <2>1, <2>5 DEF Places
    <3> QED BY <1>4, <3>1
  <2>6. c \in Waiting \/ c \in Held \/ c \in Sent \/ c \in Answered
    BY <1>3 DEF Places
  <2> QED BY <2>2, <2>3, <2>4, <2>5, <2>6
<1>6. ASSUME firstError = NoError PROVE Places(c) # {}
  <2>1. c \in Waiting \/ c \in Held \/ c \in Sent \/ c \in Answered
    BY <1>0, <1>6 DEF PlacesSound
  <2>2. /\ \A i \in DOMAIN queue : queue[i] = c => <<"queue", i>> \in Places(c)
        /\ \A w \in Workers : wch[w] = c => <<"worker", w>> \in Places(c)
        /\ \A i \in DOMAIN chan : chan[i].channel = c => <<"chan", i>> \in Places(c)
        /\ \A i \in DOMAIN reports : reports[i].channel = c => <<"reports", i>> \in Places(c)
    BY DEF Places
  <2> QED BY <1>3, <2>1, <2>2
<1> QED BY <1>5, <1>6

\* What holds when the call succeeds: the workers that ran are gone and did not
\* panic, and the flag was only set by a visitor.
LEMMA SuccessSound ==
  ASSUME IInv, outcome = "ok"
  PROVE  /\ \A w \in Workers : wpc[w] # "dead" /\ wpc[w] # "send" /\ wch[w] = NoChannel
         /\ stop => Cancelled
         /\ stop \/ queue = <<>>
<1>0. /\ TypeOK /\ ControlSound /\ WorkersSound /\ MessagesSound /\ StopSound /\ chan = <<>> /\ AllGone
      /\ spawned = EffectiveWorkers /\ firstError = NoError
      /\ \A w \in 1 .. EffectiveWorkers : wpc[w] # "dead"
  BY DEF IInv, ControlSound
<1>1. EffectiveWorkers \in 1 .. ChannelWorkers /\ ChannelWorkers \in Nat
  BY <1>0, EffectiveBounds
<1>2. ASSUME NEW w \in Workers
      PROVE  wpc[w] \in {"exited", "idle"} /\ wch[w] = NoChannel
  <2>1. CASE w \in 1 .. EffectiveWorkers
    <3>1. wpc[w] = "exited"
      BY <1>0, <2>1 DEF AllGone, Gone
    <3> QED BY <1>0, <3>1 DEF WorkersSound, WorkerOk, Holding, Reading
  <2>2. CASE w > spawned
    BY <1>0, <2>2 DEF WorkersSound, WorkerOk, Holding, Reading
  <2>3. w \in 1 .. EffectiveWorkers \/ w > spawned
    BY <1>0, <1>1 DEF Workers
  <2> QED BY <2>1, <2>2, <2>3
<1>3. stop => Cancelled
  BY <1>0, <1>2 DEF StopSound
<1>4. stop \/ queue = <<>>
  <2>1. 1 \in 1 .. EffectiveWorkers /\ 1 \in Workers
    BY <1>1 DEF Workers
  <2>2. wpc[1] = "exited"
    BY <1>0, <2>1 DEF AllGone, Gone
  <2> QED BY <1>0, <2>1, <2>2 DEF WorkersSound, WorkerOk
<1>5. \A w \in Workers : wpc[w] # "dead" /\ wpc[w] # "send" /\ wch[w] = NoChannel
  BY <1>2
<1> QED BY <1>3, <1>4, <1>5

\* A success without a cancelled report answers every channel in full.
LEMMA UncancelledSound ==
  ASSUME IInv
  PROVE  UncancelledIsComplete
<1> SUFFICES ASSUME outcome = "ok", ~Cancelled
             PROVE  /\ Range(ChannelsOf(reports)) = Range(request)
                    /\ Ascending(ChannelsOf(reports)) /\ IsInjective(ChannelsOf(reports))
                    /\ \A c \in Range(request) : seen[c] = Planned(c)
  BY DEF UncancelledIsComplete
<1>0. /\ ControlSound /\ PlacesSound /\ MessagesSound /\ TypeOK /\ NoChannel \notin Channels
      /\ reports \in Seq(Messages)
  BY ChannelReadAssumption DEF IInv, TypeOK, NoChannel
<1>1. /\ chan = <<>> /\ firstError = NoError /\ Ascending(ChannelsOf(reports)) /\ cpc = "done"
  BY <1>0 DEF ControlSound
<1>2. queue = <<>> /\ \A w \in Workers : wch[w] = NoChannel
  BY SuccessSound
<1>3. Waiting = {} /\ Sent = {} /\ Held = {}
  BY <1>0, <1>1, <1>2 DEF Waiting, Sent, Held, ChannelsOf, Range
<1>4. Answered = Range(request)
  BY <1>0, <1>1, <1>3 DEF PlacesSound
<1>5. ASSUME NEW c \in Range(request) PROVE seen[c] = Planned(c)
  <2>1. PICK i \in DOMAIN reports : reports[i].channel = c
    BY <1>0, <1>4, ChannelsTyped DEF Answered, Range
  <2>2. reports[i].error = NoError /\ ~reports[i].cancelled /\ Truthful(reports[i])
    BY <1>0 DEF MessagesSound, Cancelled
  <2> QED BY <2>1, <2>2 DEF Truthful
<1> QED BY <1>0, <1>1, <1>4, <1>5 DEF Answered, PlacesSound

\* For every request, number of workers and plan, and however the workers and the
\* calling thread interleave: no channel is lost or answered twice, no failure or
\* panic is swallowed, and a call that succeeds without saying that it was
\* cancelled has shown the visitor every planned batch of every channel.
THEOREM ChannelReportsAreTrue == Spec => []ReportsAreTrue
<1>1. IInv => ReportsAreTrue
  <2> SUFFICES ASSUME IInv PROVE ReportsAreTrue
    OBVIOUS
  <2>1. TypeOK /\ ChannelInOnePlace /\ UncancelledIsComplete
    BY OnePlace, UncancelledSound DEF IInv
  <2>2. FailureSurfaces
    BY SuccessSound DEF FailureSurfaces
  <2> QED BY <2>1, <2>2 DEF ReportsAreTrue
<1> QED BY <1>1, ChannelInvariant, PTL
-----------------------------------------------------------------------------
(* The memory of the waves.                                                *)

\* A worker that opened its channel reads waves of the plan, one after the other,
\* and each of those was found to fit the share; so does what is left of the wave
\* it holds.
WaveOk(w) ==
  /\ wpc[w] = "open" => pos[w] = 0
  /\ wpc[w] \in {"wave", "poll", "visit", "tell"} => EveryWaveFits(wch[w])
  /\ wpc[w] = "wave" => AllHandedOver(w) \/ pos[w] % WaveSize = 0
  /\ wpc[w] \in {"poll", "visit"} =>
       \E n \in 0 .. pos[w] : n % WaveSize = 0 /\ wave[w] = WaveEnd(wch[w], n)
  /\ wch[w] # NoChannel => WaveBytes(wch[w], pos[w], wave[w]) <= Share
WavesSound == \A w \in Workers : WaveOk(w)

\* The bytes of any row groups of a channel are a number, none of them weigh
\* nothing, and fewer weigh no more.
LEMMA WaveBytesBounds ==
  ASSUME NEW c \in Channels, NEW m \in Nat, NEW n \in Nat, NEW k \in 0 .. Planned(c), m <= n
  PROVE  /\ WaveBytes(c, n, k) \in Nat
         /\ WaveBytes(c, n, k) <= WaveBytes(c, m, k)
         /\ k <= n => WaveBytes(c, n, k) = 0
<1>1. Footprint[c] \in Seq(Nat) /\ Planned(c) \in Nat /\ DOMAIN Footprint[c] = 1 .. Planned(c)
  BY ChannelReadAssumption, LenProperties DEF Planned
<1>2. \A i \in 1 .. Planned(c) : Footprint[c][i] \in Nat
  BY <1>1, ElementOfSeq DEF Planned
<1>3. /\ IsFiniteSet(m + 1 .. k) /\ IsFiniteSet(n + 1 .. k) /\ n + 1 .. k \in SUBSET (m + 1 .. k)
      /\ \A i \in m + 1 .. k : Footprint[c][i] \in Nat
  <2>1. m + 1 .. k \subseteq 1 .. Planned(c) /\ n + 1 .. k \subseteq m + 1 .. k
    BY <1>1
  <2>2. m + 1 \in Int /\ n + 1 \in Int /\ k \in Int
    BY <1>1
  <2> QED BY <1>2, <2>1, <2>2, FS_Interval
<1>4. WaveBytes(c, n, k) \in Nat
  BY <1>3, SumIsNatural DEF WaveBytes
<1>5. WaveBytes(c, n, k) <= WaveBytes(c, m, k)
  BY <1>3, SumOfPart DEF WaveBytes
<1>6. ASSUME k <= n PROVE WaveBytes(c, n, k) = 0
  <2>1. n + 1 .. k = {}
    BY <1>1, <1>6
  <2> QED BY <2>1, SumOfNothing DEF WaveBytes
<1> QED BY <1>4, <1>5, <1>6

\* Each of as many workers as there are gets its part of the budget.
LEMMA SharesFit ==
  ASSUME TypeOK
  PROVE  Share \in Nat /\ Share * EffectiveWorkers <= Budget
<1>1. EffectiveWorkers \in Nat \ {0} /\ Budget \in Nat
  BY EffectiveBounds, ChannelReadAssumption
<1>2. ASSUME NEW b \in Nat, NEW k \in Nat \ {0} PROVE b \div k \in Nat /\ (b \div k) * k <= b
  OBVIOUS
<1> QED BY <1>1, <1>2 DEF Share

\* A worker that holds no wave, and a channel that is just taken, weigh nothing.
LEMMA WeighsNothing ==
  ASSUME IInv, NEW c \in Channels, NEW n \in Nat
  PROVE  WaveBytes(c, n, 0) <= Share
<1>1. Planned(c) \in Nat /\ Share \in Nat
  BY SharesFit, ChannelReadAssumption, LenProperties DEF Planned, IInv
<1>2. WaveBytes(c, n, 0) = 0
  BY <1>1, WaveBytesBounds
<1> QED BY <1>1, <1>2

\* Division with remainder, and what is a multiple of the divisor has none.
LEMMA Divides ==
  ASSUME NEW n \in Nat, NEW b \in Nat \ {0}
  PROVE  n = b * (n \div b) + (n % b) /\ n % b \in 0 .. b - 1 /\ n \div b \in Nat
OBVIOUS

LEMMA NoRemainder ==
  ASSUME NEW b \in Nat \ {0}, NEW q \in Nat, NEW r \in 0 .. b - 1, NEW p \in Nat,
         b * q + r = b * p
  PROVE  r = 0
<1>1. CASE q >= p
  <2>1. PICK d \in Nat : q = p + d
    BY <1>1
  <2>2. b * q = b * p + b * d /\ b * d \in Nat /\ b * p \in Nat
    BY <2>1
  <2> QED BY <2>2
<1>2. CASE q < p
  <2>1. PICK d \in Nat : p = q + 1 + d
    <3>1. p - q - 1 \in Nat /\ p = q + 1 + (p - q - 1)
      BY <1>2
    <3> QED BY <3>1
  <2>2. b * p = b * q + b + b * d /\ b * d \in Nat /\ b * q \in Nat
    BY <2>1
  <2> QED BY <2>2
<1> QED BY <1>1, <1>2

\* The first wave starts where a wave may, and so does the next.
LEMMA FirstWave == 0 % WaveSize = 0
<1>1. WaveSize \in Nat \ {0} /\ WaveSize * 0 = 0
  BY ChannelReadAssumption
<1>2. /\ 0 = WaveSize * (0 \div WaveSize) + (0 % WaveSize)
      /\ 0 % WaveSize \in 0 .. WaveSize - 1 /\ 0 \div WaveSize \in Nat
  BY <1>1, Divides
<1> QED BY <1>1, <1>2, NoRemainder

LEMMA NextWave ==
  ASSUME NEW n \in Nat, n % WaveSize = 0
  PROVE  (n + WaveSize) % WaveSize = 0
<1> DEFINE b == WaveSize
<1>0. b \in Nat \ {0}
  BY ChannelReadAssumption
<1>1. n % b = 0
  OBVIOUS
<1> HIDE DEF b
<1>2. n = b * (n \div b) + (n % b) /\ n \div b \in Nat
  BY <1>0, Divides
<1>3. n + b = b * (n \div b + 1) /\ n \div b + 1 \in Nat
  BY <1>0, <1>1, <1>2
<1>4. (n + b) % b = 0
  <2>1. n + b \in Nat
    BY <1>0
  <2>2. /\ n + b = b * ((n + b) \div b) + ((n + b) % b)
        /\ (n + b) % b \in 0 .. b - 1 /\ (n + b) \div b \in Nat
    BY <1>0, <2>1, Divides
  <2> QED BY <1>0, <1>3, <2>2, NoRemainder
<1> QED BY <1>4 DEF b

\* A worker that reads no wave keeps within its share.
LEMMA HoldsNone ==
  ASSUME IInv, NEW w \in Workers, request' = request,
         wpc'[w] \notin {"open", "wave", "poll", "visit", "tell"},
         wch'[w] \in Channels \cup {NoChannel}, pos'[w] \in Nat, wave'[w] = 0
  PROVE  WaveOk(w)'
<1>1. Share' = Share
  BY DEF Share, EffectiveWorkers
<1>2. wch'[w] # NoChannel => WaveBytes(wch'[w], pos'[w], 0) <= Share
  BY WeighsNothing
<1> QED BY <1>1, <1>2 DEF WaveOk, WaveBytes

\* A worker that does not move keeps within its share.
LEMMA HoldsAsMuch ==
  ASSUME NEW w \in Workers, WaveOk(w), request' = request,
         wpc'[w] = wpc[w], wch'[w] = wch[w], pos'[w] = pos[w], wave'[w] = wave[w]
  PROVE  WaveOk(w)'
<1>1. Share' = Share
  BY DEF Share, EffectiveWorkers
<1> QED BY <1>1 DEF WaveOk, WaveBytes, EveryWaveFits, AllHandedOver

\* A step of a worker moves no other.
LEMMA OnlyItself ==
  ASSUME IInv, NEW w \in Workers, WorkerStep(w), NEW v \in Workers, v # w
  PROVE  /\ wpc'[v] = wpc[v] /\ wch'[v] = wch[v] /\ pos'[v] = pos[v] /\ wave'[v] = wave[v]
         /\ request' = request
<1>1. /\ wpc \in [Workers -> WorkerPcs] /\ wch \in [Workers -> Channels \cup {NoChannel}]
      /\ pos \in [Workers -> Nat] /\ wave \in [Workers -> Nat]
  BY DEF IInv, TypeOK, PlacesTyped
<1>2. CASE CheckStop(w) \/ TakeNone(w) \/ RaiseStop(w)
  BY <1>1, <1>2 DEF CheckStop, TakeNone, RaiseStop, Goto, Work, Caller
<1>3. CASE Take(w) \/ Send(w)
  BY <1>1, <1>3 DEF Take, Send, Goto, Work, Caller
<1>4. CASE Open(w) \/ ReadWave(w)
  BY <1>1, <1>4 DEF Open, ReadWave, Goto, Returns, Work, Caller
<1>5. CASE PollStop(w) \/ TellOthers(w) \/ Complete(w)
  BY <1>1, <1>5 DEF PollStop, TellOthers, Complete, HandOver, EndEarly, Goto, Returns, Caller
<1>6. CASE Visit(w)
  BY <1>1, <1>6 DEF Visit, HandOver, AfterBatch, Goto, Returns, Caller
<1> QED BY <1>2, <1>3, <1>4, <1>5, <1>6 DEF WorkerStep

\* The channel read returns: its wave is given up.
LEMMA ReturnHoldsNone ==
  ASSUME IInv, NEW w \in Workers, NEW m, Returns(w, m), request' = request, wch' = wch,
         pos'[w] \in Nat
  PROVE  WaveOk(w)'
<1>1. /\ wpc \in [Workers -> WorkerPcs] /\ wch \in [Workers -> Channels \cup {NoChannel}]
      /\ wave \in [Workers -> Nat]
  BY DEF IInv, TypeOK, PlacesTyped
<1>2. wave'[w] = 0 /\ wpc'[w] \in {"send", "fail"}
  BY <1>1 DEF Returns, Goto
<1> QED BY <1>1, <1>2, HoldsNone

\* A file is opened and its waves are found to fit, or the channel fails.
LEMMA OpenHolds ==
  ASSUME IInv, NEW w \in Workers, WaveOk(w), Open(w)
  PROVE  WaveOk(w)'
<1>0. /\ wpc[w] = "open" /\ request' = request /\ wch' = wch /\ pos' = pos /\ pos[w] \in Nat
      /\ wpc \in [Workers -> WorkerPcs] /\ Share' = Share
  BY DEF Open, At, Caller, IInv, TypeOK, PlacesTyped, Share, EffectiveWorkers
<1>1. ASSUME NEW e, Returns(w, Failure(wch[w], e)) PROVE WaveOk(w)'
  BY <1>0, <1>1, ReturnHoldsNone
<1>2. CASE EveryWaveFits(wch[w]) /\ Goto(w, "wave") /\ UNCHANGED <<wmsg, wave>>
  <2>1. wpc'[w] = "wave" /\ pos[w] = 0
    BY <1>0, <1>2 DEF Goto, WaveOk
  <2>2. pos'[w] % WaveSize = 0
    <3>1. 0 % WaveSize = 0
      BY FirstWave
    <3> QED BY <1>0, <2>1, <3>1
  <2> QED BY <1>0, <1>2, <2>1, <2>2 DEF WaveOk, EveryWaveFits, WaveBytes
<1> QED BY <1>1, <1>2 DEF Open

\* A wave is read, as the plan has it, or the channel fails.
LEMMA ReadWaveHolds ==
  ASSUME IInv, NEW w \in Workers, WaveOk(w), ReadWave(w)
  PROVE  WaveOk(w)'
<1>0. /\ wpc[w] = "wave" /\ request' = request /\ wch' = wch /\ pos' = pos /\ pos[w] \in Nat
      /\ wpc \in [Workers -> WorkerPcs] /\ wave \in [Workers -> Nat] /\ Share' = Share
      /\ ~AllHandedOver(w)
  BY DEF ReadWave, At, Caller, IInv, TypeOK, PlacesTyped, Share, EffectiveWorkers
<1>1. CASE Returns(w, Failure(wch[w], "read"))
  BY <1>0, <1>1, ReturnHoldsNone
<1>2. CASE wave' = [wave EXCEPT ![w] = WaveEnd(wch[w], pos[w])] /\ Goto(w, "poll")
  <2>1. wpc'[w] = "poll" /\ wave'[w] = WaveEnd(wch[w], pos[w])
    BY <1>0, <1>2 DEF Goto
  <2>2. EveryWaveFits(wch[w]) /\ pos[w] % WaveSize = 0
    BY <1>0 DEF WaveOk
  <2>3. pos[w] \in 0 .. Planned(wch[w])
    BY <1>0, HolderFields DEF Holding, Reading
  <2>4. WaveBytes(wch[w], pos[w], WaveEnd(wch[w], pos[w])) <= Share
    BY <2>2, <2>3 DEF EveryWaveFits
  <2>5. pos[w] \in 0 .. pos[w]
    BY <1>0
  <2> QED BY <1>0, <2>1, <2>2, <2>4, <2>5 DEF WaveOk, EveryWaveFits, WaveBytes, WaveEnd
<1> QED BY <1>1, <1>2 DEF ReadWave

\* A batch is handed over: what is left of its wave is less, and when nothing is
\* left the next wave begins or the channel is done.
LEMMA HandOverHolds ==
  ASSUME IInv, NEW w \in Workers, WaveOk(w), wpc[w] = "visit", HandOver(w),
         NEW there \in {"wave", "poll", "tell"}, Goto(w, there),
         there = "wave" => pos[w] + 1 = wave[w],
         UNCHANGED <<request, wch, wave>>
  PROVE  WaveOk(w)'
<1>0. /\ wpc \in [Workers -> WorkerPcs] /\ pos \in [Workers -> Nat] /\ Share' = Share
      /\ EveryWaveFits(wch[w]) /\ WaveSize \in Nat \ {0}
  BY ChannelReadAssumption DEF IInv, TypeOK, PlacesTyped, Share, EffectiveWorkers, WaveOk
<1>1. /\ wch[w] \in Channels /\ Planned(wch[w]) \in Nat /\ pos[w] \in Nat
      /\ wave[w] \in 0 .. Planned(wch[w]) /\ wch[w] # NoChannel
  BY HolderFields DEF Holding, Reading
<1>2. wpc'[w] = there /\ pos'[w] = pos[w] + 1
  BY <1>0 DEF HandOver, Goto
<1>3. PICK n \in 0 .. pos[w] : n % WaveSize = 0 /\ wave[w] = WaveEnd(wch[w], n)
  BY DEF WaveOk
<1>4. WaveBytes(wch[w], pos[w] + 1, wave[w]) <= Share
  <2>1. WaveBytes(wch[w], pos[w], wave[w]) <= Share
    BY <1>1 DEF WaveOk
  <2>2. /\ WaveBytes(wch[w], pos[w] + 1, wave[w]) <= WaveBytes(wch[w], pos[w], wave[w])
        /\ WaveBytes(wch[w], pos[w] + 1, wave[w]) \in Nat
        /\ WaveBytes(wch[w], pos[w], wave[w]) \in Nat
    <3>1. pos[w] + 1 \in Nat /\ pos[w] <= pos[w] + 1 /\ pos[w] <= pos[w]
      BY <1>1
    <3> QED BY <1>1, <3>1, WaveBytesBounds
  <2>3. Share \in Nat
    BY SharesFit DEF IInv
  <2> QED BY <2>1, <2>2, <2>3
<1>5. there = "wave" => pos[w] + 1 = Planned(wch[w]) \/ (pos[w] + 1) % WaveSize = 0
  <2> SUFFICES ASSUME there = "wave", pos[w] + 1 # Planned(wch[w])
               PROVE  (pos[w] + 1) % WaveSize = 0
    OBVIOUS
  <2>1. n \in Nat /\ n + WaveSize \in Nat
    BY <1>0, <1>1
  <2>2. WaveEnd(wch[w], n) \in {n + WaveSize, Planned(wch[w])}
    BY <1>1, <2>1, SmallerOfTwo DEF WaveEnd
  <2>3. pos[w] + 1 = n + WaveSize
    BY <1>3, <2>2
  <2> QED BY <1>3, <2>1, <2>3, NextWave
<1>6. there = "poll" => n \in 0 .. pos'[w]
  BY <1>1, <1>2
<1>7. WaveEnd(wch[w], n)' = WaveEnd(wch[w], n) /\ Planned(wch[w])' = Planned(wch[w])
  BY DEF WaveEnd, Planned
<1> QED BY <1>0, <1>2, <1>3, <1>4, <1>5, <1>6, <1>7
        DEF WaveOk, EveryWaveFits, WaveBytes, WaveEnd, AllHandedOver, Planned

\* The visitor continues, stops, fails or panics.
LEMMA VisitHolds ==
  ASSUME IInv, NEW w \in Workers, WaveOk(w), Visit(w)
  PROVE  WaveOk(w)'
<1>0. /\ wpc[w] = "visit" /\ request' = request /\ wch' = wch /\ pos[w] \in Nat
      /\ wpc \in [Workers -> WorkerPcs] /\ wave \in [Workers -> Nat]
      /\ wch[w] \in Channels \cup {NoChannel}
  BY DEF Visit, At, Caller, IInv, TypeOK, PlacesTyped
<1>1. CASE HandOver(w) /\ AfterBatch(w) /\ UNCHANGED <<wave, wmsg>>
  <2>1. CASE pos[w] + 1 = wave[w]
    BY <1>0, <1>1, <2>1, HandOverHolds DEF AfterBatch
  <2>2. CASE pos[w] + 1 # wave[w]
    BY <1>0, <1>1, <2>2, HandOverHolds DEF AfterBatch
  <2> QED BY <2>1, <2>2
<1>2. CASE HandOver(w) /\ Goto(w, "tell") /\ UNCHANGED <<wave, wmsg>>
  BY <1>0, <1>2, HandOverHolds
<1>3. ASSUME NEW e, Returns(w, Failure(wch[w], e)), UNCHANGED <<pos, seen>> PROVE WaveOk(w)'
  BY <1>0, <1>3, ReturnHoldsNone
<1>4. CASE Goto(w, "dead") /\ wave' = [wave EXCEPT ![w] = 0] /\ UNCHANGED <<pos, wmsg, seen>>
  <2>1. wpc'[w] = "dead" /\ wave'[w] = 0
    BY <1>0, <1>4 DEF Goto
  <2> QED BY <1>0, <1>4, <2>1, HoldsNone
<1> QED BY <1>1, <1>2, <1>3, <1>4 DEF Visit

\* The flag is polled: the read ends, or the visitor is called next.
LEMMA PollStopHolds ==
  ASSUME IInv, NEW w \in Workers, WaveOk(w), PollStop(w)
  PROVE  WaveOk(w)'
<1>0. /\ wpc[w] = "poll" /\ request' = request /\ wch' = wch /\ Share' = Share
      /\ wpc \in [Workers -> WorkerPcs] /\ pos \in [Workers -> Nat] /\ pos[w] \in Nat
  BY DEF PollStop, At, Caller, IInv, TypeOK, PlacesTyped, Share, EffectiveWorkers
<1>1. CASE HandOver(w) /\ EndEarly(w, pos[w] + 1)
  <2>1. pos'[w] \in Nat
    BY <1>0, <1>1 DEF HandOver
  <2> QED BY <1>0, <1>1, <2>1, ReturnHoldsNone DEF EndEarly
<1>2. CASE Goto(w, "visit") /\ UNCHANGED <<pos, wave, wmsg>>
  <2>1. wpc'[w] = "visit"
    BY <1>0, <1>2 DEF Goto
  <2> QED BY <1>0, <1>2, <2>1 DEF WaveOk, EveryWaveFits, WaveBytes, WaveEnd, Planned
<1> QED BY <1>1, <1>2 DEF PollStop

\* A channel is taken, with nothing of it read, or sent off.
LEMMA TakeHolds ==
  ASSUME IInv, NEW w \in Workers, Take(w) \/ Send(w)
  PROVE  WaveOk(w)'
<1>0. /\ request' = request /\ Share' = Share /\ queue \in Seq(Channels)
      /\ wpc \in [Workers -> WorkerPcs] /\ wave \in [Workers -> Nat] /\ pos \in [Workers -> Nat]
      /\ wch \in [Workers -> Channels \cup {NoChannel}] /\ Channels \subseteq Nat \ {0}
  BY ChannelReadAssumption
     DEF Take, Send, Caller, IInv, TypeOK, PlacesTyped, Share, EffectiveWorkers
<1>1. CASE Take(w)
  <2>1. wpc'[w] = "open" /\ pos'[w] = 0 /\ wave'[w] = 0 /\ wch'[w] = Head(queue)
    BY <1>0, <1>1 DEF Take, Goto
  <2>2. Head(queue) \in Channels
    BY <1>0, <1>1, HeadTailProperties DEF Take
  <2>3. WaveBytes(wch'[w], 0, 0) <= Share
    BY <2>1, <2>2, WeighsNothing
  <2> QED BY <1>0, <2>1, <2>3 DEF WaveOk, WaveBytes
<1>2. CASE Send(w)
  <2>1. wpc'[w] = "idle" /\ wch'[w] = NoChannel
    BY <1>0, <1>2 DEF Send, Goto
  <2> QED BY <2>1 DEF WaveOk
<1> QED BY <1>1, <1>2

\* Before and after a channel a worker moves without one, or with its result only.
LEMMA RestHolds ==
  ASSUME IInv, NEW w \in Workers, WaveOk(w), CheckStop(w) \/ TakeNone(w) \/ RaiseStop(w)
  PROVE  WaveOk(w)'
<1>1. /\ UNCHANGED <<request, wch, pos, wave>> /\ Share' = Share
      /\ wpc'[w] \in {"exited", "take", "send"}
  BY DEF CheckStop, TakeNone, RaiseStop, Caller, Work, Goto, IInv, TypeOK, Share, EffectiveWorkers
<1> QED BY <1>1 DEF WaveOk, WaveBytes

\* Every step keeps every worker within its share.
LEMMA WavesSoundStep ==
  ASSUME IInv, WavesSound, [Next]_vars
  PROVE  WavesSound'
<1>1. ASSUME NEW w \in Workers, WorkerStep(w) PROVE WavesSound'
  <2>0. WaveOk(w)
    BY <1>1 DEF WavesSound
  <2>1. WaveOk(w)'
    <3>1. CASE Complete(w) \/ TellOthers(w)
      <4>1. ASSUME NEW m, Returns(w, m), UNCHANGED <<request, wch, pos>> PROVE WaveOk(w)'
        <5>1. pos'[w] \in Nat
          BY <4>1 DEF IInv, PlacesTyped
        <5> QED BY <4>1, <5>1, ReturnHoldsNone
      <4> QED BY <3>1, <4>1 DEF Complete, TellOthers, EndEarly, Caller
    <3> QED BY <1>1, <2>0, <3>1, OpenHolds, ReadWaveHolds, VisitHolds, PollStopHolds, TakeHolds,
               RestHolds DEF WorkerStep
  <2>2. ASSUME NEW v \in Workers, v # w PROVE WaveOk(v)'
    <3>1. WaveOk(v)
      BY DEF WavesSound
    <3> QED BY <1>1, <2>2, <3>1, OnlyItself, HoldsAsMuch
  <2>3. ASSUME NEW v \in Workers PROVE WaveOk(v)'
    BY <2>1, <2>2
  <2> QED BY <2>3 DEF WavesSound, Workers
<1>2. CASE CallerStep \/ UNCHANGED vars
  <2>1. UNCHANGED <<request, wpc, wch, pos, wave>>
    BY <1>2 DEF CallerStep, Enter, SpawnWorker, Receive, StopReceiving, Join, Pool, Work, vars
  <2>2. ASSUME NEW v \in Workers PROVE WaveOk(v)'
    <3>1. WaveOk(v)
      BY DEF WavesSound
    <3> QED BY <2>1, <3>1, HoldsAsMuch
  <2> QED BY <2>2 DEF WavesSound, Workers
<1> QED BY <1>1, <1>2 DEF Next

\* The workers' shares add up to no more than the budget: those that hold a wave
\* are among the ones the budget was divided by.
LEMMA SharesAddUp ==
  ASSUME IInv, WavesSound
  PROVE  BudgetHeld
<1> DEFINE held == [w \in Workers |-> HeldBy(w)]
           Started == 1 .. EffectiveWorkers
<1>1. /\ EffectiveWorkers \in 1 .. ChannelWorkers /\ spawned \in 0 .. EffectiveWorkers
      /\ ChannelWorkers \in Nat \ {0}
  BY EffectiveBounds DEF IInv, TypeOK
<1>2. ASSUME NEW w \in Workers PROVE held[w] \in Nat /\ held[w] <= Share
  <2>1. Share \in Nat /\ WaveOk(w)
    BY SharesFit DEF IInv, WavesSound
  <2>2. CASE wch[w] = NoChannel
    BY <2>1, <2>2 DEF HeldBy
  <2>3. CASE wch[w] # NoChannel
    <3>1. /\ wch[w] \in Channels /\ pos[w] \in Nat /\ wave[w] \in 0 .. Planned(wch[w])
      BY <2>3 DEF IInv, TypeOK, PlacesTyped
    <3>2. WaveBytes(wch[w], pos[w], wave[w]) \in Nat
      <4>1. pos[w] <= pos[w]
        BY <3>1
      <4> QED BY <3>1, <4>1, WaveBytesBounds
    <3> QED BY <2>1, <2>3, <3>2 DEF HeldBy, WaveOk
  <2> QED BY <2>2, <2>3
<1>3. ASSUME NEW w \in Workers \ Started PROVE held[w] = 0
  <2>1. w > spawned
    BY <1>1 DEF Workers
  <2>2. wch[w] = NoChannel
    BY <2>1 DEF IInv, WorkersSound, WorkerOk, Holding, Reading
  <2> QED BY <2>2 DEF HeldBy
<1>4. /\ IsFiniteSet(Workers) /\ IsFiniteSet(Started) /\ Cardinality(Started) = EffectiveWorkers
      /\ Started \in SUBSET Workers
  <2>1. 1 \in Int /\ EffectiveWorkers \in Nat /\ ChannelWorkers \in Int
    BY <1>1
  <2>2. IsFiniteSet(Workers)
    BY <2>1, FS_Interval DEF Workers
  <2>3. IsFiniteSet(Started) /\ Cardinality(Started) = EffectiveWorkers
    BY <2>1, FS_Interval
  <2> QED BY <1>1, <2>2, <2>3 DEF Workers
<1>5. DOMAIN held = Workers
  OBVIOUS
<1> HIDE DEF held
<1>6. SumFunctionOnSet(held, Workers) = SumFunctionOnSet(held, Started)
  <2>1. /\ \A w \in Workers : held[w] \in Int
        /\ \A w \in Workers \ Started : held[w] = 0
    BY <1>2, <1>3
  <2> QED BY <1>4, <2>1, SumOfSupport
<1>7. SumFunctionOnSet(held, Started) <= Share * EffectiveWorkers
  <2>1. Share \in Nat /\ \A w \in Started : held[w] \in Nat /\ held[w] <= Share
    BY <1>2, <1>4, SharesFit DEF IInv
  <2>2. SumFunctionOnSet(held, Started) <= Share * Cardinality(Started)
    BY <1>4, <2>1, SumIsBounded
  <2> QED BY <1>4, <2>2
<1>8. SumFunctionOnSet(held, Started) <= Budget
  <2>1. Share \in Nat /\ Share * EffectiveWorkers <= Budget /\ EffectiveWorkers \in Nat /\ Budget \in Nat
    BY <1>1, SharesFit, ChannelReadAssumption DEF IInv
  <2>2. SumFunctionOnSet(held, Started) \in Nat /\ Share * EffectiveWorkers \in Nat
    <3>1. \A w \in Started : held[w] \in Nat
      BY <1>2, <1>4
    <3> QED BY <1>4, <2>1, <3>1, SumIsNatural
  <2> QED BY <1>7, <2>1, <2>2
<1>9. HeldBytes = SumFunctionOnSet(held, Workers)
  BY <1>5 DEF HeldBytes, SumFunction, held
<1> QED BY <1>6, <1>8, <1>9 DEF BudgetHeld

\* For every budget, number of workers, request and set of plans, and however the
\* threads interleave, the waves that the workers hold at one time fit the budget
\* of the operation.
THEOREM ChannelBudgetHeld == Spec => []BudgetHeld
<1>1. Init => WavesSound
  <2> SUFFICES ASSUME Init PROVE WavesSound
    OBVIOUS
  <2>1. \A w \in Workers : wch[w] = NoChannel /\ wpc[w] = "idle"
    BY DEF Init
  <2> QED BY <2>1 DEF WavesSound, WaveOk
<1>2. IInv /\ WavesSound /\ [Next]_vars => WavesSound'
  BY WavesSoundStep
<1>3. IInv /\ WavesSound => BudgetHeld
  BY SharesAddUp
<1> QED BY <1>1, <1>2, <1>3, ChannelInvariant, PTL DEF Spec
=============================================================================
