--------------------------- MODULE CanStackProofs ---------------------------
(***************************************************************************)
(* A channel under ComM, CanSM and CanNm, for every set of controllers and *)
(* users, every configuration and every setting of the times: what ComM    *)
(* takes the channel for, and the wake-ups it is told of.                  *)
(***************************************************************************)
EXTENDS CanStack, CanSMLemmas

\* What ComM's functions work on has the fields that matter here, and CanSM is well
Fields ==
  {"NmVariant", "Mode", "requestPending", "lastRequestedMode", "EcuMWkUpIndication"}
WorldOK(w) ==
  /\ {"ch", "sm", "nm"} \subseteq DOMAIN w /\ Fields \subseteq DOMAIN w.ch
  /\ w.ch.NmVariant \in {"FULL", "PASSIVE", "LIGHT", "NONE"}
  /\ w.ch.Mode \in ComMode /\ w.ch.requestPending \in BOOLEAN
  /\ w.ch.EcuMWkUpIndication \in BOOLEAN
  /\ SMOK(w.sm)

\* A request ComM awaits the indication of while the channel is without communication is
\* one for full communication
PendingOK(w) == w.ch.Mode = "NO" /\ w.ch.requestPending => w.ch.lastRequestedMode = "FULL"

\* What a function of ComM does that is not told a mode by CanSM: it may ask CanSM for
\* one, and enters full communication or stays; a wake-up gets lost only there
Follows(v, w) ==
  /\ WorldOK(w) /\ Tells(v.sm, w.sm)
  /\ w.ch.Mode \in {v.ch.Mode, "FULL"}
  /\ v.ch.EcuMWkUpIndication => w.ch.EcuMWkUpIndication \/ w.ch.Mode = "FULL"

\* Calls that follow one another follow from the first.
LEMMA FollowsTrans ==
  ASSUME NEW u, NEW v, NEW w, Follows(u, v), Follows(v, w)
  PROVE  Follows(u, w)
BY DEF Follows, Tells

\* An update of the other fields of the channel, and of network management
SameFields(c, d) == Fields \subseteq DOMAIN d /\ \A f \in Fields : d[f] = c[f]
Alike(v, w) ==
  {"ch", "sm", "nm"} \subseteq DOMAIN w /\ w.sm = v.sm /\ SameFields(v.ch, w.ch)

\* A call that touches only what the invariant does not concern keeps it.
LEMMA AlikeOK ==
  ASSUME NEW v, WorldOK(v), NEW w, Alike(v, w)
  PROVE  Follows(v, w) /\ (PendingOK(v) => PendingOK(w)) /\ w.ch.Mode = v.ch.Mode
BY DEF Alike, SameFields, Fields, WorldOK, PendingOK, Follows, Tells

\* A change of the rest of the channel is such a call.
LEMMA AlikeUpdate ==
  ASSUME NEW v, WorldOK(v), NEW c, SameFields(v.ch, c), NEW w, w = [v EXCEPT !.ch = c]
  PROVE  Alike(v, w)
BY DEF Alike, WorldOK

\* Such calls, one after the other, are one.
LEMMA AlikeTrans ==
  ASSUME NEW u, NEW v, NEW w, Alike(u, v), Alike(v, w)
  PROVE  Alike(u, w)
BY DEF Alike, SameFields

\* Nm.c hands an indication of network management on to ComM.
LEMMA IndicatedAlike ==
  ASSUME NEW v, WorldOK(v)
  PROVE  Alike(v, Indicated(v))
<1>1. CASE v.nm.ind = "none"
  BY <1>1 DEF Indicated, Alike, SameFields, WorldOK
<1>2. CASE v.nm.ind # "none"
  <2>. DEFINE i == IF v.nm.ind = "NETWORK_START" THEN "RESTART" ELSE v.nm.ind
              c == ComM_Nm_Indication(v.ch, i)
  <2>1. Indicated(v) = [v EXCEPT !.nm.ind = "none", !.ch = c]
    BY <1>2 DEF Indicated
  <2>2. Fields \subseteq DOMAIN c /\ \A f \in Fields : c[f] = v.ch[f]
    BY DEF ComM_Nm_Indication, Fields, WorldOK
  <2>. HIDE DEF c
  <2>. QED BY <2>1, <2>2 DEF Alike, SameFields, WorldOK
<1>. QED BY <1>1, <1>2

\* A call of network management.
LEMMA NmCallAlike ==
  ASSUME NEW v, WorldOK(v), NEW r
  PROVE  Alike(v, NmCall(v, r).w) /\ {"ok", "w"} \subseteq DOMAIN NmCall(v, r)
<1>. DEFINE u == [v EXCEPT !.nm = r.nm]
<1>1. Alike(v, u)
  BY DEF Alike, SameFields, WorldOK
<1>2. NmCall(v, r).w = Indicated(u) /\ {"ok", "w"} \subseteq DOMAIN NmCall(v, r)
  BY DEF NmCall
<1>. HIDE DEF u
<1>. QED BY <1>1, <1>2, AlikeOK, AlikeTrans, IndicatedAlike DEF Follows

\* ComM asks CanSM for a mode: CanSM notes the request or refuses it.
LEMMA PropagateOK ==
  ASSUME NEW v, WorldOK(v), NEW mode \in ComMode
  PROVE  LET r == PropagateComMode(v, mode) IN
         /\ Follows(v, r.w) /\ r.w.ch.Mode = v.ch.Mode
         /\ r.w.ch.lastRequestedMode = v.ch.lastRequestedMode
         /\ r.ok \in BOOLEAN /\ r.w.ch.requestPending = (v.ch.requestPending \/ r.ok)
<1>. DEFINE q == CanSM_RequestComMode(v.sm, mode)
            p == v.ch.requestPending \/ q.ok
            c == [v.ch EXCEPT !.requestPending = p]
            w == [v EXCEPT !.sm = q.sm, !.ch = c]
<1>1. SMOK(q.sm) /\ Tells(v.sm, q.sm)
  BY RequestComModeSound DEF WorldOK
<1>2. q.ok \in BOOLEAN
  BY DEF CanSM_RequestComMode
<1>3. PropagateComMode(v, mode).ok = q.ok /\ PropagateComMode(v, mode).w = w
  BY DEF PropagateComMode, WorldOK
<1>. HIDE DEF q
<1>4. p \in BOOLEAN
  OBVIOUS
<1>. HIDE DEF p
<1>5. /\ Fields \subseteq DOMAIN c /\ c.requestPending = p
      /\ \A f \in Fields \ {"requestPending"} : c[f] = v.ch[f]
  BY DEF Fields, WorldOK
<1>6. c.Mode = v.ch.Mode /\ c.lastRequestedMode = v.ch.lastRequestedMode
      /\ c.EcuMWkUpIndication = v.ch.EcuMWkUpIndication /\ c.NmVariant = v.ch.NmVariant
  BY <1>5 DEF Fields
<1>. HIDE DEF c
<1>7. w.ch = c /\ w.sm = q.sm /\ {"ch", "sm", "nm"} \subseteq DOMAIN w
  BY DEF WorldOK
<1>. HIDE DEF w
<1>. QED BY <1>1, <1>2, <1>3, <1>4, <1>5, <1>6, <1>7 DEF Follows, WorldOK, p

\* Network management is told of a channel in full communication only.
LEMMA NotifyNmOK ==
  ASSUME NEW v, WorldOK(v), NEW recovery
  PROVE  LET w == NotifyNm(v, recovery).w IN
         /\ Follows(v, w) /\ w.ch.Mode = v.ch.Mode /\ (PendingOK(v) => PendingOK(w))
         /\ v.ch.Mode # "FULL" => w = v
<1>. DEFINE r == NotifyNm(v, recovery)
            Clear(q) == [q EXCEPT !.w.ch.EcuMWkUpIndication = FALSE,
                                  !.w.ch.nwStartIndication = FALSE]
            nothing == [ok |-> TRUE, w |-> v]
<1>1. CASE v.ch.Mode # "FULL"
  <2>1. r = nothing
    BY <1>1 DEF NotifyNm
  <2>. QED BY <2>1 DEF Follows, Tells
<1>2. CASE v.ch.Mode = "FULL"
  <2>1. ASSUME NEW n
        PROVE  LET w == Clear(NmCall(v, n)).w IN Follows(v, w) /\ w.ch.Mode = "FULL"
    <3>. DEFINE q == NmCall(v, n)
                u == q.w
                c == [u.ch EXCEPT !.EcuMWkUpIndication = FALSE, !.nwStartIndication = FALSE]
                w == [u EXCEPT !.ch = c]
    <3>1. Follows(v, u) /\ u.ch.Mode = "FULL" /\ {"ok", "w"} \subseteq DOMAIN q
      BY <1>2, NmCallAlike, AlikeOK
    <3>. HIDE DEF q
    <3>2. Clear(q).w = w
      BY <3>1, Zenon DEF Follows, WorldOK
    <3>. HIDE DEF u
    <3>3. /\ Fields \subseteq DOMAIN c /\ c.EcuMWkUpIndication = FALSE /\ c.Mode = u.ch.Mode
          /\ c.requestPending = u.ch.requestPending /\ c.NmVariant = u.ch.NmVariant
      BY <3>1 DEF Follows, WorldOK, Fields
    <3>. HIDE DEF c
    <3>4. w.ch = c /\ w.sm = u.sm /\ {"ch", "sm", "nm"} \subseteq DOMAIN w
      BY <3>1 DEF Follows, WorldOK
    <3>. HIDE DEF w
    <3>5. Follows(v, w) /\ w.ch.Mode = "FULL"
      BY <1>2, <3>1, <3>3, <3>4, Zenon DEF Follows, WorldOK
    <3>. QED BY <3>2, <3>5 DEF q
  <2>2. ASSUME NEW n
        PROVE  LET w == NmCall(v, n).w IN Follows(v, w) /\ w.ch.Mode = "FULL"
    BY <1>2, NmCallAlike, AlikeOK
  <2>. DEFINE c1 == [v.ch EXCEPT !.FullComMinDurationTimeLeft = COMM_T_MIN_FULL_COM_MODE_DURATION,
                                 !.fullComMinDurationTimerStopped = FALSE]
              c2 == [v.ch EXCEPT !.LightTimeoutTimeLeft = LightTimeout,
                                 !.nmLightTimeoutTimerStopped = FALSE]
  <2>3. ASSUME NEW c \in {c1, c2}
        PROVE  LET w == [v EXCEPT !.ch = c] IN Follows(v, w) /\ w.ch.Mode = "FULL"
    <3>. DEFINE w == [v EXCEPT !.ch = c]
    <3>1. Fields \subseteq DOMAIN c /\ \A f \in Fields : c[f] = v.ch[f]
      BY Zenon DEF WorldOK, Fields
    <3>. HIDE DEF c1, c2
    <3>2. Alike(v, w)
      BY <3>1 DEF Alike, SameFields, WorldOK
    <3>. HIDE DEF w
    <3>3. Follows(v, w) /\ w.ch.Mode = "FULL"
      BY <1>2, <3>2, AlikeOK
    <3>. QED BY <3>3 DEF w
  <2>4. \/ r.w = v
        \/ \E n : r.w = Clear(NmCall(v, n)).w
        \/ \E n : r.w = NmCall(v, n).w
        \/ \E c \in {c1, c2} : r.w = [v EXCEPT !.ch = c]
    <3>1. CASE v.ch.NmVariant \in {"FULL", "PASSIVE"}
      <4>1. r = nothing \/ (\E n : r = Clear(NmCall(v, n))) \/ (\E n : r = NmCall(v, n))
        BY <1>2, <3>1, Zenon DEF NotifyNm
      <4>. HIDE DEF r, Clear
      <4>. QED BY <4>1
    <3>2. CASE v.ch.NmVariant \in {"LIGHT", "NONE"}
      <4>. DEFINE r1 == [nothing EXCEPT
                           !.w.ch.FullComMinDurationTimeLeft = COMM_T_MIN_FULL_COM_MODE_DURATION,
                           !.w.ch.fullComMinDurationTimerStopped = FALSE]
                  r2 == [nothing EXCEPT !.w.ch.LightTimeoutTimeLeft = LightTimeout,
                                        !.w.ch.nmLightTimeoutTimerStopped = FALSE]
      <4>1. r = nothing \/ r = r1 \/ r = r2
        BY <1>2, <3>2 DEF NotifyNm
      <4>2. r1.w = [v EXCEPT !.ch = c1] /\ r2.w = [v EXCEPT !.ch = c2] /\ nothing.w = v
        BY Zenon DEF WorldOK
      <4>. HIDE DEF r, r1, r2, nothing, c1, c2
      <4>. QED BY <4>1, <4>2, Zenon
    <3>. QED BY <3>1, <3>2, Zenon DEF WorldOK
  <2>5. Follows(v, v)
    BY DEF Follows, Tells
  <2>. HIDE DEF r, Clear, c1, c2
  <2>6. Follows(v, r.w) /\ r.w.ch.Mode = "FULL"
    BY <1>2, <2>1, <2>2, <2>3, <2>4, <2>5, Zenon
  <2>. QED BY <1>2, <2>6 DEF PendingOK, r
<1>. QED BY <1>1, <1>2

\* The internal requests of a channel are not what the invariant concerns.
LEMMA ServedSame ==
  ASSUME NEW c, Fields \subseteq DOMAIN c, NEW isRequest
  PROVE  SameFields(c, Served(c, isRequest)) /\ SameFields(c, resetInternalStateRequests(c))
BY DEF Served, resetInternalStateRequests, SameFields, Fields

\* A mode is asked for: the request is served once CanSM has accepted it.
LEMMA EnterOK ==
  ASSUME NEW v, WorldOK(v), NEW mode \in ComMode, NEW isRequest
  PROVE  LET w == Enter(v, mode, isRequest) IN
         /\ Follows(v, w) /\ w.ch.Mode = v.ch.Mode
         /\ PendingOK(v) /\ (mode = "FULL" \/ v.ch.Mode # "NO") => PendingOK(w)
<1>. DEFINE r == PropagateComMode(v, mode)
            u == r.w
            d == [u.ch EXCEPT !.lastRequestedMode = mode]
            c == Served(d, isRequest)
            w == [u EXCEPT !.ch = c]
<1>1. /\ Follows(v, u) /\ u.ch.Mode = v.ch.Mode
      /\ u.ch.lastRequestedMode = v.ch.lastRequestedMode
      /\ r.ok \in BOOLEAN /\ u.ch.requestPending = (v.ch.requestPending \/ r.ok)
  BY PropagateOK
<1>2. Enter(v, mode, isRequest) = IF r.ok THEN w ELSE u
  BY DEF Enter
<1>. HIDE DEF r, u
<1>3. /\ Fields \subseteq DOMAIN d /\ d.lastRequestedMode = mode
      /\ d.Mode = u.ch.Mode /\ d.requestPending = u.ch.requestPending
      /\ d.EcuMWkUpIndication = u.ch.EcuMWkUpIndication /\ d.NmVariant = u.ch.NmVariant
  BY <1>1 DEF Follows, WorldOK, Fields
<1>. HIDE DEF d
<1>4. SameFields(d, c)
  BY <1>3, ServedSame
<1>. HIDE DEF c
<1>5. w.ch = c /\ w.sm = u.sm /\ {"ch", "sm", "nm"} \subseteq DOMAIN w
  BY <1>1 DEF Follows, WorldOK
<1>. HIDE DEF w
<1>6. /\ Fields \subseteq DOMAIN w.ch /\ w.ch.lastRequestedMode = mode
      /\ w.ch.Mode = u.ch.Mode /\ w.ch.requestPending = u.ch.requestPending
      /\ w.ch.EcuMWkUpIndication = u.ch.EcuMWkUpIndication
      /\ w.ch.NmVariant = u.ch.NmVariant
  BY <1>3, <1>4, <1>5 DEF SameFields, Fields
<1>7. CASE r.ok
  BY <1>1, <1>2, <1>5, <1>6, <1>7, Zenon DEF Follows, WorldOK, PendingOK
<1>8. CASE ~r.ok
  BY <1>1, <1>2, <1>8 DEF Follows, WorldOK, PendingOK
<1>. QED BY <1>1, <1>7, <1>8

\* The two ways of keeping the network awake: requested, or ready to sleep.
LEMMA NetworkRequestedOK ==
  ASSUME NEW v, WorldOK(v), PendingOK(v), NEW isRequest
  PROVE  LET w == Enter_NetworkRequested(v, isRequest) IN Follows(v, w) /\ PendingOK(w)
<1>. DEFINE sub == CASE v.ch.SubMode = "NO_COM_NO_PENDING_REQUEST" -> "NO_COM_REQUEST_PENDING"
                     [] v.ch.SubMode = "FULL_COM_READY_SLEEP" -> "FULL_COM_NETWORK_REQUESTED"
                     [] OTHER -> v.ch.SubMode
            c1 == [v.ch EXCEPT !.SubMode = sub]
            w1 == [v EXCEPT !.ch = c1]
            w2 == IF v.ch.SubMode = "FULL_COM_READY_SLEEP" THEN NotifyNm(w1, FALSE).w ELSE w1
            w3 == Enter(w2, "FULL", isRequest)
            b == w3.ch.nwStartIndication
                 \/ (PropagateComMode(w2, "FULL").ok /\ ~isRequest
                     /\ ~w3.ch.EcuMWkUpIndication /\ ~w3.ch.DCM_Requested)
            c4 == [w3.ch EXCEPT !.nwStartIndication = b]
            w4 == [w3 EXCEPT !.ch = c4]
<1>1. Enter_NetworkRequested(v, isRequest) = IF ~v.ch.CommunicationAllowed THEN w2 ELSE w4
  BY DEF Enter_NetworkRequested
<1>. HIDE DEF sub
<1>2. SameFields(v.ch, c1)
  BY DEF SameFields, Fields, WorldOK
<1>. HIDE DEF c1
<1>3. Alike(v, w1)
  BY <1>2, AlikeUpdate
<1>. HIDE DEF w1
<1>4. Follows(v, w1) /\ PendingOK(w1)
  BY <1>3, AlikeOK
<1>5. Follows(v, w2) /\ PendingOK(w2)
  <2>. DEFINE n == NotifyNm(w1, FALSE).w
  <2>1. WorldOK(w1)
    BY <1>4 DEF Follows
  <2>2. Follows(w1, n) /\ (PendingOK(w1) => PendingOK(n))
    BY ONLY <2>1, NotifyNmOK, Zenon
  <2>3. w2 \in {w1, n}
    OBVIOUS
  <2>. HIDE DEF n, w2
  <2>. QED BY <1>4, <2>2, <2>3, FollowsTrans
<1>. HIDE DEF w2
<1>6. Follows(v, w3) /\ PendingOK(w3)
  BY <1>5, EnterOK, FollowsTrans DEF Follows, ComMode
<1>. HIDE DEF w3, b
<1>7. SameFields(w3.ch, c4)
  BY <1>6 DEF SameFields, Fields, Follows, WorldOK
<1>. HIDE DEF c4
<1>8. Follows(v, w4) /\ PendingOK(w4)
  BY <1>6, <1>7, AlikeUpdate, AlikeOK, FollowsTrans, Zenon DEF Follows
<1>. QED BY <1>1, <1>5, <1>8

\* Entering Ready Sleep leaves the channel in full communication.
LEMMA ReadySleepOK ==
  ASSUME NEW v, WorldOK(v), NEW isRequest
  PROVE  LET w == Enter_ReadySleep(v, isRequest)
         IN Follows(v, w) /\ PendingOK(w) /\ w.ch.Mode = "FULL"
<1>. DEFINE c == [v.ch EXCEPT !.Mode = "FULL", !.lastRequestedMode = "FULL",
                              !.SubMode = "FULL_COM_READY_SLEEP"]
            u == [v EXCEPT !.ch = c]
            r == NotifyNm(u, FALSE)
            t == r.w
            d == Served(t.ch, isRequest)
            w == [t EXCEPT !.ch = d]
<1>1. Enter_ReadySleep(v, isRequest) = IF r.ok THEN w ELSE t
  BY Zenon DEF Enter_ReadySleep, WorldOK
<1>2. /\ Fields \subseteq DOMAIN c /\ c.Mode = "FULL" /\ c.requestPending = v.ch.requestPending
      /\ c.EcuMWkUpIndication = v.ch.EcuMWkUpIndication /\ c.NmVariant = v.ch.NmVariant
  BY DEF Fields, WorldOK
<1>. HIDE DEF c
<1>3. u.ch = c /\ u.sm = v.sm /\ {"ch", "sm", "nm"} \subseteq DOMAIN u
  BY DEF WorldOK
<1>. HIDE DEF u
<1>4. Follows(v, u)
  BY <1>2, <1>3 DEF Follows, WorldOK, Tells, ComMode
<1>5. Follows(v, t) /\ t.ch.Mode = "FULL"
  <2>1. WorldOK(u)
    BY <1>4 DEF Follows
  <2>2. Follows(u, t) /\ t.ch.Mode = u.ch.Mode
    BY ONLY <2>1, NotifyNmOK, Zenon DEF r, t
  <2>. QED BY <1>2, <1>3, <1>4, <2>2, FollowsTrans, Zenon
<1>. HIDE DEF r, t
<1>6. Alike(t, w)
  BY <1>5, ServedSame, AlikeUpdate DEF Follows, WorldOK
<1>. HIDE DEF w
<1>7. Follows(v, w) /\ w.ch.Mode = "FULL"
  BY <1>5, <1>6, AlikeOK, FollowsTrans DEF Follows
<1>. QED BY <1>1, <1>5, <1>7 DEF PendingOK

\* ComM looks at the channel again, from each of the three modes.
LEMMA UpdateFromNoComOK ==
  ASSUME NEW v, WorldOK(v), PendingOK(v), v.ch.Mode = "NO", NEW isRequest
  PROVE  LET w == UpdateFromNoCom(v, isRequest) IN Follows(v, w) /\ PendingOK(w)
<1>. DEFINE w1 == [v EXCEPT !.ch = resetInternalStateRequests(@)]
            w2 == Enter_NetworkRequested(v, isRequest)
            e == Enter(v, "NO", isRequest)
            c == [e.ch EXCEPT !.SubMode = "NO_COM_NO_PENDING_REQUEST", !.requestPending = FALSE]
            w3 == [e EXCEPT !.ch = c]
<1>1. Follows(v, v)
  BY DEF Follows, Tells
<1>2. Follows(v, w1) /\ PendingOK(w1)
  <2>. DEFINE d == resetInternalStateRequests(v.ch)
  <2>1. SameFields(v.ch, d)
    BY ServedSame DEF WorldOK
  <2>2. w1 = [v EXCEPT !.ch = d]
    OBVIOUS
  <2>. HIDE DEF d, w1
  <2>. QED BY <2>1, <2>2, AlikeUpdate, AlikeOK
<1>3. Follows(v, w2) /\ PendingOK(w2)
  BY NetworkRequestedOK
<1>4. Follows(v, w3) /\ PendingOK(w3)
  <2>1. Follows(v, e) /\ e.ch.Mode = "NO"
    BY EnterOK DEF ComMode
  <2>. HIDE DEF e
  <2>2. /\ Fields \subseteq DOMAIN c /\ c.Mode = "NO" /\ c.requestPending = FALSE
        /\ c.EcuMWkUpIndication = e.ch.EcuMWkUpIndication /\ c.NmVariant = e.ch.NmVariant
    BY <2>1 DEF Fields, Follows, WorldOK
  <2>. HIDE DEF c
  <2>3. w3.ch = c /\ w3.sm = e.sm /\ {"ch", "sm", "nm"} \subseteq DOMAIN w3
    BY <2>1 DEF Follows, WorldOK
  <2>. HIDE DEF w3
  <2>. QED BY <2>1, <2>2, <2>3, Zenon DEF Follows, WorldOK, PendingOK
<1>5. UpdateFromNoCom(v, isRequest) \in {v, w1, w2, w3}
  BY Zenon DEF UpdateFromNoCom, WorldOK
<1>. HIDE DEF w1, w2, w3
<1>. QED BY <1>1, <1>2, <1>3, <1>4, <1>5

\* The transitions of ComM from silent communication.
LEMMA UpdateFromSilentComOK ==
  ASSUME NEW v, WorldOK(v), PendingOK(v), v.ch.Mode = "SILENT", NEW isRequest
  PROVE  LET w == UpdateFromSilentCom(v, isRequest) IN Follows(v, w) /\ PendingOK(w)
<1>. DEFINE w1 == Enter(v, "NO", isRequest)
            w2 == Enter_ReadySleep(v, isRequest)
            w3 == Enter_NetworkRequested(v, isRequest)
<1>1. Follows(v, v)
  BY DEF Follows, Tells
<1>2. Follows(v, w1) /\ PendingOK(w1)
  BY EnterOK DEF ComMode
<1>3. Follows(v, w2) /\ PendingOK(w2)
  BY ReadySleepOK
<1>4. Follows(v, w3) /\ PendingOK(w3)
  BY NetworkRequestedOK
<1>5. UpdateFromSilentCom(v, isRequest) \in {v, w1, w2, w3}
  BY DEF UpdateFromSilentCom
<1>. HIDE DEF w1, w2, w3
<1>. QED BY <1>1, <1>2, <1>3, <1>4, <1>5

\* The transitions of ComM from full communication.
LEMMA UpdateFromFullComOK ==
  ASSUME NEW v, WorldOK(v), PendingOK(v), v.ch.Mode = "FULL", NEW isRequest
  PROVE  LET w == UpdateFromFullCom(v, isRequest) IN Follows(v, w) /\ PendingOK(w)
<1>. DEFINE w1 == Enter(v, "NO", isRequest)
            w2 == Enter(v, "SILENT", isRequest)
            w3 == Enter_ReadySleep(v, isRequest)
            w4 == Enter_NetworkRequested(v, isRequest)
            c == [v.ch EXCEPT !.NmIndicationMask = @ \ {"NETWORK_MODE"}, !.internalRequest = FALSE]
            w5 == [v EXCEPT !.ch = c]
<1>1. Follows(v, v)
  BY DEF Follows, Tells
<1>2. Follows(v, w1) /\ PendingOK(w1) /\ Follows(v, w2) /\ PendingOK(w2)
  BY EnterOK DEF ComMode
<1>3. Follows(v, w3) /\ PendingOK(w3)
  BY ReadySleepOK
<1>4. Follows(v, w4) /\ PendingOK(w4)
  BY NetworkRequestedOK
<1>5. Follows(v, w5) /\ PendingOK(w5)
  <2>1. SameFields(v.ch, c)
    BY DEF SameFields, Fields, WorldOK
  <2>. HIDE DEF c
  <2>. QED BY <2>1, AlikeUpdate, AlikeOK
<1>6. UpdateFromFullCom(v, isRequest) \in {v, w1, w2, w3, w4, w5}
  BY Zenon DEF UpdateFromFullCom, WorldOK
<1>. HIDE DEF w1, w2, w3, w4, w5
<1>. QED BY <1>1, <1>2, <1>3, <1>4, <1>5, <1>6

\* The transitions of ComM from every mode.
LEMMA UpdateOK ==
  ASSUME NEW v, WorldOK(v), PendingOK(v), NEW isRequest
  PROVE  LET w == UpdateChannelState(v, isRequest) IN Follows(v, w) /\ PendingOK(w)
<1>1. v.ch.Mode \in {"NO", "SILENT", "FULL"}
  BY DEF WorldOK, ComMode
<1>2. CASE v.ch.Mode = "NO"
  BY <1>2, UpdateFromNoComOK DEF UpdateChannelState
<1>3. CASE v.ch.Mode = "SILENT"
  BY <1>3, UpdateFromSilentComOK DEF UpdateChannelState
<1>4. CASE v.ch.Mode = "FULL"
  BY <1>4, UpdateFromFullComOK DEF UpdateChannelState
<1>. QED BY <1>1, <1>2, <1>3, <1>4

\* ComM_MainFunction: the timers, the internal requests, the users' requests.
LEMMA ComMMainFunctionOK ==
  ASSUME NEW v, WorldOK(v), PendingOK(v)
  PROVE  LET w == ComM_MainFunction(v) IN Follows(v, w) /\ PendingOK(w)
<1>. DEFINE c1 == CASE v.ch.NmVariant = "NONE" -> TickFullComMinTime(v.ch)
                    [] v.ch.NmVariant = "LIGHT" -> TickLightTime(TickFullComMinTime(v.ch))
                    [] OTHER -> v.ch
            w1 == [v EXCEPT !.ch = c1]
            u2 == UpdateChannelState(w1, FALSE)
            w2 == IF w1.ch.internalRequest THEN u2 ELSE w1
            c3 == resetInternalStateRequests(w2.ch)
            u3 == [w2 EXCEPT !.ch = c3]
            w3 == IF w2.ch.internalRequest THEN u3 ELSE w2
            w4 == UpdateChannelState(w3, TRUE)
<1>1. ComM_MainFunction(v) = IF w2.ch.userOrPncReqPending THEN w4 ELSE w2
  BY DEF ComM_MainFunction, WorldOK
<1>2. SameFields(v.ch, c1)
  <2>1. ASSUME NEW c, SameFields(v.ch, c)
        PROVE  SameFields(v.ch, TickFullComMinTime(c)) /\ SameFields(v.ch, TickLightTime(c))
    BY <2>1 DEF SameFields, Fields, TickFullComMinTime, TickLightTime
  <2>2. SameFields(v.ch, v.ch)
    BY DEF SameFields, WorldOK
  <2>. QED BY <2>1, <2>2
<1>. HIDE DEF c1
<1>3. Follows(v, w1) /\ PendingOK(w1)
  BY <1>2, AlikeUpdate, AlikeOK
<1>. HIDE DEF w1
<1>4. Follows(v, w2) /\ PendingOK(w2)
  <2>1. WorldOK(w1) /\ PendingOK(w1)
    BY <1>3 DEF Follows
  <2>2. Follows(w1, u2) /\ PendingOK(u2)
    BY ONLY <2>1, UpdateOK, Zenon
  <2>. HIDE DEF u2
  <2>. QED BY <1>3, <2>2, FollowsTrans
<1>. HIDE DEF u2, w2
<1>5. Follows(v, w3) /\ PendingOK(w3)
  <2>1. WorldOK(w2)
    BY <1>4 DEF Follows
  <2>2. SameFields(w2.ch, c3)
    BY <2>1, ServedSame DEF WorldOK
  <2>. HIDE DEF c3
  <2>3. Alike(w2, u3)
    BY <2>1, <2>2, AlikeUpdate
  <2>4. Follows(w2, u3) /\ PendingOK(u3)
    BY <1>4, <2>1, <2>3, AlikeOK
  <2>. HIDE DEF u3
  <2>. QED BY <1>4, <2>4, FollowsTrans
<1>. HIDE DEF u3, w3
<1>6. Follows(v, w4) /\ PendingOK(w4)
  <2>1. WorldOK(w3) /\ PendingOK(w3)
    BY <1>5 DEF Follows
  <2>2. Follows(w3, w4) /\ PendingOK(w4)
    BY ONLY <2>1, UpdateOK, Zenon DEF w4
  <2>. HIDE DEF w4
  <2>. QED BY <1>5, <2>2, FollowsTrans
<1>. HIDE DEF w4
<1>. QED BY <1>1, <1>4, <1>6

\* ComM is in no communication only while CanSM is not in full communication.
AgreesOnFull(w) == w.ch.Mode = "NO" => w.sm.currentMode # "FULL"

\* ComM_BusSM_ModeIndication: an indication of full communication is not missed in the
\* mode "no communication", whether it was asked for or follows a bus-off.
LEMMA ModeIndicationOK ==
  ASSUME NEW v, WorldOK(v), PendingOK(v), NEW mode \in ComMode, v.sm.currentMode = mode
  PROVE  LET w == ComM_BusSM_ModeIndication(v, mode) IN
         /\ WorldOK(w) /\ PendingOK(w) /\ AgreesOnFull(w) /\ Tells(v.sm, w.sm)
         /\ v.ch.EcuMWkUpIndication => w.ch.EcuMWkUpIndication \/ w.ch.Mode = "FULL"
<1>. DEFINE busOff == "CAN" = "CAN" /\ ~v.ch.requestPending /\ mode = "SILENT"
            recovery == "CAN" = "CAN" /\ ~v.ch.requestPending /\ mode = "FULL"
            valid == v.ch.requestPending /\ v.ch.lastRequestedMode = mode
            sub == CASE mode = "NO" -> "NO_COM_NO_PENDING_REQUEST"
                     [] mode = "SILENT" -> "SILENT_COM"
                     [] mode = "FULL" -> "FULL_COM_NETWORK_REQUESTED"
            w1 == [v EXCEPT !.ch.Mode = mode, !.ch.requestPending = FALSE, !.ch.SubMode = sub]
            n == NotifyNm(w1, recovery).w
            w2 == IF ~(valid \/ busOff \/ recovery) THEN v
                  ELSE IF mode = "FULL" THEN n ELSE w1
            w3 == [w2 EXCEPT !.ch = resetInternalStateRequests(@)]
            w == ComM_BusSM_ModeIndication(v, mode)
            Good(x) == /\ WorldOK(x) /\ PendingOK(x) /\ AgreesOnFull(x) /\ Tells(v.sm, x.sm)
                       /\ v.ch.EcuMWkUpIndication => x.ch.EcuMWkUpIndication \/ x.ch.Mode = "FULL"
<1>1. w \in {w2, w3}
  <2>1. w = IF recovery /\ w2.ch.NmIndicationMask \cap {"BUS_SLEEP", "PREPARE_BUS_SLEEP"} # {}
              THEN w3 ELSE w2
    BY Zenon DEF ComM_BusSM_ModeIndication
  <2>. HIDE DEF w2, w3, w
  <2>. QED BY <2>1
<1>2. /\ {"ch", "sm", "nm"} \subseteq DOMAIN w1 /\ w1.sm = v.sm /\ Fields \subseteq DOMAIN w1.ch
      /\ w1.ch.Mode = mode /\ w1.ch.requestPending = FALSE
      /\ w1.ch.EcuMWkUpIndication = v.ch.EcuMWkUpIndication
      /\ w1.ch.NmVariant = v.ch.NmVariant
  BY Zenon DEF Fields, WorldOK
<1>. HIDE DEF w1, w
<1>3. Good(w1)
  BY <1>2, Zenon DEF WorldOK, PendingOK, AgreesOnFull, Tells
<1>4. mode = "FULL" => Good(n)
  <2>1. WorldOK(w1)
    BY <1>3
  <2>2. Follows(w1, n) /\ n.ch.Mode = w1.ch.Mode /\ (PendingOK(w1) => PendingOK(n))
    BY ONLY <2>1, NotifyNmOK
  <2>. HIDE DEF n
  <2>. QED BY <1>2, <1>3, <2>2 DEF Follows, Tells, AgreesOnFull
<1>5. ~valid /\ ~busOff /\ ~recovery => Good(v)
  BY DEF WorldOK, ComMode, PendingOK, AgreesOnFull, Tells
<1>. HIDE DEF n
<1>6. Good(w2)
  BY <1>3, <1>4, <1>5
<1>. HIDE DEF w2
<1>7. Good(w3)
  <2>. DEFINE c == resetInternalStateRequests(w2.ch)
  <2>1. SameFields(w2.ch, c)
    BY <1>6, ServedSame DEF WorldOK
  <2>2. w3 = [w2 EXCEPT !.ch = c]
    OBVIOUS
  <2>. HIDE DEF c, w3
  <2>3. Follows(w2, w3) /\ PendingOK(w3) /\ w3.ch.Mode = w2.ch.Mode
    BY <1>6, <2>1, <2>2, AlikeUpdate, AlikeOK, Zenon
  <2>. QED BY <1>6, <2>3 DEF Follows, Tells, AgreesOnFull
<1>. HIDE DEF w3
<1>. QED BY <1>1, <1>6, <1>7 DEF w

\* What CanSM and network management indicated in a call reaches ComM.
LEMMA SettledOK ==
  ASSUME NEW v, WorldOK(v), PendingOK(v),
         (v.sm.indicated = "none" /\ AgreesOnFull(v)) \/ v.sm.indicated = v.sm.currentMode
  PROVE  LET w == Settled(v) IN
         /\ WorldOK(w) /\ PendingOK(w) /\ AgreesOnFull(w) /\ w.sm.indicated = "none"
         /\ v.ch.EcuMWkUpIndication => w.ch.EcuMWkUpIndication \/ w.ch.Mode = "FULL"
         /\ v.sm.indicated = "none" => Alike(v, w)
<1>1. ASSUME NEW x, WorldOK(x), PendingOK(x), AgreesOnFull(x), x.sm.indicated = "none"
      PROVE  LET w == Indicated(x) IN
             /\ WorldOK(w) /\ PendingOK(w) /\ AgreesOnFull(w) /\ w.sm.indicated = "none"
             /\ x.ch.EcuMWkUpIndication => w.ch.EcuMWkUpIndication \/ w.ch.Mode = "FULL"
             /\ w.ch.Mode = x.ch.Mode /\ Alike(x, w)
  <2>. DEFINE w == Indicated(x)
  <2>1. Alike(x, w)
    BY <1>1, IndicatedAlike
  <2>. HIDE DEF w
  <2>2. Follows(x, w) /\ PendingOK(w) /\ w.ch.Mode = x.ch.Mode
    BY <1>1, <2>1, AlikeOK
  <2>3. WorldOK(w) /\ Tells(x.sm, w.sm)
        /\ (x.ch.EcuMWkUpIndication => w.ch.EcuMWkUpIndication \/ w.ch.Mode = "FULL")
    BY <2>2 DEF Follows
  <2>. QED BY <1>1, <2>1, <2>2, <2>3 DEF w, Tells, AgreesOnFull
<1>2. CASE v.sm.indicated = "none"
  <2>1. AgreesOnFull(v)
    BY <1>2 DEF WorldOK, SMOK, SMRecord, ComMode, AgreesOnFull
  <2>2. Settled(v) = Indicated(v)
    BY <1>2 DEF Settled
  <2>. QED BY <1>1, <1>2, <2>1, <2>2
<1>3. CASE v.sm.indicated # "none"
  <2>. DEFINE m == v.sm.indicated
              s == [v.sm EXCEPT !.indicated = "none"]
              u == [v EXCEPT !.sm = s]
              x == ComM_BusSM_ModeIndication(u, m)
  <2>1. Settled(v) = Indicated(x)
    BY <1>3 DEF Settled, WorldOK
  <2>2. SMOK(v.sm) /\ v.sm \in SMRecord /\ m \in ComMode /\ v.sm.currentMode = m
    BY <1>3 DEF WorldOK, SMOK, SMRecord
  <2>3. SMOK(s) /\ s.currentMode = m /\ s.indicated = "none"
    BY <2>2, IndicatedSound DEF SMRecord
  <2>. HIDE DEF s
  <2>4. u.ch = v.ch /\ u.sm = s /\ {"ch", "sm", "nm"} \subseteq DOMAIN u
    BY DEF WorldOK
  <2>. HIDE DEF u, m
  <2>5. WorldOK(u) /\ PendingOK(u)
    BY <2>3, <2>4 DEF WorldOK, PendingOK
  <2>6. /\ WorldOK(x) /\ PendingOK(x) /\ AgreesOnFull(x) /\ Tells(u.sm, x.sm)
        /\ u.ch.EcuMWkUpIndication => x.ch.EcuMWkUpIndication \/ x.ch.Mode = "FULL"
    BY <2>2, <2>3, <2>4, <2>5, ModeIndicationOK
  <2>. HIDE DEF x
  <2>7. x.sm.indicated = "none"
    BY <2>3, <2>4, <2>6 DEF Tells
  <2>. QED BY <1>1, <1>3, <2>1, <2>4, <2>6, <2>7
<1>. QED BY <1>2, <1>3

-----------------------------------------------------------------------------
(* The channel                                                               *)

\* The inductive invariant: nothing is left to be indicated between two calls
ChannelOK(w) == WorldOK(w) /\ PendingOK(w) /\ AgreesOnFull(w) /\ w.sm.indicated = "none"

\* What a step may do to a wake-up
KeepsWakeUp(c, d) == c.EcuMWkUpIndication => d.EcuMWkUpIndication \/ d.Mode = "FULL"

\* The invariant holds after the Init functions.
LEMMA InitChannel == Init => ChannelOK(World)
<1>. SUFFICES ASSUME Init PROVE ChannelOK(World)
  OBVIOUS
<1>1. PICK conf \in Configuration :
        sm = CanSM_Init(conf[1]) /\ ch = ComM_Init(conf[2])
  BY DEF Init
<1>2. SMOK(sm) /\ sm.indicated = "none" /\ conf[2] \in {"FULL", "PASSIVE", "LIGHT", "NONE"}
  BY <1>1, ConfigurationAssumption, InitSound, Zenon DEF Kind, CanSM_Init
<1>3. /\ Fields \subseteq DOMAIN ch /\ ch.NmVariant = conf[2] /\ ch.Mode = "NO"
      /\ ch.requestPending = FALSE /\ ch.EcuMWkUpIndication = FALSE
  BY <1>1, Zenon DEF ComM_Init, Fields
<1>4. sm.currentMode = "NO"
  BY <1>1 DEF CanSM_Init
<1>. QED
  BY <1>2, <1>3, <1>4, Zenon DEF ChannelOK, World, WorldOK, PendingOK, AgreesOnFull, ComMode

\* A call that leaves the world w.
LEMMA BecomesOK ==
  ASSUME NEW w, WorldOK(w), PendingOK(w), Becomes(w),
         (w.sm.indicated = "none" /\ AgreesOnFull(w)) \/ w.sm.indicated = w.sm.currentMode
  PROVE  /\ ChannelOK(World)' /\ KeepsWakeUp(w.ch, ch')
         /\ w.sm.indicated = "none" => ch'.Mode = w.ch.Mode
<1>. DEFINE x == Settled(w)
<1>1. /\ WorldOK(x) /\ PendingOK(x) /\ AgreesOnFull(x) /\ x.sm.indicated = "none"
      /\ w.ch.EcuMWkUpIndication => x.ch.EcuMWkUpIndication \/ x.ch.Mode = "FULL"
      /\ w.sm.indicated = "none" => Alike(w, x)
  BY SettledOK
<1>2. ch' = x.ch /\ sm' = x.sm
  BY DEF Becomes
<1>. HIDE DEF x
<1>3. w.sm.indicated = "none" => x.ch.Mode = w.ch.Mode
  BY <1>1, AlikeOK
<1>. QED
  BY <1>1, <1>2, <1>3 DEF ChannelOK, World, WorldOK, PendingOK, AgreesOnFull, KeepsWakeUp

\* A call of ComM, and one that does not concern it.
LEMMA FollowsBecomes ==
  ASSUME ChannelOK(World), NEW w, Follows(World, w), PendingOK(w), Becomes(w)
  PROVE  ChannelOK(World)' /\ KeepsWakeUp(ch, ch')
<1>1. WorldOK(w) /\ w.sm.indicated = "none" /\ AgreesOnFull(w)
  BY DEF ChannelOK, Follows, Tells, AgreesOnFull
<1>2. ChannelOK(World)' /\ KeepsWakeUp(w.ch, ch') /\ ch'.Mode = w.ch.Mode
  BY <1>1, BecomesOK
<1>3. KeepsWakeUp(ch, w.ch)
  BY DEF Follows, World, KeepsWakeUp
<1>. QED BY <1>2, <1>3 DEF KeepsWakeUp

\* A step that touches only what the invariant does not concern keeps it.
LEMMA AlikeBecomes ==
  ASSUME ChannelOK(World), NEW w, Alike(World, w), Becomes(w)
  PROVE  ChannelOK(World)' /\ KeepsWakeUp(ch, ch')
<1>1. Follows(World, w) /\ PendingOK(w)
  BY AlikeOK DEF ChannelOK
<1>. QED BY <1>1, FollowsBecomes

\* A step of CanSM, of the drivers or the bus that tells ComM nothing.
LEMMA SMBecomes ==
  ASSUME ChannelOK(World), NEW s, SMOK(s), Becomes([World EXCEPT !.sm = s]),
         Tells(sm, s) \/ Indicates(sm, s)
  PROVE  ChannelOK(World)' /\ KeepsWakeUp(ch, ch')
<1>. DEFINE w == [World EXCEPT !.sm = s]
<1>1. w.ch = ch /\ w.sm = s /\ {"ch", "sm", "nm"} \subseteq DOMAIN w /\ World.ch = ch
      /\ World.sm = sm
  BY DEF World
<1>2. Becomes(w)
  OBVIOUS
<1>. HIDE DEF w
<1>3. WorldOK(w) /\ PendingOK(w)
  BY <1>1 DEF ChannelOK, WorldOK, PendingOK
<1>4. (w.sm.indicated = "none" /\ AgreesOnFull(w)) \/ w.sm.indicated = w.sm.currentMode
  BY <1>1 DEF ChannelOK, AgreesOnFull, Tells, Indicates
<1>. QED BY <1>1, <1>2, <1>3, <1>4, BecomesOK

\* The services and callbacks of ComM that note something about the channel.
LEMMA ServiceOK ==
  ASSUME ChannelOK(World)
  PROVE  /\ \A u, mode : Alike(World, ComM_RequestComMode(World, u, mode))
         /\ \A what, on : SameFields(ch, ComM_Inhibit(ch, what, on))
         /\ \A active : SameFields(ch, ComM_DCM(ch, active))
         /\ \A allowed : SameFields(ch, ComM_CommunicationAllowed(ch, allowed))
<1>1. /\ WorldOK(World) /\ World.ch = ch /\ Fields \subseteq DOMAIN ch
  BY DEF ChannelOK, WorldOK, World
<1>2. ASSUME NEW u, NEW mode
      PROVE  Alike(World, ComM_RequestComMode(World, u, mode))
  <2>. DEFINE mask == IF mode = "FULL" THEN World.ch.UserRequestMask \cup {u}
                                       ELSE World.ch.UserRequestMask \ {u}
              saved == mode = "FULL" \/ mask = {}
              c == [World.ch EXCEPT !.UserRequestMask = mask,
                                    !.userOrPncReqMode = IF saved THEN mode ELSE @,
                                    !.userOrPncReqPending = @ \/ saved]
              w == [World EXCEPT !.ch = c]
  <2>1. ComM_RequestComMode(World, u, mode) \in {World, w}
    BY Zenon DEF ComM_RequestComMode, World
  <2>2. SameFields(World.ch, c)
    BY <1>1 DEF SameFields, Fields
  <2>. HIDE DEF c
  <2>3. Alike(World, w)
    BY <1>1, <2>2, AlikeUpdate
  <2>4. Alike(World, World)
    BY <1>1 DEF Alike, SameFields, WorldOK
  <2>. QED BY <2>1, <2>3, <2>4
<1>3. ASSUME NEW what, NEW on
      PROVE  SameFields(ch, ComM_Inhibit(ch, what, on))
  BY <1>1 DEF SameFields, Fields, ComM_Inhibit
<1>4. ASSUME NEW active
      PROVE  SameFields(ch, ComM_DCM(ch, active))
             /\ SameFields(ch, ComM_CommunicationAllowed(ch, active))
  BY <1>1 DEF SameFields, Fields, ComM_DCM, ComM_CommunicationAllowed
<1>. QED BY <1>2, <1>3, <1>4

\* Every step of the channel keeps the invariant and the wake-ups.
LEMMA NextChannel ==
  ASSUME ChannelOK(World), [Next]_vars
  PROVE  ChannelOK(World)' /\ KeepsWakeUp(ch, ch')
<1>1. /\ WorldOK(World) /\ PendingOK(World) /\ SMOK(sm) /\ World.ch = ch /\ World.sm = sm
      /\ World.nm = nm /\ {"ch", "sm", "nm"} \subseteq DOMAIN World
      /\ SameFields(ch, ch) /\ Fields \subseteq DOMAIN ch
  BY DEF ChannelOK, WorldOK, World, SameFields
<1>2. ASSUME NEW n, Becomes([World EXCEPT !.nm = n])
      PROVE  ChannelOK(World)' /\ KeepsWakeUp(ch, ch')
  <2>1. Alike(World, [World EXCEPT !.nm = n])
    BY <1>1 DEF Alike
  <2>. QED BY <1>2, <2>1, AlikeBecomes
<1>3. ASSUME NEW c, SameFields(ch, c), Becomes([World EXCEPT !.ch = c])
      PROVE  ChannelOK(World)' /\ KeepsWakeUp(ch, ch')
  <2>1. Alike(World, [World EXCEPT !.ch = c])
    BY <1>1, <1>3, AlikeUpdate
  <2>. QED BY <1>3, <2>1, AlikeBecomes
<1>4. CASE ComM_Main
  BY <1>1, <1>4, ComMMainFunctionOK, FollowsBecomes DEF ComM_Main
<1>5. CASE CanSM_Main
  BY <1>1, <1>5, MainFunctionSound, SMBecomes DEF CanSM_Main
<1>6. CASE CanNm_Main
  BY <1>2, <1>6 DEF CanNm_Main
<1>7. ASSUME NEW u \in User, NEW mode \in {"NO", "FULL"}, RequestComMode(u, mode)
      PROVE  ChannelOK(World)' /\ KeepsWakeUp(ch, ch')
  BY <1>7, ServiceOK, AlikeBecomes DEF RequestComMode, Free, Event
<1>8. ASSUME NEW what \in Inhibitions, NEW on \in BOOLEAN, Inhibit(what, on)
      PROVE  ChannelOK(World)' /\ KeepsWakeUp(ch, ch')
  BY <1>3, <1>8, ServiceOK DEF Inhibit, Free, Event
<1>9. ASSUME NEW active \in BOOLEAN, Diagnose(active)
      PROVE  ChannelOK(World)' /\ KeepsWakeUp(ch, ch')
  BY <1>3, <1>9, ServiceOK DEF Diagnose, Free, Event
<1>10. ASSUME NEW allowed \in BOOLEAN, Allow(allowed)
      PROVE  ChannelOK(World)' /\ KeepsWakeUp(ch, ch')
  BY <1>3, <1>10, ServiceOK DEF Allow, Free, Event
<1>11. CASE WakeUp
  <2>. DEFINE c == ComM_EcuM_WakeUpIndication(ch)
              w == [World EXCEPT !.ch = c]
  <2>1. Becomes(w)
    BY <1>11, Zenon DEF WakeUp, Free, Event
  <2>2. /\ Fields \subseteq DOMAIN c /\ c.Mode = ch.Mode /\ c.requestPending = ch.requestPending
        /\ c.lastRequestedMode = ch.lastRequestedMode /\ c.NmVariant = ch.NmVariant
        /\ (ch.EcuMWkUpIndication => c.EcuMWkUpIndication)
        /\ c.EcuMWkUpIndication \in {TRUE, ch.EcuMWkUpIndication}
    BY <1>1 DEF ComM_EcuM_WakeUpIndication, Fields
  <2>. HIDE DEF c
  <2>3. w.ch = c /\ w.sm = sm /\ {"ch", "sm", "nm"} \subseteq DOMAIN w
    BY <1>1
  <2>. HIDE DEF w
  <2>4. Follows(World, w) /\ PendingOK(w)
    BY <1>1, <2>2, <2>3, Zenon DEF Follows, WorldOK, PendingOK, Tells
  <2>. QED BY <2>1, <2>4, FollowsBecomes
<1>12. CASE DriverAnswers \/ DriverFails
  <2>1. PICK s \in Answers(sm) \cup Failures(sm) : Becomes([World EXCEPT !.sm = s])
    BY <1>12, Zenon DEF DriverAnswers, DriverFails, Free, Event
  <2>. QED BY <1>1, <2>1, AnswersSound, SMBecomes
<1>13. ASSUME NEW c \in Controller, BusOff(c)
      PROVE  ChannelOK(World)' /\ KeepsWakeUp(ch, ch')
  BY <1>1, <1>13, ControllerBusOffSound, SMBecomes DEF BusOff, Free, Event
<1>14. CASE MessageConfirmed \/ MessageLost \/ UNCHANGED vars
  <2>1. ch' = ch /\ sm' = sm
    BY <1>14 DEF MessageConfirmed, MessageLost, vars
  <2>. QED BY <2>1
         DEF ChannelOK, World, WorldOK, PendingOK, AgreesOnFull, KeepsWakeUp
<1>15. CASE MessageReceived
  BY <1>2, <1>15 DEF MessageReceived, Free, Event
<1>16. CASE Calm
  <2>. DEFINE s == [sm EXCEPT !.faulty = FALSE]
  <2>1. [World EXCEPT !.sm.faulty = FALSE] = [World EXCEPT !.sm = s]
    BY <1>1
  <2>2. Becomes([World EXCEPT !.sm = s])
    BY <1>16, <2>1 DEF Calm, Free, Event
  <2>. QED BY <1>1, <2>2, CalmSound, SMBecomes
<1>. QED
  BY <1>4, <1>5, <1>6, <1>7, <1>8, <1>9, <1>10, <1>11, <1>12, <1>13, <1>14, <1>15, <1>16
  DEF Next

\* The invariant holds in every reachable state.
LEMMA Channel == Spec => []ChannelOK(World)
<1>1. ChannelOK(World) /\ [Next]_vars => ChannelOK(World)'
  BY NextChannel
<1>. QED BY InitChannel, <1>1, PTL DEF Spec

\* A channel that ComM holds to be without communication does not transmit, for every
\* configuration of the channel, whatever the users ask for, however the drivers answer and
\* fail, and whichever bus-offs, wake-ups and NM messages there are
\* (ComM_BusSM_ModeIndication, BSM_S_FULLCOM).
THEOREM NoComDoesNotTransmit == Spec => []NoComOK
<1>1. ChannelOK(World) => NoComOK
  <2>. SUFFICES ASSUME ChannelOK(World), sm.PduMode = "ONLINE" PROVE ch.Mode # "NO"
    BY DEF NoComOK
  <2>1. SMOK(sm) /\ (ch.Mode = "NO" => sm.currentMode # "FULL")
    BY DEF ChannelOK, WorldOK, AgreesOnFull, World
  <2>2. sm.currentMode = "FULL"
    BY <2>1, Zenon DEF SMOK, SMRecord, PhaseOK, PreNoComOK, PreFullComOK, FullComOK, Resting
  <2>. QED BY <2>1, <2>2
<1>. QED BY Channel, <1>1, PTL

\* A wake-up the ECU state manager has indicated is kept until the channel is in full
\* communication, for every configuration of the channel and every order of the calls
\* (NotifyNm, resetInternalStateRequests).
THEOREM WakeUpIsKept == Spec => WakeUpKept
<1>1. ChannelOK(World) /\ [Next]_vars =>
        [ch.EcuMWkUpIndication /\ ~ch'.EcuMWkUpIndication => ch'.Mode = "FULL"]_vars
  BY NextChannel DEF KeepsWakeUp
<1>. QED BY Channel, <1>1, PTL DEF Spec, WakeUpKept
=============================================================================
