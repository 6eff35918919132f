------------------------- MODULE ChannelPoolProofs --------------------------
(***************************************************************************)
(* Proofs about the channel pool, for every set of addresses, options and  *)
(* calls.  The inductive invariant adds to the property that a pooled      *)
(* channel with a valid destroy timer has no call that could still start a *)
(* batch; the timer's check of _lastTimedDestroy is right because of it.   *)
(***************************************************************************)
EXTENDS ChannelPool, TLAPS

LEMMA PoolInitial == PoolInit => PoolInv
  BY DEF PoolInit, PoolInv, PoolTypeOK, CallsKeepTheirChannel,
         TimersSpareCalls, Live

LEMMA ConfigurationIn ==
  ASSUME NEW a \in Addresses, NEW o \in Options
  PROVE  Configuration(a, o) \in Configurations
  BY DEF Configurations

LEMMA CallIsMade ==
  ASSUME NEW c \in Calls, PoolInv, wrappedCallWithPath(c)
  PROVE  PoolInv'
<1> DEFINE k == config[c]
<1>1. k \in Configurations /\ c \notin Live /\ c \notin coreCall
      /\ c \notin copiedCalls
  BY DEF PoolInv, PoolTypeOK, wrappedCallWithPath, Live
<1>2. Live' = Live \union {c}
  BY DEF PoolInv, PoolTypeOK, wrappedCallWithPath, Live
<1>3. PoolTypeOK'
  BY <1>1, <1>2 DEF PoolInv, PoolTypeOK, wrappedCallWithPath
<1>4. CallsKeepTheirChannel'
  BY <1>1 DEF PoolInv, PoolTypeOK, CallsKeepTheirChannel, wrappedCallWithPath
<1>5. TimersSpareCalls'
  BY <1>1 DEF PoolInv, PoolTypeOK, TimersSpareCalls, wrappedCallWithPath
<1> QED
  BY <1>3, <1>4, <1>5 DEF PoolInv

LEMMA CallEnds ==
  ASSUME NEW c \in Calls, PoolInv, Dealloc(c)
  PROVE  PoolInv'
<1>1. Live' = Live \ {c}
  BY DEF PoolInv, PoolTypeOK, Dealloc, Live
<1>2. PoolTypeOK'
  BY <1>1 DEF PoolInv, PoolTypeOK, Dealloc, channelVars
<1>3. CallsKeepTheirChannel' /\ TimersSpareCalls'
  BY DEF PoolInv, PoolTypeOK, CallsKeepTheirChannel, TimersSpareCalls,
         Dealloc, channelVars
<1> QED
  BY <1>2, <1>3 DEF PoolInv

LEMMA EndIsNotified ==
  ASSUME NEW c \in Calls, PoolInv, notifyWrappedCallDealloc(c)
  PROVE  PoolInv'
<1> DEFINE k == config[c]
<1>1. k \in Configurations
  BY DEF PoolInv, PoolTypeOK
<1>2. Live' = Live
  BY DEF PoolInv, PoolTypeOK, notifyWrappedCallDealloc, Live
<1>3. PoolTypeOK'
  <2>1. CASE allObjects(k) = {}
    <3>1. /\ lastTimedDestroy' \in [Configurations -> Calls \union {NoDate}]
          /\ life' \in [Calls -> {"none", "live", "dealloc", "gone"}]
      BY <1>1, <2>1 DEF PoolInv, PoolTypeOK, notifyWrappedCallDealloc
    <3>2. timers' \subseteq Configurations \X Calls
      BY <1>1, <2>1 DEF PoolInv, PoolTypeOK, notifyWrappedCallDealloc
    <3>3. refused' \in [Configurations -> BOOLEAN]
      BY <1>1, <2>1, Zenon DEF PoolInv, PoolTypeOK, notifyWrappedCallDealloc
    <3> QED
      BY <1>2, <3>1, <3>2, <3>3 DEF PoolInv, PoolTypeOK,
                                    notifyWrappedCallDealloc
  <2>2. CASE allObjects(k) # {}
    BY <1>1, <1>2, <2>2 DEF PoolInv, PoolTypeOK, notifyWrappedCallDealloc
  <2> QED
    BY <2>1, <2>2
<1>4. CallsKeepTheirChannel'
  BY DEF PoolInv, CallsKeepTheirChannel, notifyWrappedCallDealloc
<1>5. ASSUME allObjects(k) = {}, NEW d \in coreCall \ copiedCalls
      PROVE  config[d] # k
  BY <1>5 DEF PoolInv, PoolTypeOK, CallsKeepTheirChannel, allObjects
<1>6. TimersSpareCalls'
  BY <1>1, <1>5 DEF PoolInv, PoolTypeOK, TimersSpareCalls,
                    notifyWrappedCallDealloc
<1> QED
  BY <1>3, <1>4, <1>6 DEF PoolInv

LEMMA TimerFires ==
  ASSUME NEW k \in Configurations, NEW c \in Calls, PoolInv,
         DestroyTimer(k, c)
  PROVE  PoolInv'
<1>1. Live' = Live
  BY DEF DestroyTimer, callVars, Live
<1>2. PoolTypeOK'
  BY <1>1, ZenonT(30) DEF PoolInv, PoolTypeOK, DestroyTimer, callVars
<1>3. CASE lastTimedDestroy[k] = c
  <2>1. \A d \in coreCall \ copiedCalls : config[d] # k
    BY <1>3, NoDateAssumption DEF PoolInv, TimersSpareCalls
  <2>2. ASSUME NEW j \in Configurations, j # k
        PROVE  /\ wrappedChannel'[j] = wrappedChannel[j]
               /\ onChannel'[j] = onChannel[j]
    BY <1>3, <2>2 DEF PoolInv, PoolTypeOK, DestroyTimer
  <2>3. CallsKeepTheirChannel'
    BY <2>1, <2>2 DEF PoolInv, PoolTypeOK, CallsKeepTheirChannel,
                      DestroyTimer, callVars, Live
  <2>4. TimersSpareCalls'
    BY <1>3 DEF PoolInv, PoolTypeOK, TimersSpareCalls, DestroyTimer, callVars
  <2> QED
    BY <1>2, <2>3, <2>4 DEF PoolInv
<1>4. CASE lastTimedDestroy[k] # c
  BY <1>2, <1>4 DEF PoolInv, CallsKeepTheirChannel, TimersSpareCalls,
                    DestroyTimer, callVars
<1> QED
  BY <1>3, <1>4

LEMMA ChannelDisconnects ==
  ASSUME NEW k \in Configurations, PoolInv, disconnect(k)
  PROVE  PoolInv'
<1>1. Live' = Live
  BY DEF disconnect, callVars, Live
<1>2. PoolTypeOK'
  BY <1>1, Zenon DEF PoolInv, PoolTypeOK, disconnect, callVars, allObjects
<1>3. coreCall' \ copiedCalls' \subseteq coreCall \ copiedCalls
  BY DEF disconnect, callVars
<1>4. CASE wrappedChannel[k]
  <2>1. ASSUME NEW d \in coreCall' \ copiedCalls'
        PROVE  config[d] # k
    BY <1>3, <1>4, <2>1 DEF PoolInv, PoolTypeOK, CallsKeepTheirChannel,
                            disconnect, callVars, allObjects
  <2>2. ASSUME NEW j \in Configurations, j # k
        PROVE  /\ wrappedChannel'[j] = wrappedChannel[j]
               /\ onChannel'[j] = onChannel[j]
               /\ wrappedCalls'[j] = wrappedCalls[j]
    BY <1>4, <2>2 DEF PoolInv, PoolTypeOK, disconnect
  <2>3. CallsKeepTheirChannel'
    BY <1>3, <2>1, <2>2 DEF PoolInv, PoolTypeOK, CallsKeepTheirChannel,
                            disconnect, callVars, Live
  <2>4. TimersSpareCalls'
    BY <1>3 DEF PoolInv, TimersSpareCalls, disconnect, callVars
  <2> QED
    BY <1>2, <2>3, <2>4 DEF PoolInv
<1>5. CASE ~wrappedChannel[k]
  BY <1>2, <1>5 DEF PoolInv, CallsKeepTheirChannel, TimersSpareCalls,
                    disconnect, callVars
<1> QED
  BY <1>4, <1>5

LEMMA PoolInductive == PoolInv /\ [PoolNext]_poolVars => PoolInv'
<1> SUFFICES ASSUME PoolInv, [PoolNext]_poolVars
             PROVE  PoolInv'
  OBVIOUS
<1>1. ASSUME NEW a \in Addresses, NEW o \in Options, channelWithHost(a, o)
      PROVE  PoolInv'
  BY <1>1, ConfigurationIn DEF PoolInv, PoolTypeOK, CallsKeepTheirChannel,
       TimersSpareCalls, channelWithHost, callVars, Live
<1>2. ASSUME NEW c \in Calls, channelDisconnected(c)
      PROVE  PoolInv'
  BY <1>2 DEF PoolInv, PoolTypeOK, CallsKeepTheirChannel, TimersSpareCalls,
       channelDisconnected, channelVars, Live
<1>3. ASSUME NEW k \in Configurations, CallRefused(k)
      PROVE  PoolInv'
  BY <1>3 DEF PoolInv, PoolTypeOK, CallsKeepTheirChannel, TimersSpareCalls,
       CallRefused, callVars, Live
<1>4. CASE disconnectAllChannels
  BY <1>4 DEF PoolInv, PoolTypeOK, CallsKeepTheirChannel, TimersSpareCalls,
       disconnectAllChannels, channelVars, callVars, Live
<1>5. CASE UNCHANGED poolVars
  BY <1>5 DEF PoolInv, PoolTypeOK, CallsKeepTheirChannel, TimersSpareCalls,
       poolVars, channelVars, callVars, Live
<1> QED
  BY <1>1, <1>2, <1>3, <1>4, <1>5, CallIsMade, CallEnds, EndIsNotified,
     TimerFires, ChannelDisconnects DEF PoolNext

(* The pool, its channels, its timers and its calls keep to their types.   *)
THEOREM PoolTypeCorrect == PoolSpec => []PoolTypeOK
<1>1. PoolInv => PoolTypeOK
  BY DEF PoolInv
<1> QED
  BY <1>1, PoolInitial, PoolInductive, PTL DEF PoolSpec

(* However the ends of calls, new calls, destroy timers and disconnects    *)
(* interleave, no call that can still start a batch loses its channel.     *)
THEOREM ChannelsCorrect == PoolSpec => []CallsKeepTheirChannel
<1>1. PoolInv => CallsKeepTheirChannel
  BY DEF PoolInv
<1> QED
  BY <1>1, PoolInitial, PoolInductive, PTL DEF PoolSpec

=============================================================================
