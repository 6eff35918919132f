---------------------------- MODULE ChannelPool -----------------------------
(***************************************************************************)
(* The channels of the Objective-C gRPC client: GRPCChannelPool, one       *)
(* GRPCPooledChannel for each configuration, the GRPCChannel it wraps, and *)
(* the GRPCWrappedCalls it makes and holds weakly.  Every @synchronized    *)
(* block is one step.  The thirty seconds of the destroy timer are any     *)
(* time at all: a timer that is set may fire at once or much later.        *)
(***************************************************************************)
EXTENDS FiniteSets

CONSTANTS
  Addresses,   \* what callers pass as host: [name, port, scheme]
  Options,     \* the classes of hasChannelOptionsEqualTo:
  Calls,       \* the GRPCWrappedCall objects; bounds how many are made
  NoPort,      \* an address without port
  NoDate       \* nil, of _lastTimedDestroy

ASSUME NoDateAssumption == NoDate \notin Calls

VARIABLES
  pool,               \* the keys of _channelPool
  wrappedChannel,     \* which pooled channels have a GRPCChannel
  onChannel,          \* the calls made on that very GRPCChannel
  wrappedCalls,       \* the weak table of each pooled channel
  lastTimedDestroy,   \* an NSDate, named by the call whose end created it
  timers,             \* the dispatch_after blocks not yet run
  refused,            \* history: the last call asked for was not made
  life,               \* of each call: "none", "live", "dealloc" or "gone"
  coreCall,           \* the calls whose grpc_call is not NULL
  config,             \* the configuration each call was made for
  toDisconnect,       \* what disconnectAllChannels still has to visit
  copiedCalls         \* what disconnect still has to tell, and retains

channelVars == <<pool, wrappedChannel, onChannel, wrappedCalls,
                 lastTimedDestroy, timers, refused>>
callVars    == <<life, coreCall, config>>
poolVars    == <<channelVars, callVars, toDisconnect, copiedCalls>>

(* The host gets its default port; a host with a scheme is left alone.     *)
WithPort(a) ==
  IF ~a.scheme /\ a.port = NoPort THEN [a EXCEPT !.port = 443] ELSE a

(* GRPCChannelConfiguration's isEqual: the host and the channel options.   *)
Configuration(a, o) == <<WithPort(a), o>>

Configurations == {Configuration(a, o) : a \in Addresses, o \in Options}

PoolInit ==
  /\ pool = {}
  /\ wrappedChannel = [k \in Configurations |-> FALSE]
  /\ onChannel = [k \in Configurations |-> {}]
  /\ wrappedCalls = [k \in Configurations |-> {}]
  /\ lastTimedDestroy = [k \in Configurations |-> NoDate]
  /\ timers = {}
  /\ refused = [k \in Configurations |-> FALSE]
  /\ life = [c \in Calls |-> "none"]
  /\ coreCall = {}
  /\ config \in [Calls -> Configurations]
  /\ toDisconnect = {}
  /\ copiedCalls = {}

Live == {c \in Calls : life[c] = "live"}

(* _wrappedCalls.allObjects: a weak reference to an object whose dealloc   *)
(* has begun is nil.                                                       *)
allObjects(k) == wrappedCalls[k] \cap Live

-----------------------------------------------------------------------------
channelWithHost(a, o) ==
  /\ pool' = pool \union {Configuration(a, o)}
  /\ UNCHANGED <<wrappedChannel, onChannel, wrappedCalls, lastTimedDestroy,
                 timers, refused, callVars, toDisconnect, copiedCalls>>

(* Variant, a fault: a pending timer is not called off.                    *)
KeepTimerOnNewCall(c) ==
  LET k == config[c] IN
    /\ life[c] = "none" /\ k \in pool
    /\ wrappedChannel' = [wrappedChannel EXCEPT ![k] = TRUE]
    /\ onChannel' = [onChannel EXCEPT ![k] = @ \union {c}]
    /\ wrappedCalls' = [wrappedCalls EXCEPT ![k] = @ \union {c}]
    /\ refused' = [refused EXCEPT ![k] = FALSE]
    /\ life' = [life EXCEPT ![c] = "live"]
    /\ coreCall' = coreCall \union {c}
    /\ UNCHANGED <<pool, lastTimedDestroy, timers, config, toDisconnect,
                   copiedCalls>>

(* wrappedCallWithPath: makes the channel when there is none, calls the    *)
(* destroy timer off, makes the call and remembers it weakly.              *)
wrappedCallWithPath(c) ==
  LET k == config[c] IN
    /\ life[c] = "none" /\ k \in pool
    /\ wrappedChannel' = [wrappedChannel EXCEPT ![k] = TRUE]
    /\ onChannel' = [onChannel EXCEPT ![k] = @ \union {c}]
    /\ wrappedCalls' = [wrappedCalls EXCEPT ![k] = @ \union {c}]
    /\ lastTimedDestroy' = [lastTimedDestroy EXCEPT ![k] = NoDate]
    /\ refused' = [refused EXCEPT ![k] = FALSE]
    /\ life' = [life EXCEPT ![c] = "live"]
    /\ coreCall' = coreCall \union {c}
    /\ UNCHANGED <<pool, timers, config, toDisconnect, copiedCalls>>

(* Its early return after the core gave no call: the channel is there and  *)
(* the timer is off.  (Without a channel it returns and changes nothing.)  *)
CallRefused(k) ==
  /\ k \in pool
  /\ wrappedChannel' = [wrappedChannel EXCEPT ![k] = TRUE]
  /\ lastTimedDestroy' = [lastTimedDestroy EXCEPT ![k] = NoDate]
  /\ refused' = [refused EXCEPT ![k] = TRUE]
  /\ UNCHANGED <<pool, onChannel, wrappedCalls, timers, callVars,
                 toDisconnect, copiedCalls>>

(* Variant, a fault: the copied calls are not retained.                    *)
DeallocUnretained(c) ==
  /\ life[c] = "live"
  /\ life' = [life EXCEPT ![c] = "dealloc"]
  /\ coreCall' = coreCall \ {c}
  /\ UNCHANGED <<channelVars, config, toDisconnect, copiedCalls>>

(* GRPCWrappedCall's dealloc, once nothing retains the call: weak          *)
(* references are nil from here on, and the grpc_call is released.         *)
Dealloc(c) ==
  /\ life[c] = "live" /\ c \notin copiedCalls
  /\ life' = [life EXCEPT ![c] = "dealloc"]
  /\ coreCall' = coreCall \ {c}
  /\ UNCHANGED <<channelVars, config, toDisconnect, copiedCalls>>

(* Variant, a fault: dead references count as calls.                       *)
notifyOnCount(c) ==
  LET k == config[c] IN
    /\ life[c] = "dealloc"
    /\ life' = [life EXCEPT ![c] = "gone"]
    /\ IF wrappedCalls[k] \subseteq {c}
         THEN /\ lastTimedDestroy' = [lastTimedDestroy EXCEPT ![k] = c]
              /\ timers' = timers \union {<<k, c>>}
              /\ refused' = [refused EXCEPT ![k] = FALSE]
         ELSE UNCHANGED <<lastTimedDestroy, timers, refused>>
    /\ UNCHANGED <<pool, wrappedChannel, onChannel, wrappedCalls, coreCall,
                   config, toDisconnect, copiedCalls>>

(* dealloc's second half: the pooled channel is told, and when no call of  *)
(* it is left a timer is set.                                              *)
notifyWrappedCallDealloc(c) ==
  LET k == config[c] IN
    /\ life[c] = "dealloc"
    /\ life' = [life EXCEPT ![c] = "gone"]
    /\ IF allObjects(k) = {}
         THEN /\ lastTimedDestroy' = [lastTimedDestroy EXCEPT ![k] = c]
              /\ timers' = timers \union {<<k, c>>}
              /\ refused' = [refused EXCEPT ![k] = FALSE]
         ELSE UNCHANGED <<lastTimedDestroy, timers, refused>>
    /\ UNCHANGED <<pool, wrappedChannel, onChannel, wrappedCalls, coreCall,
                   config, toDisconnect, copiedCalls>>

(* The block of dispatch_after: it destroys the channel unless calls were  *)
(* made since it was set.                                                  *)
DestroyTimer(k, c) ==
  /\ <<k, c>> \in timers
  /\ timers' = timers \ {<<k, c>>}
  /\ IF lastTimedDestroy[k] = c
       THEN /\ wrappedChannel' = [wrappedChannel EXCEPT ![k] = FALSE]
            /\ onChannel' = [onChannel EXCEPT ![k] = {}]
            /\ lastTimedDestroy' = [lastTimedDestroy EXCEPT ![k] = NoDate]
       ELSE UNCHANGED <<wrappedChannel, onChannel, lastTimedDestroy>>
  /\ UNCHANGED <<pool, wrappedCalls, refused, callVars, toDisconnect,
                 copiedCalls>>

-----------------------------------------------------------------------------
disconnectAllChannels ==
  /\ toDisconnect' = toDisconnect \union pool
  /\ UNCHANGED <<channelVars, callVars, copiedCalls>>

(* disconnect, up to its unlock: the calls are copied, hence retained.     *)
disconnect(k) ==
  /\ k \in toDisconnect
  /\ toDisconnect' = toDisconnect \ {k}
  /\ IF wrappedChannel[k]
       THEN /\ wrappedChannel' = [wrappedChannel EXCEPT ![k] = FALSE]
            /\ onChannel' = [onChannel EXCEPT ![k] = {}]
            /\ copiedCalls' = copiedCalls \union allObjects(k)
            /\ wrappedCalls' = [wrappedCalls EXCEPT ![k] = {}]
       ELSE UNCHANGED <<wrappedChannel, onChannel, copiedCalls, wrappedCalls>>
  /\ UNCHANGED <<pool, lastTimedDestroy, timers, refused, callVars>>

(* disconnect's loop: one call after the other releases its grpc_call.     *)
channelDisconnected(c) ==
  /\ c \in copiedCalls
  /\ copiedCalls' = copiedCalls \ {c}
  /\ coreCall' = coreCall \ {c}
  /\ UNCHANGED <<channelVars, life, config, toDisconnect>>

-----------------------------------------------------------------------------
PoolNext ==
  \/ \E a \in Addresses, o \in Options : channelWithHost(a, o)
  \/ \E c \in Calls : \/ wrappedCallWithPath(c)
                      \/ Dealloc(c)
                      \/ notifyWrappedCallDealloc(c)
                      \/ channelDisconnected(c)
  \/ \E k \in Configurations : CallRefused(k) \/ disconnect(k)
  \/ \E k \in Configurations, c \in Calls : DestroyTimer(k, c)
  \/ disconnectAllChannels

(* The threads run on and the timers expire.  Nobody has to make a call,   *)
(* end one or disconnect.                                                  *)
PoolFairness ==
  /\ \A c \in Calls : /\ WF_poolVars(notifyWrappedCallDealloc(c))
                      /\ WF_poolVars(channelDisconnected(c))
  /\ \A k \in Configurations, c \in Calls : WF_poolVars(DestroyTimer(k, c))

PoolSpec == PoolInit /\ [][PoolNext]_poolVars /\ PoolFairness

-----------------------------------------------------------------------------
(* The pool and its calls keep to their types.                             *)
PoolTypeOK ==
  /\ pool \subseteq Configurations
  /\ wrappedChannel \in [Configurations -> BOOLEAN]
  /\ onChannel \in [Configurations -> SUBSET Calls]
  /\ wrappedCalls \in [Configurations -> SUBSET Calls]
  /\ lastTimedDestroy \in [Configurations -> Calls \union {NoDate}]
  /\ timers \subseteq Configurations \X Calls
  /\ refused \in [Configurations -> BOOLEAN]
  /\ life \in [Calls -> {"none", "live", "dealloc", "gone"}]
  /\ coreCall \subseteq Live
  /\ config \in [Calls -> Configurations]
  /\ toDisconnect \subseteq pool
  /\ copiedCalls \subseteq Live

(* A call that can still start batches runs on the GRPCChannel its pooled  *)
(* channel holds, and the weak table knows it, unless disconnect is about  *)
(* to tell it: neither a destroy timer that expires late, nor the end of a *)
(* call made on an earlier channel, takes the channel away under it.       *)
CallsKeepTheirChannel ==
  \A c \in coreCall \ copiedCalls :
    /\ wrappedChannel[config[c]]
    /\ c \in onChannel[config[c]]
    /\ c \in wrappedCalls[config[c]]

(* Why: a pooled channel whose timer would destroy it has no such call.    *)
TimersSpareCalls ==
  \A k \in Configurations :
    lastTimedDestroy[k] # NoDate
      => \A c \in coreCall \ copiedCalls : config[c] # k

PoolInv == PoolTypeOK /\ CallsKeepTheirChannel /\ TimersSpareCalls

(* GRPCChannelPool.mm: "When all calls of a channel are destroyed, destroy *)
(* the channel after this much seconds."  A channel without calls is       *)
(* destroyed, or gets a call again.  The exception is a pooled channel     *)
(* whose last request for a call was refused: that called the timer off.   *)
IdleChannelIsDestroyed ==
  \A k \in Configurations :
    (wrappedChannel[k] /\ allObjects(k) = {})
      ~> (~wrappedChannel[k] \/ allObjects(k) # {} \/ refused[k])

=============================================================================
