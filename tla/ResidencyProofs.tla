--------------------------- MODULE ResidencyProofs ---------------------------
(***************************************************************************)
(* No model is freed, replaced or confused while a request runs on it, for *)
(* every registry, every command line and any number of requests.          *)
(***************************************************************************)
EXTENDS Residency, TLAPS

\* The request is counted in active_requests.
Counted == wpc \in {"swap", "loading", "serving", "served", "finish"}

\* active_requests counts the worker's request, from its admission to the drop
\* ahead of the safe point, and `loading` is set for as long as the load runs.
WorkerCounted ==
    /\ active = IF Counted THEN 1 ELSE 0
    /\ loading <=> wpc = "loading"

\* What the worker's request may be at each point: a load answers a request
\* that names a model and expects no resident.
RequestFits ==
    /\ req.want \in opts.registry \cup {Unknown}
    /\ wpc \in {"loading", "serving", "served"} => req.want # Unknown
    /\ wpc = "loading" => req.expect = 0

\* The resident is one of this server's models; a server with a draft has one
\* model only, so that no swap leaves a draft behind.
OfThisServer ==
    /\ resident \in opts.registry \cup {NoModel}
    /\ draft => opts.draft

\* Each request loads at most once.
LoadsCounted ==
    /\ generation <= served + 1
    /\ wpc \in {"read", "swap", "loading"} => generation <= served

\* The shutdown frees what is left when the worker has gone.
JoinedFirst == apc \in {"joinReaper", "done"} => wpc = "exited"

\* The Boolean variables, whose types the provers treat apart.
Flags ==
    /\ loading \in BOOLEAN /\ pending_unload \in BOOLEAN /\ load_cancel \in BOOLEAN
    /\ ttl \in BOOLEAN /\ prefixes \in BOOLEAN /\ q_shutdown \in BOOLEAN
    /\ borrowed \in BOOLEAN /\ draft \in BOOLEAN

\* Where the worker stands, and what is in slot 0.
WorkerInv == WorkerCounted /\ RequestFits /\ LoadsCounted /\ JoinedFirst
SlotInv   == OfThisServer /\ OwnersAgree /\ LoadingAlone /\ ModelInUse /\ ExpectHonoured

IInv == TypeOK /\ WorkerInv /\ SlotInv

-----------------------------------------------------------------------------
\* A server started with a draft has a single model.
LEMMA DraftAlone ==
    ASSUME TypeOK
    PROVE  /\ opts.registry \subseteq Models
           /\ opts.preloaded \in Models \cup {NoModel}
           /\ opts.preloaded # NoModel => opts.registry = {opts.preloaded}
           /\ opts.draft => opts.preloaded # NoModel
           /\ opts.draft \in BOOLEAN
           /\ NoModel \notin opts.registry
BY ResidencyAssumption DEF TypeOK

LEMMA InitInv == Init => IInv
<1> SUFFICES ASSUME Init PROVE IInv
  OBVIOUS
<1> USE ResidencyAssumption DEF Init
<1>1. opts \in CommandLines
  OBVIOUS
<1>2. /\ opts.registry \subseteq Models
      /\ opts.preloaded \in Models \cup {NoModel}
      /\ opts.preloaded # NoModel => opts.registry = {opts.preloaded}
      /\ opts.draft => opts.preloaded # NoModel
      /\ opts.draft \in BOOLEAN
  BY <1>1
<1>3. NoRequest \in Requests
  BY DEF NoRequest, Requests
<1>4. Flags
  BY <1>2 DEF Flags
<1>5. TypeOK
  BY <1>1, <1>2, <1>3, <1>4 DEF TypeOK, Flags
<1>6. WorkerCounted /\ LoadingAlone /\ ModelInUse /\ ExpectHonoured /\ JoinedFirst
  BY DEF WorkerCounted, Counted, LoadingAlone, ModelInUse, ExpectHonoured, JoinedFirst
<1>7. RequestFits
  BY DEF RequestFits, NoRequest
<1>8. OfThisServer /\ OwnersAgree
  BY <1>2 DEF OfThisServer, OwnersAgree
<1>9. LoadsCounted
  BY DEF LoadsCounted
<1> QED
  BY <1>5, <1>6, <1>7, <1>8, <1>9 DEF IInv, WorkerInv, SlotInv
-----------------------------------------------------------------------------
LEMMA NextInv == IInv /\ [Next]_vars => IInv'
<1> SUFFICES ASSUME IInv, [Next]_vars PROVE IInv'
  OBVIOUS
<1> USE ResidencyAssumption DEF IInv, slotVars, flagVars, pcVars
<1>1. CASE Pop
  <2>1. Flags'
    BY <1>1, DraftAlone DEF Pop, Flags, TypeOK
  <2>2. TypeOK'
    BY <1>1, <2>1, DraftAlone DEF Pop, TypeOK, Flags, WorkerInv, WorkerCounted, Counted,
       LoadsCounted, RequestFits, Requests, NoRequest
  <2>3. WorkerInv'
    BY <1>1, <2>1 DEF Pop, TypeOK, Flags, WorkerInv, WorkerCounted, Counted, RequestFits,
       LoadsCounted, JoinedFirst, Requests, NoRequest
  <2>4. SlotInv'
    BY <1>1, <2>1, DraftAlone DEF Pop, TypeOK, Flags, WorkerInv, WorkerCounted, Counted,
       RequestFits, JoinedFirst, SlotInv, OfThisServer, OwnersAgree, LoadingAlone,
       ModelInUse, ExpectHonoured, Requests
  <2> QED
    BY <2>2, <2>3, <2>4
<1>2. CASE ReadRefuse
  <2>1. Flags'
    BY <1>2, DraftAlone DEF ReadRefuse, Flags, TypeOK
  <2>2. TypeOK'
    BY <1>2, <2>1, DraftAlone DEF ReadRefuse, TypeOK, Flags, WorkerInv, WorkerCounted,
       Counted, LoadsCounted, RequestFits, Requests, NoRequest
  <2>3. WorkerInv'
    BY <1>2, <2>1 DEF ReadRefuse, TypeOK, Flags, WorkerInv, WorkerCounted, Counted,
       RequestFits, LoadsCounted, JoinedFirst, Requests, NoRequest
  <2>4. SlotInv'
    BY <1>2, <2>1, DraftAlone DEF ReadRefuse, TypeOK, Flags, WorkerInv, WorkerCounted,
       Counted, RequestFits, JoinedFirst, SlotInv, OfThisServer, OwnersAgree, LoadingAlone,
       ModelInUse, ExpectHonoured, Requests
  <2> QED
    BY <2>2, <2>3, <2>4
<1>3. CASE Admit
  <2>1. Flags'
    BY <1>3, DraftAlone DEF Admit, Flags, TypeOK
  <2>2. TypeOK'
    BY <1>3, <2>1, DraftAlone DEF Admit, TypeOK, Flags, WorkerInv, WorkerCounted, Counted,
       LoadsCounted, RequestFits, Requests, NoRequest
  <2>3. WorkerInv'
    BY <1>3, <2>1 DEF Admit, TypeOK, Flags, WorkerInv, WorkerCounted, Counted, RequestFits,
       LoadsCounted, JoinedFirst, Requests, NoRequest
  <2>4. SlotInv'
    BY <1>3, <2>1, DraftAlone DEF Admit, TypeOK, Flags, WorkerInv, WorkerCounted, Counted,
       RequestFits, JoinedFirst, SlotInv, OfThisServer, OwnersAgree, LoadingAlone,
       ModelInUse, ExpectHonoured, Requests
  <2> QED
    BY <2>2, <2>3, <2>4
<1>4. CASE SwapRefuse
  <2>1. Flags'
    BY <1>4, DraftAlone DEF SwapRefuse, Flags, TypeOK
  <2>2. TypeOK'
    BY <1>4, <2>1, DraftAlone DEF SwapRefuse, TypeOK, Flags, WorkerInv, WorkerCounted,
       Counted, LoadsCounted, RequestFits, Requests, NoRequest
  <2>3. WorkerInv'
    BY <1>4, <2>1 DEF SwapRefuse, TypeOK, Flags, WorkerInv, WorkerCounted, Counted,
       RequestFits, LoadsCounted, JoinedFirst, Requests, NoRequest
  <2>4. SlotInv'
    BY <1>4, <2>1, DraftAlone DEF SwapRefuse, TypeOK, Flags, WorkerInv, WorkerCounted,
       Counted, RequestFits, JoinedFirst, SlotInv, OfThisServer, OwnersAgree, LoadingAlone,
       ModelInUse, ExpectHonoured, Requests
  <2> QED
    BY <2>2, <2>3, <2>4
<1>5. CASE SwapResident
  <2>1. Flags'
    BY <1>5, DraftAlone DEF SwapResident, Expected, Flags, TypeOK
  <2>2. TypeOK'
    BY <1>5, <2>1, DraftAlone DEF SwapResident, Expected, TypeOK, Flags, WorkerInv,
       WorkerCounted, Counted, LoadsCounted, RequestFits, Requests, NoRequest
  <2>3. WorkerInv'
    BY <1>5, <2>1 DEF SwapResident, Expected, TypeOK, Flags, WorkerInv, WorkerCounted,
       Counted, RequestFits, LoadsCounted, JoinedFirst, Requests, NoRequest
  <2>4. SlotInv'
    BY <1>5, <2>1, DraftAlone DEF SwapResident, Expected, TypeOK, Flags, WorkerInv,
       WorkerCounted, Counted, RequestFits, JoinedFirst, SlotInv, OfThisServer, OwnersAgree,
       LoadingAlone, ModelInUse, ExpectHonoured, Requests
  <2> QED
    BY <2>2, <2>3, <2>4
<1>6. CASE SwapLoad
  <2>1. Flags'
    BY <1>6, DraftAlone DEF SwapLoad, UnloadResident, Expected, Flags, TypeOK
  <2>2. TypeOK'
    BY <1>6, <2>1, DraftAlone DEF SwapLoad, UnloadResident, Expected, TypeOK, Flags,
       WorkerInv, WorkerCounted, Counted, LoadsCounted, RequestFits, Requests, NoRequest
  <2>3. WorkerInv'
    BY <1>6, <2>1 DEF SwapLoad, UnloadResident, Expected, TypeOK, Flags, WorkerInv,
       WorkerCounted, Counted, RequestFits, LoadsCounted, JoinedFirst, Requests, NoRequest
  <2>4. SlotInv'
    BY <1>6, <2>1, DraftAlone DEF SwapLoad, UnloadResident, Expected, TypeOK, Flags,
       WorkerInv, WorkerCounted, Counted, RequestFits, JoinedFirst, SlotInv, OfThisServer,
       OwnersAgree, LoadingAlone, ModelInUse, ExpectHonoured, Requests
  <2> QED
    BY <2>2, <2>3, <2>4
<1>7. CASE LoadFail
  <2>1. Flags'
    BY <1>7, DraftAlone DEF LoadFail, Flags, TypeOK
  <2>2. TypeOK'
    BY <1>7, <2>1, DraftAlone DEF LoadFail, TypeOK, Flags, WorkerInv, WorkerCounted,
       Counted, LoadsCounted, RequestFits, Requests, NoRequest
  <2>3. WorkerInv'
    BY <1>7, <2>1 DEF LoadFail, TypeOK, Flags, WorkerInv, WorkerCounted, Counted,
       RequestFits, LoadsCounted, JoinedFirst, Requests, NoRequest
  <2>4. SlotInv'
    BY <1>7, <2>1, DraftAlone DEF LoadFail, TypeOK, Flags, WorkerInv, WorkerCounted,
       Counted, RequestFits, JoinedFirst, SlotInv, OfThisServer, OwnersAgree, LoadingAlone,
       ModelInUse, ExpectHonoured, Requests
  <2> QED
    BY <2>2, <2>3, <2>4
<1>8. CASE LoadInstall
  <2>1. Flags'
    BY <1>8, DraftAlone DEF LoadInstall, Flags, TypeOK
  <2>2. TypeOK'
    BY <1>8, <2>1, DraftAlone DEF LoadInstall, TypeOK, Flags, WorkerInv, WorkerCounted,
       Counted, LoadsCounted, RequestFits, Requests, NoRequest
  <2>3. WorkerInv'
    BY <1>8, <2>1 DEF LoadInstall, TypeOK, Flags, WorkerInv, WorkerCounted, Counted,
       RequestFits, LoadsCounted, JoinedFirst, Requests, NoRequest
  <2>4. SlotInv'
    BY <1>8, <2>1, DraftAlone DEF LoadInstall, TypeOK, Flags, WorkerInv, WorkerCounted,
       Counted, RequestFits, JoinedFirst, SlotInv, OfThisServer, OwnersAgree, LoadingAlone,
       ModelInUse, ExpectHonoured, Requests
  <2> QED
    BY <2>2, <2>3, <2>4
<1>9. CASE Serve
  <2>1. Flags'
    BY <1>9, DraftAlone DEF Serve, Flags, TypeOK
  <2>2. TypeOK'
    BY <1>9, <2>1, DraftAlone DEF Serve, TypeOK, Flags, WorkerInv, WorkerCounted, Counted,
       LoadsCounted, RequestFits, Requests, NoRequest
  <2>3. WorkerInv'
    BY <1>9, <2>1 DEF Serve, TypeOK, Flags, WorkerInv, WorkerCounted, Counted, RequestFits,
       LoadsCounted, JoinedFirst, Requests, NoRequest
  <2>4. SlotInv'
    BY <1>9, <2>1, DraftAlone DEF Serve, TypeOK, Flags, WorkerInv, WorkerCounted, Counted,
       RequestFits, JoinedFirst, SlotInv, OfThisServer, OwnersAgree, LoadingAlone,
       ModelInUse, ExpectHonoured, Requests
  <2> QED
    BY <2>2, <2>3, <2>4
<1>10. CASE ServeRefuse
  <2>1. Flags'
    BY <1>10, DraftAlone DEF ServeRefuse, Flags, TypeOK
  <2>2. TypeOK'
    BY <1>10, <2>1, DraftAlone DEF ServeRefuse, TypeOK, Flags, WorkerInv, WorkerCounted,
       Counted, LoadsCounted, RequestFits, Requests, NoRequest
  <2>3. WorkerInv'
    BY <1>10, <2>1 DEF ServeRefuse, TypeOK, Flags, WorkerInv, WorkerCounted, Counted,
       RequestFits, LoadsCounted, JoinedFirst, Requests, NoRequest
  <2>4. SlotInv'
    BY <1>10, <2>1, DraftAlone DEF ServeRefuse, TypeOK, Flags, WorkerInv, WorkerCounted,
       Counted, RequestFits, JoinedFirst, SlotInv, OfThisServer, OwnersAgree, LoadingAlone,
       ModelInUse, ExpectHonoured, Requests
  <2> QED
    BY <2>2, <2>3, <2>4
<1>11. CASE KeepAlive
  <2>1. Flags'
    BY <1>11, DraftAlone DEF KeepAlive, Flags, TypeOK
  <2>2. TypeOK'
    BY ZenonT(60), <1>11, <2>1, DraftAlone DEF KeepAlive, TypeOK, Flags, WorkerInv, WorkerCounted,
       Counted, LoadsCounted, RequestFits, Requests, NoRequest
  <2>3. WorkerInv'
    BY <1>11, <2>1 DEF KeepAlive, TypeOK, Flags, WorkerInv, WorkerCounted, Counted,
       RequestFits, LoadsCounted, JoinedFirst, Requests, NoRequest
  <2>4. SlotInv'
    BY <1>11, <2>1, DraftAlone DEF KeepAlive, TypeOK, Flags, WorkerInv, WorkerCounted,
       Counted, RequestFits, JoinedFirst, SlotInv, OfThisServer, OwnersAgree, LoadingAlone,
       ModelInUse, ExpectHonoured, Requests
  <2> QED
    BY <2>2, <2>3, <2>4
<1>12. CASE Finish
  <2>1. Flags'
    BY <1>12, DraftAlone DEF Finish, Flags, TypeOK
  <2>2. TypeOK'
    BY <1>12, <2>1, DraftAlone DEF Finish, TypeOK, Flags, WorkerInv, WorkerCounted, Counted,
       LoadsCounted, RequestFits, Requests, NoRequest
  <2>3. WorkerInv'
    BY <1>12, <2>1 DEF Finish, TypeOK, Flags, WorkerInv, WorkerCounted, Counted,
       RequestFits, LoadsCounted, JoinedFirst, Requests, NoRequest
  <2>4. SlotInv'
    BY <1>12, <2>1, DraftAlone DEF Finish, TypeOK, Flags, WorkerInv, WorkerCounted, Counted,
       RequestFits, JoinedFirst, SlotInv, OfThisServer, OwnersAgree, LoadingAlone,
       ModelInUse, ExpectHonoured, Requests
  <2> QED
    BY <2>2, <2>3, <2>4
<1>13. CASE Tail
  <2>1. Flags'
    BY <1>13, DraftAlone DEF Tail, UnloadBoth, UnloadResident, Flags, TypeOK
  <2>2. TypeOK'
    <3>1. CASE pending_unload /\ ~loading /\ active = 0
      <4>1. /\ resident' = NoModel /\ generation' = generation /\ wpc' = "unloadClear"
            /\ container' \in {container, "none"}
        BY <1>13, <3>1 DEF Tail, UnloadBoth, UnloadResident
      <4> QED
        BY <1>13, <2>1, <4>1 DEF Tail, TypeOK, Flags, Requests, NoRequest
    <3>2. CASE ~(pending_unload /\ ~loading /\ active = 0)
      <4>1. UNCHANGED slotVars /\ wpc' = "idle"
        BY <1>13, <3>2 DEF Tail
      <4> QED
        BY <1>13, <2>1, <4>1 DEF Tail, TypeOK, Flags, Requests, NoRequest
    <3> QED
      BY <3>1, <3>2
  <2>3. WorkerInv'
    BY <1>13, <2>1 DEF Tail, UnloadBoth, UnloadResident, TypeOK, Flags, WorkerInv,
       WorkerCounted, Counted, RequestFits, LoadsCounted, JoinedFirst, Requests, NoRequest
  <2>4. SlotInv'
    BY <1>13, <2>1, DraftAlone DEF Tail, UnloadBoth, UnloadResident, TypeOK, Flags,
       WorkerInv, WorkerCounted, Counted, RequestFits, JoinedFirst, SlotInv, OfThisServer,
       OwnersAgree, LoadingAlone, ModelInUse, ExpectHonoured, Requests
  <2> QED
    BY <2>2, <2>3, <2>4
<1>14. CASE WorkerExit
  <2>1. Flags'
    BY <1>14, DraftAlone DEF WorkerExit, Flags, TypeOK
  <2>2. TypeOK'
    BY <1>14, <2>1, DraftAlone DEF WorkerExit, TypeOK, Flags, WorkerInv, WorkerCounted,
       Counted, LoadsCounted, RequestFits, Requests, NoRequest
  <2>3. WorkerInv'
    BY <1>14, <2>1 DEF WorkerExit, TypeOK, Flags, WorkerInv, WorkerCounted, Counted,
       RequestFits, LoadsCounted, JoinedFirst, Requests, NoRequest
  <2>4. SlotInv'
    BY <1>14, <2>1, DraftAlone DEF WorkerExit, TypeOK, Flags, WorkerInv, WorkerCounted,
       Counted, RequestFits, JoinedFirst, SlotInv, OfThisServer, OwnersAgree, LoadingAlone,
       ModelInUse, ExpectHonoured, Requests
  <2> QED
    BY <2>2, <2>3, <2>4
<1>15. CASE LoadOwnerGone
  <2>1. Flags'
    BY <1>15, DraftAlone DEF LoadOwnerGone, Flags, TypeOK
  <2>2. TypeOK'
    BY <1>15, <2>1, DraftAlone DEF LoadOwnerGone, TypeOK, Flags, WorkerInv, WorkerCounted,
       Counted, LoadsCounted, RequestFits, Requests, NoRequest
  <2>3. WorkerInv'
    BY <1>15, <2>1 DEF LoadOwnerGone, TypeOK, Flags, WorkerInv, WorkerCounted, Counted,
       RequestFits, LoadsCounted, JoinedFirst, Requests, NoRequest
  <2>4. SlotInv'
    BY <1>15, <2>1, DraftAlone DEF LoadOwnerGone, TypeOK, Flags, WorkerInv, WorkerCounted,
       Counted, RequestFits, JoinedFirst, SlotInv, OfThisServer, OwnersAgree, LoadingAlone,
       ModelInUse, ExpectHonoured, Requests
  <2> QED
    BY <2>2, <2>3, <2>4
<1>16. CASE UnloadBegin
  <2>1. Flags'
    BY <1>16, DraftAlone DEF UnloadBegin, Flags, TypeOK
  <2>2. TypeOK'
    BY <1>16, <2>1, DraftAlone DEF UnloadBegin, TypeOK, Flags, WorkerInv, WorkerCounted,
       Counted, LoadsCounted, RequestFits, Requests, NoRequest
  <2>3. WorkerInv'
    BY <1>16, <2>1 DEF UnloadBegin, TypeOK, Flags, WorkerInv, WorkerCounted, Counted,
       RequestFits, LoadsCounted, JoinedFirst, Requests, NoRequest
  <2>4. SlotInv'
    BY <1>16, <2>1, DraftAlone DEF UnloadBegin, TypeOK, Flags, WorkerInv, WorkerCounted,
       Counted, RequestFits, JoinedFirst, SlotInv, OfThisServer, OwnersAgree, LoadingAlone,
       ModelInUse, ExpectHonoured, Requests
  <2> QED
    BY <2>2, <2>3, <2>4
<1>17. CASE ReaperLook \/ ReaperSkip \/ ReaperExit
  <2>1. Flags'
    BY <1>17, DraftAlone DEF ReaperLook, ReaperSkip, ReaperExit, Flags, TypeOK
  <2>2. TypeOK'
    BY <1>17, <2>1, DraftAlone DEF ReaperLook, ReaperSkip, ReaperExit, TypeOK, Flags,
       WorkerInv, WorkerCounted, Counted, LoadsCounted, RequestFits, Requests, NoRequest
  <2>3. WorkerInv'
    BY <1>17, <2>1 DEF ReaperLook, ReaperSkip, ReaperExit, TypeOK, Flags, WorkerInv,
       WorkerCounted, Counted, RequestFits, LoadsCounted, JoinedFirst, Requests, NoRequest
  <2>4. SlotInv'
    BY <1>17, <2>1, DraftAlone DEF ReaperLook, ReaperSkip, ReaperExit, TypeOK, Flags,
       WorkerInv, WorkerCounted, Counted, RequestFits, JoinedFirst, SlotInv, OfThisServer,
       OwnersAgree, LoadingAlone, ModelInUse, ExpectHonoured, Requests
  <2> QED
    BY <2>2, <2>3, <2>4
<1>18. CASE Reap
  <2>1. Flags'
    BY <1>18, DraftAlone DEF Reap, UnloadBoth, UnloadResident, Flags, TypeOK
  <2>2. TypeOK'
    BY <1>18, <2>1, DraftAlone DEF Reap, UnloadBoth, UnloadResident, TypeOK, Flags,
       WorkerInv, WorkerCounted, Counted, LoadsCounted, RequestFits, Requests, NoRequest
  <2>3. WorkerInv'
    BY <1>18, <2>1 DEF Reap, UnloadBoth, UnloadResident, TypeOK, Flags, WorkerInv,
       WorkerCounted, Counted, RequestFits, LoadsCounted, JoinedFirst, Requests, NoRequest
  <2>4. SlotInv'
    BY <1>18, <2>1, DraftAlone DEF Reap, UnloadBoth, UnloadResident, TypeOK, Flags,
       WorkerInv, WorkerCounted, Counted, RequestFits, JoinedFirst, SlotInv, OfThisServer,
       OwnersAgree, LoadingAlone, ModelInUse, ExpectHonoured, Requests
  <2> QED
    BY <2>2, <2>3, <2>4
<1>19. CASE QueueShutdown \/ CancelLoad \/ JoinSlot
  <2>1. Flags'
    BY <1>19, DraftAlone DEF QueueShutdown, CancelLoad, JoinSlot, Flags, TypeOK
  <2>2. TypeOK'
    BY <1>19, <2>1, DraftAlone DEF QueueShutdown, CancelLoad, JoinSlot, TypeOK, Flags,
       WorkerInv, WorkerCounted, Counted, LoadsCounted, RequestFits, Requests, NoRequest
  <2>3. WorkerInv'
    BY <1>19, <2>1 DEF QueueShutdown, CancelLoad, JoinSlot, TypeOK, Flags, WorkerInv,
       WorkerCounted, Counted, RequestFits, LoadsCounted, JoinedFirst, Requests, NoRequest
  <2>4. SlotInv'
    BY <1>19, <2>1, DraftAlone DEF QueueShutdown, CancelLoad, JoinSlot, TypeOK, Flags,
       WorkerInv, WorkerCounted, Counted, RequestFits, JoinedFirst, SlotInv, OfThisServer,
       OwnersAgree, LoadingAlone, ModelInUse, ExpectHonoured, Requests
  <2> QED
    BY <2>2, <2>3, <2>4
<1>20. CASE FinalUnload
  <2>1. Flags'
    BY <1>20, DraftAlone DEF FinalUnload, UnloadBoth, UnloadResident, Flags, TypeOK
  <2>2. TypeOK'
    BY <1>20, <2>1, DraftAlone DEF FinalUnload, UnloadBoth, UnloadResident, TypeOK, Flags,
       WorkerInv, WorkerCounted, Counted, LoadsCounted, RequestFits, Requests, NoRequest
  <2>3. WorkerInv'
    BY <1>20, <2>1 DEF FinalUnload, UnloadBoth, UnloadResident, TypeOK, Flags, WorkerInv,
       WorkerCounted, Counted, RequestFits, LoadsCounted, JoinedFirst, Requests, NoRequest
  <2>4. SlotInv'
    BY <1>20, <2>1, DraftAlone DEF FinalUnload, UnloadBoth, UnloadResident, TypeOK, Flags,
       WorkerInv, WorkerCounted, Counted, RequestFits, JoinedFirst, SlotInv, OfThisServer,
       OwnersAgree, LoadingAlone, ModelInUse, ExpectHonoured, Requests
  <2> QED
    BY <2>2, <2>3, <2>4
<1>21. ASSUME NEW t \in {"worker", "accept"}, UnloadLoading(t) \/ UnloadDefer(t) PROVE IInv'
  <2>1. Flags'
    BY <1>21, DraftAlone DEF UnloadLoading, UnloadDefer, At, Goto, Flags, TypeOK
  <2>2. TypeOK'
    BY <1>21, <2>1, DraftAlone DEF UnloadLoading, UnloadDefer, At, Goto, TypeOK, Flags,
       WorkerInv, WorkerCounted, Counted, LoadsCounted, RequestFits, Requests, NoRequest
  <2>3. WorkerInv'
    BY <1>21, <2>1 DEF UnloadLoading, UnloadDefer, At, Goto, TypeOK, Flags, WorkerInv,
       WorkerCounted, Counted, RequestFits, LoadsCounted, JoinedFirst, Requests, NoRequest
  <2>4. SlotInv'
    BY <1>21, <2>1, DraftAlone DEF UnloadLoading, UnloadDefer, At, Goto, TypeOK, Flags,
       WorkerInv, WorkerCounted, Counted, RequestFits, JoinedFirst, SlotInv, OfThisServer,
       OwnersAgree, LoadingAlone, ModelInUse, ExpectHonoured, Requests
  <2> QED
    BY <2>2, <2>3, <2>4
<1>22. ASSUME NEW t \in {"worker", "accept"}, UnloadNow(t) PROVE IInv'
  <2>1. Flags'
    BY <1>22, DraftAlone DEF UnloadNow, UnloadBoth, UnloadResident, At, Goto, Flags, TypeOK
  <2>2. TypeOK'
    BY ZenonT(60), <1>22, <2>1, DraftAlone DEF UnloadNow, UnloadBoth, UnloadResident, At, Goto, TypeOK,
       Flags, WorkerInv, WorkerCounted, Counted, LoadsCounted, RequestFits, Requests,
       NoRequest
  <2>3. WorkerInv'
    BY <1>22, <2>1 DEF UnloadNow, UnloadBoth, UnloadResident, At, Goto, TypeOK, Flags,
       WorkerInv, WorkerCounted, Counted, RequestFits, LoadsCounted, JoinedFirst, Requests,
       NoRequest
  <2>4. SlotInv'
    BY <1>22, <2>1, DraftAlone DEF UnloadNow, UnloadBoth, UnloadResident, At, Goto, TypeOK,
       Flags, WorkerInv, WorkerCounted, Counted, RequestFits, JoinedFirst, SlotInv,
       OfThisServer, OwnersAgree, LoadingAlone, ModelInUse, ExpectHonoured, Requests
  <2> QED
    BY <2>2, <2>3, <2>4
<1>23. ASSUME NEW t \in {"worker", "accept"}, UnloadClear(t) PROVE IInv'
  <2>1. Flags'
    BY <1>23, DraftAlone DEF UnloadClear, At, Goto, Flags, TypeOK
  <2>2. TypeOK'
    BY <1>23, <2>1, DraftAlone DEF UnloadClear, At, Goto, TypeOK, Flags, WorkerInv,
       WorkerCounted, Counted, LoadsCounted, RequestFits, Requests, NoRequest
  <2>3. WorkerInv'
    BY <1>23, <2>1 DEF UnloadClear, At, Goto, TypeOK, Flags, WorkerInv, WorkerCounted,
       Counted, RequestFits, LoadsCounted, JoinedFirst, Requests, NoRequest
  <2>4. SlotInv'
    BY <1>23, <2>1, DraftAlone DEF UnloadClear, At, Goto, TypeOK, Flags, WorkerInv,
       WorkerCounted, Counted, RequestFits, JoinedFirst, SlotInv, OfThisServer, OwnersAgree,
       LoadingAlone, ModelInUse, ExpectHonoured, Requests
  <2> QED
    BY <2>2, <2>3, <2>4
<1>24. CASE UNCHANGED vars
  BY <1>24 DEF vars, TypeOK, WorkerInv, SlotInv, WorkerCounted, Counted, RequestFits,
     OfThisServer, LoadsCounted, JoinedFirst, ModelInUse, LoadingAlone, OwnersAgree,
     ExpectHonoured
<1> QED
  BY <1>1, <1>2, <1>3, <1>4, <1>5, <1>6, <1>7, <1>8, <1>9, <1>10, <1>11, <1>12, <1>13,
     <1>14, <1>15, <1>16, <1>17, <1>18, <1>19, <1>20, <1>21, <1>22, <1>23, <1>24 DEF Next,
     WorkerStep, UnloadStep, ShutdownStep, Terminated

-----------------------------------------------------------------------------
LEMMA InvHolds == Spec => []IInv
BY InitInv, NextInv, PTL DEF Spec, SafeSpec

\* Through every interleaving of requests, unloads, reaps and the shutdown a request
\* runs on the model swap_to_expect routed it to, which stays in slot 0 up to the
\* request's safe point.
THEOREM ResidencyModelInUse == Spec => []ModelInUse
<1>1. IInv => ModelInUse
  BY DEF IInv, SlotInv
<1> QED
  BY <1>1, InvHolds, PTL

\* The load that swap_to_expect runs without swap_mu has slot 0 to itself: no
\* /unload, reap or draft meets it there.
THEOREM ResidencyLoadingAlone == Spec => []LoadingAlone
<1>1. IInv => LoadingAlone
  BY DEF IInv, SlotInv
<1> QED
  BY <1>1, InvHolds, PTL

\* SV.borrowed, the containers and the draft agree with SV.resident through any
\* number of unloads and reloads: nothing of main()'s is freed, no load is leaked.
THEOREM ResidencyOwnersAgree == Spec => []OwnersAgree
<1>1. IInv => OwnersAgree
  BY DEF IInv, SlotInv
<1> QED
  BY <1>1, InvHolds, PTL

\* A request with an expect_resident is served by the very load it named: no
\* reload slips in between the check in swap_to_expect and the handler.
THEOREM ResidencyExpectHonoured == Spec => []ExpectHonoured
<1>1. IInv => ExpectHonoured
  BY DEF IInv, SlotInv
<1> QED
  BY <1>1, InvHolds, PTL
=============================================================================
