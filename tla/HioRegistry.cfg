\* The whole catalog registered, indications of every class dispatched.
SPECIFICATION Spec
CONSTANTS
  ImportOrder <- AllModules
  HandlerClasses <- ToolHandlers
INVARIANT TypeOK EveryFrameResolves IndicationReachesItsHandler
\* Once every module is imported, handlers set and removed and indications
\* dispatched, states repeat; nothing here can deadlock, so keep the check.
