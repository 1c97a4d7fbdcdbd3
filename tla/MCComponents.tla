------------------------------ MODULE MCComponents ------------------------------
(***************************************************************************)
(* The components that share no state, checked in one run: `focus' says    *)
(* which of them this behaviour is about, the others stay as they begin.   *)
(***************************************************************************)
EXTENDS EventQueue, TerminalSocket, ModelGateway, PreviewContent, RunConsole, ProjectFiles,
        ProjectListing, UserUsage, ProjectChanges, Algorithms

VARIABLE focus

componentsVars == <<focus, queueVars, socketVars, gatewayVars, contentVars, consoleVars,
                    filesVars, listingVars, usageVars, changesVars, sample>>

ComponentsInit ==
    /\ focus \in {"queue", "socket", "gateway", "content", "console", "files", "listing",
                  "usage", "changes", "algorithms"}
    /\ QueueInit /\ SocketInit /\ GatewayInit /\ ContentInit /\ ConsoleInit /\ FilesInit
    /\ ListingInit /\ UsageInit /\ ChangesInit /\ AlgorithmsInit

\* What a step of another component than c leaves alone
Rest(c, itsVars) == IF focus = c THEN TRUE ELSE UNCHANGED itsVars

Others ==
    /\ UNCHANGED focus
    /\ Rest("queue", queueVars)
    /\ Rest("socket", socketVars)
    /\ Rest("gateway", gatewayVars)
    /\ Rest("content", contentVars)
    /\ Rest("console", consoleVars)
    /\ Rest("files", filesVars)
    /\ Rest("listing", listingVars)
    /\ Rest("usage", usageVars)
    /\ Rest("changes", changesVars)
    /\ Rest("algorithms", sample)

StepQueue == focus = "queue" /\ QueueNext /\ Others
StepSocket == focus = "socket" /\ SocketNext /\ Others
StepGateway == focus = "gateway" /\ GatewayNext /\ Others
StepContent == focus = "content" /\ ContentNext /\ Others
StepConsole == focus = "console" /\ ConsoleNext /\ Others
StepFiles == focus = "files" /\ FilesNext /\ Others
StepListing == focus = "listing" /\ ListingNext /\ Others
StepUsage == focus = "usage" /\ UsageNext /\ Others
StepChanges == focus = "changes" /\ ChangesNext /\ Others
StepAlgorithms == focus = "algorithms" /\ AlgorithmsNext /\ Others

ComponentsNext ==
    \/ StepQueue \/ StepSocket \/ StepGateway \/ StepContent
    \/ StepConsole \/ StepFiles \/ StepListing \/ StepUsage \/ StepChanges
    \/ StepAlgorithms

\* What is fair is not enabled before the component's first step, so it asks nothing of the
\* components that a behaviour is not about.
ComponentsSpec ==
    /\ ComponentsInit /\ [][ComponentsNext]_componentsVars
    /\ QueueFairness /\ SocketFairness /\ ConsoleFairness
=============================================================================
