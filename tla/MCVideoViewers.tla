--------------------------- MODULE MCVideoViewers ---------------------------
(* A small instance of VideoViewers: a trial of a key that licences the highest tier   *)
(* without commercial authorization, and the same key unlocked for a lower one.        *)
EXTENDS VideoViewers

MCMethods == {"image.process", "image.process_page"}
MCTrial == [account |-> "trial", licensed |-> "svip_plus", trial |-> TRUE,
            commercial |-> FALSE, capabilities |-> {"image.process"}]
MCFull == [account |-> "svip", licensed |-> "svip", trial |-> FALSE,
           commercial |-> TRUE, capabilities |-> MCMethods]
=============================================================================
