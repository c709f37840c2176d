--------------------------- MODULE MC_WebhookRetry ---------------------------
EXTENDS WebhookRetry, TLC

\* Message ids are interchangeable: nothing in the model orders them.
MCSymmetry == Permutations(Msgs)
=============================================================================
