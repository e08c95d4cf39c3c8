------------------------- MODULE MCAzureSubscription -------------------------
EXTENDS AzureSubscription, TLC

\* Calls are alike, and so are subscriptions.
Alike == Permutations(Calls) \cup Permutations(Subs)
=============================================================================
