----------------------------- MODULE MCNodeJobs -----------------------------
EXTENDS NodeJobs

PairsAndSingles ==
    {{"crash", "cancel"}, {"deadline", "cancel"}, {"loss", "renew"}, {"revoke"}, {"expired"},
     {"savefail"}}
=============================================================================
