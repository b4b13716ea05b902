------------------------------ MODULE MCRetry ------------------------------
EXTENDS Retry

\* No attempts, one, a few; a delay that reaches its cap at once, later and never,
\* and none; no jitter, some, and more than the delay.
MCConfigs ==
    [MaxAttempts : {0, 1, 2, 4}, BaseDelay : {0, 1, 3}, MaxDelay : {0, 4},
     Jitter : {0, 5, 12}, RetryCodes : {{}, {"Unavailable"}, {"Unavailable", "Aborted"}}]

=============================================================================
