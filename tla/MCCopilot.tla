----------------------------- MODULE MCCopilot -----------------------------
(* Instances of Copilot for TLC. *)
EXTENDS Copilot, TLC

Symmetric == Permutations(Requests) \cup Permutations(Users)

\* Quotas: a monthly limit, a cost cap and a daily limit.
Limited(monthly, cap, dailyLimit) ==
    [enabled |-> TRUE, monthly |-> monthly, cap |-> cap, daily |-> dailyLimit]
Disabled == [NoQuota EXCEPT !.monthly = 1, !.daily = 1]

TwoLimits == {Limited(1, 0, 1), Limited(2, 5, 1), Disabled}
Unlimited == {Limited(0, 0, 0)}

OneProvider == <<"claude">>
TwoProviders == <<"gemini", "claude">>
All == Providers

=============================================================================
