------------------------------ MODULE MCOutbox ------------------------------
\* Instances of Outbox: what is submitted, and where brokers may be killed.
EXTENDS Outbox

CONSTANTS dispatcher, direct

RequestAndApproval == <<"review-request", "approval">>
RequestAndFindings == <<"review-request", "review-findings">>
TwoRequests == <<"review-request", "review-findings", "review-request">>
OneRequest == <<"review-request">>
RequestApprovalRequest == <<"review-request", "approval", "review-request">>
TwoFindings == <<"review-request", "review-findings", "review-findings">>

Everywhere == BrokerPCs \ {"idle"}
NotTearing == Everywhere \ {"bind", "receipt", "archive"}
NotOrphaning == Everywhere \ {"own", "rmdir"}
=============================================================================
