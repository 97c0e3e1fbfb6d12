------------------------------- MODULE MCLogin -------------------------------
EXTENDS Login, TLC

CONSTANTS alice, bob, anonymous, star, secret

\* One entry of a configuration file.
Entry(name, backend, shared, readOnly) ==
  [user |-> name, pass |-> [form |-> "plain", text |-> secret], fs |-> backend,
   shared |-> shared, readOnly |-> readOnly, sync |-> readOnly]

Local(accesses)  == [webhook |-> FALSE, accesses |-> accesses]
Webhook          == [webhook |-> TRUE, accesses |-> <<>>]

\* Shared, private and read-only accesses of two users, and a webhook.
MixedContents ==
  {Webhook,
   Local(<<Entry(alice, "os", TRUE, FALSE), Entry(bob, "s3", FALSE, TRUE)>>),
   Local(<<Entry(bob, "s3", TRUE, FALSE), Entry(alice, "os", FALSE, FALSE)>>),
   Local(<<Entry(alice, "s3", TRUE, TRUE)>>)}

MixedAnswers == {Entry(alice, "os", TRUE, FALSE), Entry(bob, "s3", FALSE, FALSE)}

\* One entry answers for everybody and lets Keycloak check the password.
KeycloakContents == {Local(<<Entry(alice, "keycloak", FALSE, FALSE)>>)}

\* One list with a shared access and an entry of Keycloak behind it.
HybridContents ==
  {Local(<<Entry(alice, "os", TRUE, FALSE), Entry(alice, "keycloak", FALSE, FALSE)>>)}

AllContents == MixedContents \cup KeycloakContents \cup HybridContents

\* A shared access that a reload makes read-only.
LockedDownContents ==
  {Local(<<Entry(alice, "s3", TRUE, FALSE)>>), Local(<<Entry(alice, "s3", TRUE, TRUE)>>)}

NoAnswers == {}

TheAccounts == {alice, bob} \X {secret}

=============================================================================
