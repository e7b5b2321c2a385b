SPECIFICATION FairSpec
CONSTANTS
    Providers <- MCProviders
    Specs <- MCSpecs
    CredentialKeys <- MCCredentialKeys
    EnvVars <- MCEnvVars
    KeySecrets <- MCKeySecrets
    CASecrets <- MCCASecrets
    Given <- MCGiven
    InitSpecs <- MCInitSpecs
    MaxEvents = 2
INVARIANTS
    TypeOK
    TokensAgree
    OneRulePerRequest
    TemplateComplete
    QuiescentIsSettled
PROPERTIES
    IssuesTokens
    Settles
CHECK_DEADLOCK FALSE
