SPECIFICATION Spec
CONSTANTS
    Modes <- DualMode
    Topics <- MCTopics
    Retries = 2
    None = None
INVARIANT
    ActiveLinksSubscribed
