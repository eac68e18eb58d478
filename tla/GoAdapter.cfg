SPECIFICATION Spec
INVARIANTS NoGuess CacheNotLost HomeDenialIsVisible
